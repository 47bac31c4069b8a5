------------------------ MODULE StoredInvoicesProofs ------------------------
(***************************************************************************)
(* What StoredInvoices promises of invoices, their history and their lines *)
(* holds for every number of invoices, statuses, runs, consumers and       *)
(* faults.                                                                 *)
(*                                                                         *)
(* The invariant has five parts: the types; the history; which pull owns a *)
(* run and what the run still owes; who will fetch missing lines; and the  *)
(* owners of lines - a consumer has inserted at most one of the copies     *)
(* that are there, because it sees and deletes what it inserted before.    *)
(***************************************************************************)
EXTENDS StoredInvoices, FiniteSetTheorems, WellFoundedInduction, TLAPS

\* The record that is listed first began before the latest one was committed,
\* and nothing began later than now.
InTransaction(w) == Doing(w, "pull", "begun") \/ Doing(w, "pull", "selected")

HistoryOK ==
  /\ NewsIsTrue
  /\ \A c \in Columns : lastNews[c].luc <= recorded[c] /\ recorded[c] <= clock
  /\ \A w \in Workers : InTransaction(w) => job[w].luc <= clock

\* A run that is worked on has one pull, and what it owes is among what its
\* pull will find, or has found.
OwnRun(w) ==
  /\ run[job[w].run] = "working"
  /\ \A v \in Workers : job[v].kind = "pull" /\ job[v].run = job[w].run => v = w

OwnDebt(w) ==
  /\ \A i \in Invoices : job[w].seen[i] # None => stored[i] # None
  /\ job[w].step \in {"fetched", "begun", "selected"} =>
       \A i \in owed[job[w].run] : job[w].rows[i] # None
  /\ job[w].step = "committed" => owed[job[w].run] \subseteq job[w].found
  /\ job[w].step = "enqueued" => owed[job[w].run] = {}

RunsOK ==
  /\ \A r \in Runs : owed[r] # {} => run[r] # "free"
  /\ \A r \in Runs : \A i \in owed[r] : stored[i] # None
  /\ \A w \in Workers : job[w].kind = "pull" => OwnRun(w) /\ OwnDebt(w)

\* A job that has committed fetches nothing any more.
Serving(w, i) == job[w].kind = "detail" /\ job[w].inv = i /\ job[w].step # "committed"

LinesServed ==
  \A i \in Invoices :
    stored[i] # None /\ lines[i] = {} =>
      \/ detail[i] > 0
      \/ \E w \in Workers : Serving(w, i)
      \/ \E r \in Runs : i \in owed[r]
      \/ i \in givenUp

\* f names the consumer that inserted each copy.
Distinct(f, S) == \A c, d \in S : f[c] = f[d] => c = d

Owners(i, f) ==
  /\ Distinct(f, lines[i])
  /\ \A w \in Workers : \A c \in lines[i] :
       Doing(w, "detail", "deleted") /\ job[w].inv = i /\ f[c] = w => c \in job[w].seen

OneEach ==
  /\ \A i \in Invoices : \E f \in [Copies -> Workers] : Owners(i, f)
  /\ \A w \in Workers : job[w].kind = "detail" =>
       \E f \in [Copies -> Workers] : Distinct(f, job[w].seen)

IInv == TypeOK /\ HistoryOK /\ RunsOK /\ LinesServed /\ OneEach

-----------------------------------------------------------------------------
(***************************************************************************)
(* Jobs                                                                    *)
(***************************************************************************)
Jobs == {Idle} \cup Pulls \cup Details
PullSteps == {"fetched", "begun", "selected", "committed", "enqueued"}

LEMMA JobFacts ==
    ASSUME NEW j \in Jobs
    PROVE  /\ j.kind \in {"idle", "pull", "detail"}
           /\ j.kind = "idle" => j = Idle
           /\ j.kind = "pull" =>
                /\ j \in Pulls /\ j.step \in PullSteps /\ j.run \in Runs
                /\ j.rows \in Rows /\ j.seen \in Rows /\ j.found \in SUBSET Invoices
                /\ j.luc \in Nat
           /\ j.kind = "detail" =>
                /\ j \in Details /\ j.step \in {"fetched", "deleted", "committed"}
                /\ j.inv \in Invoices /\ j.seen \in SUBSET Copies
BY DEF Jobs, Idle, Pulls, Details, PullSteps

LEMMA IdleFacts == Idle \in Jobs /\ Idle.kind = "idle"
BY DEF Jobs, Idle

LEMMA NewPullFacts ==
    ASSUME NEW r \in Runs, NEW rows \in Rows
    PROVE  /\ PullJob(r, rows) \in Jobs
           /\ PullJob(r, rows).kind = "pull" /\ PullJob(r, rows).step = "fetched"
           /\ PullJob(r, rows).run = r /\ PullJob(r, rows).rows = rows
           /\ \A i \in Invoices : PullJob(r, rows).seen[i] = None
BY DEF PullJob, Jobs, Pulls, Rows

LEMMA NewDetailFacts ==
    ASSUME NEW i \in Invoices
    PROVE  /\ DetailJob(i) \in Jobs
           /\ DetailJob(i).kind = "detail" /\ DetailJob(i).step = "fetched"
           /\ DetailJob(i).inv = i /\ DetailJob(i).seen = {}
BY DEF DetailJob, Jobs, Details

LEMMA JobTypes ==
    ASSUME TypeOK, NEW w \in Workers
    PROVE  job[w] \in Jobs
BY DEF TypeOK, Jobs

\* One consumer's job becomes another.
LEMMA JobChanges ==
    ASSUME TypeOK, NEW w \in Workers, NEW j \in Jobs, job' = [job EXCEPT ![w] = j]
    PROVE  /\ job' \in [Workers -> {Idle} \cup Pulls \cup Details]
           /\ job'[w] = j
           /\ \A v \in Workers : v # w => job'[v] = job[v]
BY DEF TypeOK, Jobs

\* Messages of phase 2 are never taken back, and the bound keeps one.
LEMMA SendFacts ==
    ASSUME TypeOK, NEW S, Send(S)
    PROVE  /\ detail' \in [Invoices -> 0 .. MaxDetail]
           /\ \A i \in Invoices : detail[i] > 0 \/ i \in S => detail'[i] > 0
<1>1. MaxDetail \in Nat \ {0}
  BY InvoicesAssumption
<1>2. \A i \in Invoices : detail[i] \in 0 .. MaxDetail
  BY DEF TypeOK
<1>3. detail' = [i \in Invoices |->
                   IF i \in S /\ detail[i] < MaxDetail THEN detail[i] + 1 ELSE detail[i]]
  BY DEF Send
<1> QED BY <1>1, <1>2, <1>3

-----------------------------------------------------------------------------
(***************************************************************************)
(* Parts that a step leaves alone                                          *)
(***************************************************************************)
\* Nothing is recorded, and no transaction begins but at a later time.
LEMMA HistoryFrame ==
    ASSUME HistoryOK, TypeOK, stored' = stored, lastNews' = lastNews, hushed' = hushed,
           recorded' = recorded, crossed' = crossed, clock' \in Nat, clock <= clock',
           NEW w \in Workers, \A v \in Workers : v # w => job'[v] = job[v],
           InTransaction(w)' => job'[w].luc <= clock'
    PROVE  HistoryOK'
<1>1. NewsIsTrue'
  BY DEF HistoryOK, NewsIsTrue
<1>2. ASSUME NEW c \in Columns
      PROVE  lastNews'[c].luc <= recorded'[c] /\ recorded'[c] <= clock'
  <2>1. recorded[c] \in Nat /\ clock \in Nat
    BY DEF TypeOK
  <2> QED BY <2>1 DEF HistoryOK
<1>3. ASSUME NEW v \in Workers, InTransaction(v)'
      PROVE  job'[v].luc <= clock'
  <2>1. CASE v # w
    <3>1. InTransaction(v) /\ job'[v] = job[v]
      BY <1>3, <2>1 DEF InTransaction, Doing
    <3>2. job[v].luc \in Nat /\ clock \in Nat
      BY <3>1, JobTypes, JobFacts DEF InTransaction, Doing, TypeOK
    <3> QED BY <3>1, <3>2 DEF HistoryOK
  <2>2. CASE v = w
    BY <1>3, <2>2
  <2> QED BY <2>1, <2>2
<1> QED BY <1>1, <1>2, <1>3 DEF HistoryOK

\* Nor does any transaction begin.
LEMMA HistoryRests ==
    ASSUME HistoryOK, TypeOK, stored' = stored, lastNews' = lastNews, hushed' = hushed,
           recorded' = recorded, crossed' = crossed, clock' = clock,
           NEW w \in Workers, \A v \in Workers : v # w => job'[v] = job[v],
           job'[w].kind = "pull" => job'[w].step \notin {"begun", "selected"}
    PROVE  HistoryOK'
<1>1. clock \in Nat /\ clock <= clock /\ ~InTransaction(w)'
  BY DEF TypeOK, InTransaction, Doing
<1> QED BY <1>1, HistoryFrame

\* No line comes or goes, and no job begins to delete.
LEMMA OneEachFrame ==
    ASSUME OneEach, TypeOK, lines' = lines, NEW w \in Workers,
           \A v \in Workers : v # w => job'[v] = job[v],
           job'[w].kind = "detail" => job'[w].step # "deleted" /\ job'[w].seen = {}
    PROVE  OneEach'
<1>1. ASSUME NEW i \in Invoices, NEW f \in [Copies -> Workers], Owners(i, f)
      PROVE  Owners(i, f)'
  <2>1. Distinct(f, lines'[i])
    BY <1>1 DEF Owners
  <2>2. ASSUME NEW v \in Workers, NEW c \in lines[i], Doing(v, "detail", "deleted")',
               job'[v].inv = i, f[c] = v
        PROVE  c \in job'[v].seen
    BY <1>1, <2>2 DEF Owners, Doing
  <2> QED BY <2>1, <2>2 DEF Owners, Distinct
<1>2. ASSUME NEW v \in Workers, job'[v].kind = "detail"
      PROVE  \E f \in [Copies -> Workers] : Distinct(f, job'[v].seen)
  <2>1. CASE v # w
    BY <1>2, <2>1 DEF OneEach
  <2>2. CASE v = w
    <3>1. job'[v].seen = {} /\ [c \in Copies |-> w] \in [Copies -> Workers]
      BY <1>2, <2>2
    <3> QED BY <3>1 DEF Distinct
  <2> QED BY <2>1, <2>2
<1>3. \A i \in Invoices : (\E f \in [Copies -> Workers] : Owners(i, f))'
  BY <1>1 DEF OneEach, Copies
<1>4. \A v \in Workers : job'[v].kind = "detail" =>
         (\E f \in [Copies -> Workers] : Distinct(f, job[v].seen))'
  BY <1>2 DEF Distinct, Copies
<1> QED BY <1>3, <1>4 DEF OneEach

\* Invoices are as they were, and who will fetch lines is replaced by another.
LEMMA ServedFrame ==
    ASSUME LinesServed, stored' = stored, lines' = lines,
           \A i \in Invoices :
             \/ detail[i] > 0
             \/ \E w \in Workers : Serving(w, i)
             \/ \E r \in Runs : i \in owed[r]
             \/ i \in givenUp
             => \/ detail'[i] > 0
                \/ \E w \in Workers : Serving(w, i)'
                \/ \E r \in Runs : i \in owed'[r]
                \/ i \in givenUp'
    PROVE  LinesServed'
BY DEF LinesServed

\* A step that neither begins nor ends a pull nor touches what pulls have done.
LEMMA RunsFrame ==
    ASSUME RunsOK, run' = run, owed' = owed, stored' = stored, NEW w \in Workers,
           \A v \in Workers : v # w => job'[v] = job[v],
           job[w].kind # "pull", job'[w].kind # "pull"
    PROVE  RunsOK'
<1>1. ASSUME NEW v \in Workers, job'[v].kind = "pull"
      PROVE  OwnRun(v)' /\ OwnDebt(v)'
  <2>1. v # w /\ job'[v] = job[v]
    BY <1>1
  <2>2. OwnRun(v) /\ OwnDebt(v)
    BY <1>1, <2>1 DEF RunsOK
  <2>3. OwnRun(v)'
    BY <2>1, <2>2 DEF OwnRun
  <2>4. OwnDebt(v)'
    BY <2>1, <2>2 DEF OwnDebt
  <2> QED BY <2>3, <2>4
<1> QED BY <1>1 DEF RunsOK

-----------------------------------------------------------------------------
(***************************************************************************)
(* Pulls                                                                   *)
(***************************************************************************)
LEMMA OpenRunKeeps ==
    ASSUME IInv, NEW r \in Runs, OpenRun(r)
    PROVE  IInv'
<1>1. /\ run[r] = "free" /\ run' = [run EXCEPT ![r] = "queued"]
      /\ stored' = stored /\ lines' = lines /\ history' = history /\ clock' = clock
      /\ detail' = detail /\ owed' = owed /\ givenUp' = givenUp
      /\ job' = job /\ faults' = faults
  BY DEF OpenRun, invoiceVars
<1>2. TypeOK'
  BY <1>1 DEF IInv, TypeOK, history
<1>3. HistoryOK' /\ LinesServed' /\ OneEach'
  BY <1>1 DEF IInv, HistoryOK, NewsIsTrue, InTransaction, history, LinesServed, Serving,
              OneEach, Owners, Distinct, Doing
<1>4. \A q \in Runs : run'[q] = IF q = r THEN "queued" ELSE run[q]
  BY <1>1 DEF IInv, TypeOK
<1>5. \A q \in Runs : owed'[q] # {} => run'[q] # "free"
  BY <1>1, <1>4 DEF IInv, RunsOK
<1>6. ASSUME NEW v \in Workers, job[v].kind = "pull"
      PROVE  OwnRun(v)' /\ OwnDebt(v)'
  <2>1. OwnRun(v) /\ OwnDebt(v)
    BY <1>6 DEF IInv, RunsOK
  <2>2. job[v].run \in Runs
    BY <1>6, JobTypes, JobFacts DEF IInv
  <2>3. OwnRun(v)'
    BY <1>1, <1>4, <2>1, <2>2 DEF OwnRun
  <2>4. OwnDebt(v)'
    BY <1>1, <2>1 DEF OwnDebt
  <2> QED BY <2>3, <2>4
<1>7. RunsOK'
  BY <1>1, <1>5, <1>6 DEF IInv, RunsOK
<1> QED BY <1>2, <1>3, <1>7 DEF IInv

LEMMA TakePullKeeps ==
    ASSUME IInv, NEW w \in Workers, NEW r \in Runs, TakePull(w, r)
    PROVE  IInv'
<1>1. PICK rows \in Pages : job' = [job EXCEPT ![w] = PullJob(r, rows)]
  BY DEF TakePull
<1>2. /\ job[w] = Idle /\ run[r] = "queued" /\ run' = [run EXCEPT ![r] = "working"]
      /\ stored' = stored /\ lines' = lines /\ history' = history /\ clock' = clock
      /\ detail' = detail /\ owed' = owed /\ givenUp' = givenUp
      /\ faults' = faults
  BY DEF TakePull, invoiceVars
<1>3. rows \in Rows /\ \A i \in Invoices : stored[i] # None => rows[i] # None
  BY DEF Pages
<1> DEFINE new == PullJob(r, rows)
<1>4. /\ new \in Jobs /\ new.kind = "pull" /\ new.step = "fetched"
      /\ new.run = r /\ new.rows = rows /\ \A i \in Invoices : new.seen[i] = None
  BY <1>3, NewPullFacts
<1> HIDE DEF new
<1>5. /\ job' \in [Workers -> {Idle} \cup Pulls \cup Details] /\ job'[w] = new
      /\ \A v \in Workers : v # w => job'[v] = job[v]
  BY <1>1, <1>4, JobChanges DEF IInv, new
<1>6. TypeOK'
  BY <1>2, <1>5 DEF IInv, TypeOK, history
<1>7. HistoryOK' /\ OneEach'
  BY <1>2, <1>4, <1>5, HistoryRests, OneEachFrame DEF IInv, history
<1>8. LinesServed'
  <2>1. \A v \in Workers, i \in Invoices : Serving(v, i) => Serving(v, i)'
    BY <1>2, <1>5, IdleFacts DEF Serving
  <2> QED BY <1>2, <2>1, ServedFrame DEF IInv
<1>9. \A q \in Runs : run'[q] = IF q = r THEN "working" ELSE run[q]
  BY <1>2 DEF IInv, TypeOK
<1>10. \A v \in Workers : job[v].kind = "pull" => job[v].run # r /\ job[v].run \in Runs
  BY <1>2, JobTypes, JobFacts DEF IInv, RunsOK, OwnRun
<1>11. OwnRun(w)' /\ OwnDebt(w)'
  <2>1. OwnRun(w)'
    BY <1>4, <1>5, <1>9, <1>10 DEF OwnRun
  <2>2. \A i \in owed[r] : stored[i] # None /\ i \in Invoices
    BY DEF IInv, RunsOK, TypeOK
  <2>3. OwnDebt(w)'
    BY <1>2, <1>3, <1>4, <1>5, <2>2 DEF OwnDebt
  <2> QED BY <2>1, <2>3
<1>12. ASSUME NEW v \in Workers, v # w, job'[v].kind = "pull"
       PROVE  OwnRun(v)' /\ OwnDebt(v)'
  <2>1. OwnRun(v) /\ OwnDebt(v) /\ job[v].run # r /\ job[v].run \in Runs /\ job'[v] = job[v]
    BY <1>5, <1>10, <1>12 DEF IInv, RunsOK
  <2>2. OwnRun(v)'
    BY <1>4, <1>5, <1>9, <2>1 DEF OwnRun
  <2>3. OwnDebt(v)'
    BY <1>2, <2>1 DEF OwnDebt
  <2> QED BY <2>2, <2>3
<1>13. RunsOK'
  <2>1. \A q \in Runs : (owed'[q] # {} => run'[q] # "free") /\ \A i \in owed'[q] : stored'[i] # None
    BY <1>2, <1>9 DEF IInv, RunsOK
  <2> QED BY <1>11, <1>12, <2>1 DEF RunsOK
<1> QED BY <1>6, <1>7, <1>8, <1>13 DEF IInv

\* A pull begins its transaction, or reads in it what is stored.
LEMMA PullAdvances ==
    ASSUME IInv, NEW w \in Workers, job[w].kind = "pull", job[w].step \in {"fetched", "begun"},
           NEW new \in Jobs, new.kind = "pull", new.step \in {"begun", "selected"},
           new.run = job[w].run, new.rows = job[w].rows, new.luc <= clock',
           \A i \in Invoices : new.seen[i] # None => stored[i] # None,
           job' = [job EXCEPT ![w] = new], clock' \in Nat, clock <= clock',
           stored' = stored, lines' = lines, history' = history, run' = run,
           detail' = detail, owed' = owed, givenUp' = givenUp, faults' = faults
    PROVE  IInv'
<1>1. /\ job' \in [Workers -> {Idle} \cup Pulls \cup Details] /\ job'[w] = new
      /\ \A v \in Workers : v # w => job'[v] = job[v]
  BY JobChanges DEF IInv
<1>2. TypeOK'
  BY <1>1 DEF IInv, TypeOK, history
<1>3. HistoryOK' /\ OneEach'
  BY <1>1, HistoryFrame, OneEachFrame DEF IInv, history
<1>4. LinesServed'
  <2>1. \A v \in Workers, i \in Invoices : Serving(v, i) => Serving(v, i)'
    BY <1>1 DEF Serving
  <2> QED BY <2>1, ServedFrame DEF IInv
<1>5. ASSUME NEW v \in Workers, job'[v].kind = "pull"
      PROVE  OwnRun(v)' /\ OwnDebt(v)'
  <2>1. /\ job[v].kind = "pull" /\ job'[v].run = job[v].run
        /\ \A u \in Workers : job'[u].kind = job[u].kind
        /\ \A u \in Workers : job[u].kind = "pull" => job'[u].run = job[u].run
    BY <1>1, <1>5
  <2>2. OwnRun(v) /\ OwnDebt(v)
    BY <2>1 DEF IInv, RunsOK
  <2>3. OwnRun(v)'
    BY <2>1, <2>2 DEF OwnRun
  <2>4. CASE v # w
    BY <1>1, <2>2, <2>3, <2>4 DEF OwnDebt
  <2>5. CASE v = w
    BY <1>1, <2>2, <2>3, <2>5 DEF OwnDebt
  <2> QED BY <2>4, <2>5
<1>6. RunsOK'
  BY <1>5 DEF IInv, RunsOK
<1> QED BY <1>2, <1>3, <1>4, <1>6 DEF IInv

LEMMA BeginKeeps ==
    ASSUME IInv, NEW w \in Workers, Begin(w)
    PROVE  IInv'
<1> DEFINE new == [job[w] EXCEPT !.step = "begun", !.luc = clock + 1]
<1>1. /\ job[w].kind = "pull" /\ job[w].step = "fetched" /\ clock' = clock + 1
      /\ run' = run /\ owed' = owed /\ detail' = detail /\ givenUp' = givenUp
      /\ stored' = stored /\ lines' = lines /\ history' = history /\ faults' = faults
  BY DEF Begin, Doing, queueVars
<1>2. job[w] \in Pulls /\ job[w] \in Jobs /\ clock \in Nat
  BY <1>1, JobTypes, JobFacts DEF IInv, TypeOK
<1>3. /\ new \in Jobs /\ new.kind = "pull" /\ new.step = "begun" /\ new.luc = clock + 1
      /\ new.run = job[w].run /\ new.rows = job[w].rows /\ new.seen = job[w].seen
  <2>1. clock + 1 \in Nat
    BY <1>2
  <2>2. new \in Pulls
    BY <1>2, <2>1 DEF Pulls
  <2> QED BY <1>2, <2>2 DEF Jobs, Pulls
<1>4. job' = [job EXCEPT ![w] = new]
  BY DEF Begin, IInv, TypeOK
<1>5. \A i \in Invoices : job[w].seen[i] # None => stored[i] # None
  BY <1>1 DEF IInv, RunsOK, OwnDebt
<1>6. /\ job[w].step \in {"fetched", "begun"} /\ new.step \in {"begun", "selected"}
      /\ clock' \in Nat /\ clock <= clock' /\ new.luc <= clock'
      /\ \A i \in Invoices : new.seen[i] # None => stored[i] # None
  BY <1>1, <1>2, <1>3, <1>5
<1> HIDE DEF new
<1> QED BY <1>1, <1>3, <1>4, <1>6, PullAdvances

LEMMA SelectExistingKeeps ==
    ASSUME IInv, NEW w \in Workers, SelectExisting(w)
    PROVE  IInv'
<1> DEFINE new == [job[w] EXCEPT !.step = "selected", !.seen = stored]
<1>1. /\ job[w].kind = "pull" /\ job[w].step = "begun" /\ clock' = clock
      /\ run' = run /\ owed' = owed /\ detail' = detail /\ givenUp' = givenUp
      /\ stored' = stored /\ lines' = lines /\ history' = history /\ faults' = faults
  BY DEF SelectExisting, Doing, invoiceVars, queueVars
<1>2. job[w] \in Pulls /\ stored \in Rows /\ job[w] \in Jobs /\ clock \in Nat
  BY <1>1, JobTypes, JobFacts DEF IInv, TypeOK
<1>3. /\ new \in Jobs /\ new.kind = "pull" /\ new.step = "selected" /\ new.seen = stored
      /\ new.run = job[w].run /\ new.rows = job[w].rows /\ new.luc = job[w].luc
  BY <1>2 DEF Jobs, Pulls
<1>4. job' = [job EXCEPT ![w] = new]
  BY DEF SelectExisting, IInv, TypeOK
<1>5. job[w].luc <= clock
  BY <1>1 DEF IInv, HistoryOK, InTransaction, Doing
<1>6. /\ job[w].step \in {"fetched", "begun"} /\ new.step \in {"begun", "selected"}
      /\ clock' \in Nat /\ clock <= clock' /\ new.luc <= clock'
      /\ \A i \in Invoices : new.seen[i] # None => stored[i] # None
  BY <1>1, <1>2, <1>3, <1>5
<1> HIDE DEF new
<1> QED BY <1>1, <1>3, <1>4, <1>6, PullAdvances

\* A pull goes on with its run.
LEMMA PullGoesOn ==
    ASSUME TypeOK, RunsOK, NEW w \in Workers, job[w].kind = "pull",
           \A v \in Workers : v # w => job'[v] = job[v],
           job'[w].kind = "pull", job'[w].run = job[w].run, run' = run,
           \A i \in Invoices : stored[i] # None => stored'[i] # None,
           \A r \in Runs : r # job[w].run => owed'[r] = owed[r],
           owed'[job[w].run] \in SUBSET Invoices,
           \A i \in owed'[job[w].run] : stored'[i] # None,
           OwnDebt(w)'
    PROVE  RunsOK'
<1>1. /\ job[w].run \in Runs
      /\ \A v \in Workers : job[v].kind = "pull" => job[v].run \in Runs /\ job[v].seen \in Rows
  BY JobTypes, JobFacts
<1>2. ASSUME NEW v \in Workers, job'[v].kind = "pull"
      PROVE  OwnRun(v)' /\ OwnDebt(v)'
  <2>1. job[v].kind = "pull" /\ OwnRun(v) /\ OwnDebt(v)
    BY <1>2 DEF RunsOK
  <2>2. \A u \in Workers : job'[u].kind = "pull" => job[u].kind = "pull" /\ job'[u].run = job[u].run
    OBVIOUS
  <2>3. OwnRun(v)'
    BY <1>2, <2>1, <2>2 DEF OwnRun
  <2>4. CASE v # w
    <3>1. job[v].run # job[w].run
      BY <2>1, <2>4 DEF OwnRun
    <3>2. /\ job'[v] = job[v] /\ owed'[job[v].run] = owed[job[v].run]
      BY <1>1, <2>1, <2>4, <3>1
    <3>3. \A i \in Invoices : job[v].seen[i] # None => stored'[i] # None
      BY <2>1 DEF OwnDebt
    <3> QED BY <2>1, <2>3, <3>2, <3>3 DEF OwnDebt
  <2> QED BY <2>3, <2>4
<1>3. ASSUME NEW r \in Runs
      PROVE  (owed'[r] # {} => run'[r] # "free") /\ \A i \in owed'[r] : stored'[i] # None
  <2>1. CASE r = job[w].run
    BY <2>1 DEF RunsOK, OwnRun
  <2>2. CASE r # job[w].run
    <3>1. owed'[r] = owed[r] /\ owed[r] \in SUBSET Invoices
      BY <2>2 DEF TypeOK
    <3> QED BY <3>1 DEF RunsOK
  <2> QED BY <2>1, <2>2
<1> QED BY <1>2, <1>3 DEF RunsOK

\* A pull is over, its run waits for the next one or is closed.
LEMMA PullIsOver ==
    ASSUME TypeOK, RunsOK, NEW w \in Workers, job[w].kind = "pull",
           job' = [job EXCEPT ![w] = Idle], stored' = stored,
           NEW state, run' = [run EXCEPT ![job[w].run] = state],
           \A r \in Runs : r # job[w].run => owed'[r] = owed[r],
           owed'[job[w].run] \subseteq owed[job[w].run],
           owed'[job[w].run] # {} => state # "free"
    PROVE  RunsOK'
<1>1. /\ job'[w].kind = "idle" /\ \A v \in Workers : v # w => job'[v] = job[v]
      /\ job[w].run \in Runs
      /\ \A v \in Workers : job[v].kind = "pull" => job[v].run \in Runs
  BY JobTypes, JobFacts, JobChanges, IdleFacts
<1>2. \A r \in Runs : run'[r] = IF r = job[w].run THEN state ELSE run[r]
  BY DEF TypeOK
<1>3. ASSUME NEW v \in Workers, job'[v].kind = "pull"
      PROVE  OwnRun(v)' /\ OwnDebt(v)'
  <2>1. v # w /\ job'[v] = job[v] /\ job[v].kind = "pull"
    BY <1>1, <1>3
  <2>2. OwnRun(v) /\ OwnDebt(v) /\ job[v].run # job[w].run
    BY <2>1 DEF RunsOK, OwnRun
  <2>3. run'[job[v].run] = run[job[v].run] /\ owed'[job[v].run] = owed[job[v].run]
    BY <1>1, <1>2, <2>1, <2>2
  <2>4. OwnRun(v)'
    BY <1>1, <2>1, <2>2, <2>3 DEF OwnRun
  <2>5. OwnDebt(v)'
    BY <2>1, <2>2, <2>3 DEF OwnDebt
  <2> QED BY <2>4, <2>5
<1>4. \A r \in Runs : (owed'[r] # {} => run'[r] # "free") /\ \A i \in owed'[r] : stored'[i] # None
  BY <1>1, <1>2 DEF RunsOK
<1> QED BY <1>3, <1>4 DEF RunsOK

LEMMA ColumnFacts ==
    ASSUME NEW c \in Columns
    PROVE  /\ c[1] \in Invoices /\ c[2] \in Fields
           /\ \A s \in Statuses : Field(c[2], s) \in Nat
BY InvoicesAssumption DEF Columns

\* A change is told by a record that is listed first, unless the key of the
\* history has swallowed the record, or its transaction began too early.
LEMMA TriggerFacts ==
    ASSUME TypeOK, HistoryOK, NEW after \in Rows, NEW r \in Runs, NEW luc \in Nat,
           luc <= clock, \A i \in Invoices : stored[i] # None => after[i] # None,
           stored' = after, clock' = clock, Trigger(after, r, luc)
    PROVE  /\ NewsIsTrue'
           /\ \A c \in Columns : lastNews'[c].luc <= recorded'[c] /\ recorded'[c] <= clock'
           /\ lastNews' \in [Columns -> [luc: Nat, moi: Nat]]
           /\ recorded' \in [Columns -> Nat]
           /\ news' \subseteq Columns \X Nat \X Runs
           /\ hushed' \subseteq Columns /\ crossed' \subseteq Columns
<1> DEFINE moi(c) == Field(c[2], after[c[1]])
           told == {c \in Changed(after) : ~Recorded(c, moi(c), r)}
           again == {c \in Changed(after) : moi(c) # Null /\ <<c, moi(c), r>> \in news}
           new == {c \in Columns : stored[c[1]] = None /\ after[c[1]] # None}
           first == {c \in told : lastNews[c].luc <= luc}
<1>1. /\ news' = news \cup {<<c, moi(c), r>> : c \in told}
      /\ lastNews' = [c \in Columns |->
           IF c \in first THEN [luc |-> luc, moi |-> moi(c)]
           ELSE IF c \in new THEN [luc |-> 0, moi |-> moi(c)] ELSE lastNews[c]]
      /\ hushed' = (hushed \ told) \cup again
      /\ recorded' = [c \in Columns |-> IF c \in told THEN clock ELSE recorded[c]]
      /\ crossed' = (crossed \ told) \cup {c \in told : luc <= recorded[c]}
  BY DEF Trigger
<1>2. \A c \in Columns :
        /\ stored[c[1]] # None /\ moi(c) # Field(c[2], stored[c[1]]) => c \in told \/ c \in again
        /\ stored[c[1]] = None /\ after[c[1]] # None => c \in new
        /\ stored[c[1]] # None => c \notin new
        /\ c \in first <=> c \in told /\ lastNews[c].luc <= luc
  BY DEF Changed, Recorded
<1>3. /\ told \in SUBSET Columns /\ again \in SUBSET Columns
      /\ \A c \in told : stored[c[1]] # None
  BY DEF Changed
<1>4. \A c \in Columns : after[c[1]] # None => moi(c) \in Nat
  BY ColumnFacts DEF Rows
<1>5. \A c \in Columns : stored[c[1]] # None => after[c[1]] # None
  BY ColumnFacts
<1>6. ASSUME NEW c \in Columns
      PROVE  /\ lastNews[c].luc \in Nat /\ recorded[c] \in Nat /\ clock \in Nat
             /\ lastNews[c].luc <= recorded[c] /\ recorded[c] <= clock
  BY DEF TypeOK, HistoryOK
<1>7. \A c \in new : c \in Columns /\ after[c[1]] # None
  OBVIOUS
<1>8. \A c \in Columns : moi(c) = Field(c[2], stored'[c[1]])
  OBVIOUS
<1>9. first \in SUBSET told
  OBVIOUS
<1> HIDE DEF moi, told, again, new, first
<1>10. ASSUME NEW c \in Columns
       PROVE  /\ lastNews'[c] \in [luc: Nat, moi: Nat]
              /\ recorded'[c] \in Nat
              /\ lastNews'[c].luc <= recorded'[c] /\ recorded'[c] <= clock'
  <2>1. CASE c \in first
    BY <1>1, <1>3, <1>4, <1>5, <1>6, <1>9, <2>1
  <2>2. CASE c \notin first /\ c \in new
    BY <1>1, <1>4, <1>6, <1>7, <2>2
  <2>3. CASE c \notin first /\ c \notin new
    <3>1. lastNews'[c] = lastNews[c] /\ recorded'[c] \in {clock, recorded[c]}
      BY <1>1, <2>3
    <3>2. lastNews[c] \in [luc: Nat, moi: Nat]
      BY DEF TypeOK
    <3> QED BY <1>6, <3>1, <3>2
  <2> QED BY <2>1, <2>2, <2>3
<1>11. ASSUME NEW c \in Columns, stored'[c[1]] # None
       PROVE  lastNews'[c].moi = moi(c) \/ c \in hushed' \/ c \in crossed'
  <2>1. CASE c \in told /\ luc <= recorded[c]
    BY <1>1, <2>1
  <2>2. CASE c \in told /\ ~(luc <= recorded[c])
    BY <1>1, <1>2, <1>6, <2>2
  <2>3. CASE c \in again
    BY <1>1, <2>3
  <2>4. CASE c \in new
    BY <1>1, <2>4
  <2>5. CASE c \notin told /\ c \notin again /\ c \notin new
    <3>1. stored[c[1]] # None /\ moi(c) = Field(c[2], stored[c[1]])
      BY <1>2, <1>11, <2>5
    <3>2. lastNews'[c] = lastNews[c]
      BY <1>1, <1>9, <2>5
    <3>3. lastNews[c].moi = Field(c[2], stored[c[1]]) \/ c \in hushed \/ c \in crossed
      BY <3>1 DEF HistoryOK, NewsIsTrue
    <3> QED BY <1>1, <2>5, <3>1, <3>2, <3>3
  <2> QED BY <2>1, <2>2, <2>3, <2>4, <2>5
<1>12. NewsIsTrue'
  BY <1>8, <1>11 DEF NewsIsTrue, Columns
<1>13. lastNews' \in [Columns -> [luc: Nat, moi: Nat]] /\ recorded' \in [Columns -> Nat]
  BY <1>1, <1>10
<1>14. news' \subseteq Columns \X Nat \X Runs
  <2>1. \A c \in told : c \in Columns /\ moi(c) \in Nat
    BY <1>3, <1>4, <1>5
  <2> QED BY <1>1, <2>1 DEF TypeOK
<1>15. hushed' \subseteq Columns /\ crossed' \subseteq Columns
  BY <1>1, <1>3 DEF TypeOK
<1> QED BY <1>10, <1>12, <1>13, <1>14, <1>15

LEMMA CommitPullKeeps ==
    ASSUME IInv, NEW w \in Workers, CommitPull(w)
    PROVE  IInv'
<1> DEFINE rows == job[w].rows
           seen == job[w].seen
           found == Candidates(rows, seen)
           after == Written(rows, seen)
           r == job[w].run
           new == [PullJob(r, NoRows) EXCEPT !.step = "committed", !.found = found]
<1>1. /\ job[w].kind = "pull" /\ job[w].step = "selected"
      /\ run' = run /\ detail' = detail /\ givenUp' = givenUp /\ lines' = lines
      /\ faults' = faults /\ stored' = after /\ owed' = [owed EXCEPT ![r] = found]
      /\ clock' = clock /\ Trigger(after, r, job[w].luc)
  BY DEF CommitPull, Doing
<1>2. /\ job[w] \in Pulls /\ job[w] \in Jobs /\ rows \in Rows /\ seen \in Rows /\ r \in Runs
      /\ job[w].luc \in Nat /\ job[w].luc <= clock
  BY <1>1, JobTypes, JobFacts DEF IInv, HistoryOK, InTransaction, Doing
<1>3. found \in SUBSET Invoices
  BY DEF Candidates
<1>4. /\ new \in Jobs /\ new.kind = "pull" /\ new.step = "committed"
      /\ \A i \in Invoices : new.seen[i] = None
      /\ new.run = r /\ new.found = found
  BY <1>2, <1>3 DEF Jobs, Pulls, PullJob, NoRows, Rows
<1>5. job' = [job EXCEPT ![w] = new]
  BY DEF CommitPull
<1> HIDE DEF new
<1>6. /\ job' \in [Workers -> {Idle} \cup Pulls \cup Details] /\ job'[w] = new
      /\ \A v \in Workers : v # w => job'[v] = job[v]
  BY <1>4, <1>5, JobChanges DEF IInv
<1>7. /\ after \in Rows
      /\ \A i \in Invoices : stored[i] # None => after[i] # None
      /\ \A i \in Invoices : stored[i] # after[i] => rows[i] # None /\ seen[i] # rows[i]
  BY <1>2 DEF Written, Differs, Rows, IInv, TypeOK
<1>8. /\ \A i \in Invoices : seen[i] # None => stored[i] # None
      /\ \A i \in owed[r] : rows[i] # None
  BY <1>1 DEF IInv, RunsOK, OwnDebt
<1>9. \A i \in Invoices :
        i \in found <=> rows[i] # None /\ (seen[i] # rows[i] \/ lines[i] = {})
  BY DEF Candidates
<1>10. \A i \in found : after[i] # None
  BY <1>2, <1>3, <1>7, <1>8, <1>9 DEF Written, Differs
<1> HIDE DEF found, after, rows, seen, r
<1>11. /\ owed' \in [Runs -> SUBSET Invoices]
       /\ \A q \in Runs : owed'[q] = IF q = r THEN found ELSE owed[q]
  BY <1>1, <1>3 DEF IInv, TypeOK
<1>12. /\ NewsIsTrue'
       /\ \A c \in Columns : lastNews'[c].luc <= recorded'[c] /\ recorded'[c] <= clock'
       /\ lastNews' \in [Columns -> [luc: Nat, moi: Nat]]
       /\ recorded' \in [Columns -> Nat]
       /\ news' \subseteq Columns \X Nat \X Runs
       /\ hushed' \subseteq Columns /\ crossed' \subseteq Columns
  BY <1>1, <1>2, <1>7, TriggerFacts DEF IInv
<1>13. TypeOK' /\ HistoryOK'
  <2>1. TypeOK'
    BY <1>1, <1>6, <1>7, <1>11, <1>12 DEF IInv, TypeOK
  <2>2. \A v \in Workers : InTransaction(v)' => v # w /\ InTransaction(v) /\ job'[v] = job[v]
    BY <1>4, <1>6 DEF InTransaction, Doing
  <2> QED BY <1>1, <1>12, <2>1, <2>2 DEF IInv, HistoryOK
<1>14. OneEach'
  BY <1>1, <1>4, <1>6, OneEachFrame DEF IInv
<1>15. ASSUME NEW i \in Invoices, stored'[i] # None, lines'[i] = {}
       PROVE  \/ detail'[i] > 0
              \/ \E v \in Workers : Serving(v, i)'
              \/ \E q \in Runs : i \in owed'[q]
              \/ i \in givenUp'
  <2>1. CASE i \in found
    BY <1>2, <1>11, <2>1
  <2>2. CASE i \notin found
    \* It was stored before, and its run does not owe it.
    <3>1. stored[i] = after[i] /\ i \notin owed[r]
      BY <1>1, <1>7, <1>8, <1>9, <1>15, <2>2
    <3>2. \/ detail[i] > 0
          \/ \E v \in Workers : Serving(v, i)
          \/ \E q \in Runs : i \in owed[q]
          \/ i \in givenUp
      BY <1>1, <1>15, <3>1 DEF IInv, LinesServed
    <3>3. \A v \in Workers : Serving(v, i) => Serving(v, i)'
      BY <1>1, <1>6 DEF Serving
    <3>4. \A q \in Runs : i \in owed[q] => i \in owed'[q]
      BY <1>11, <3>1
    <3> QED BY <1>1, <3>2, <3>3, <3>4
  <2> QED BY <2>1, <2>2
<1>16. LinesServed'
  BY <1>15 DEF LinesServed
<1>17. RunsOK'
  <2>1. /\ job[w].run = r /\ job'[w].run = r /\ owed'[r] = found
        /\ \A i \in found : stored'[i] # None
        /\ \A i \in Invoices : stored[i] # None => stored'[i] # None
    BY <1>1, <1>2, <1>4, <1>6, <1>7, <1>10, <1>11 DEF r
  <2>2. OwnDebt(w)'
    BY <1>4, <1>6, <1>8, <2>1 DEF OwnDebt
  <2> QED BY <1>1, <1>3, <1>4, <1>6, <1>11, <2>1, <2>2, PullGoesOn DEF IInv
<1> QED BY <1>12, <1>13, <1>14, <1>16, <1>17 DEF IInv

LEMMA EnqueueDetailKeeps ==
    ASSUME IInv, NEW w \in Workers, EnqueueDetail(w)
    PROVE  IInv'
<1> DEFINE r == job[w].run
           new == [job[w] EXCEPT !.step = "enqueued", !.found = {}]
<1>1. /\ job[w].kind = "pull" /\ job[w].step = "committed"
      /\ stored' = stored /\ lines' = lines /\ history' = history /\ clock' = clock
      /\ run' = run /\ faults' = faults
      /\ Send(job[w].found) /\ owed' = [owed EXCEPT ![r] = {}]
      /\ givenUp' = givenUp \ job[w].found
  BY DEF EnqueueDetail, Doing, invoiceVars
<1>2. job[w] \in Pulls /\ job[w] \in Jobs /\ r \in Runs /\ job[w].found \in SUBSET Invoices
  BY <1>1, JobTypes, JobFacts DEF IInv
<1>3. /\ new \in Jobs /\ new.kind = "pull" /\ new.step = "enqueued"
      /\ new.seen = job[w].seen /\ new.run = r
  BY <1>2 DEF Jobs, Pulls
<1>4. job' = [job EXCEPT ![w] = new]
  BY DEF EnqueueDetail, IInv, TypeOK
<1> HIDE DEF new
<1>5. /\ job' \in [Workers -> {Idle} \cup Pulls \cup Details] /\ job'[w] = new
      /\ \A v \in Workers : v # w => job'[v] = job[v]
  BY <1>3, <1>4, JobChanges DEF IInv
<1>6. /\ owed' \in [Runs -> SUBSET Invoices]
      /\ \A q \in Runs : owed'[q] = IF q = r THEN {} ELSE owed[q]
  BY <1>1 DEF IInv, TypeOK
<1>7. /\ detail' \in [Invoices -> 0 .. MaxDetail]
      /\ \A i \in Invoices : detail[i] > 0 \/ i \in job[w].found => detail'[i] > 0
  BY <1>1, SendFacts DEF IInv
<1>8. TypeOK'
  BY <1>1, <1>5, <1>6, <1>7 DEF IInv, TypeOK, history
<1>9. HistoryOK' /\ OneEach'
  BY <1>1, <1>3, <1>5, HistoryRests, OneEachFrame DEF IInv, history
<1>10. LinesServed'
  <2>1. \A v \in Workers, i \in Invoices : Serving(v, i) => Serving(v, i)'
    BY <1>1, <1>5 DEF Serving
  <2>2. owed[r] \subseteq job[w].found
    BY <1>1 DEF IInv, RunsOK, OwnDebt
  <2>3. ASSUME NEW i \in Invoices, i \in job[w].found
        PROVE  detail'[i] > 0
    BY <1>7, <2>3
  <2>4. ASSUME NEW i \in Invoices, i \notin job[w].found
        PROVE  /\ \A q \in Runs : i \in owed[q] => i \in owed'[q]
               /\ i \in givenUp => i \in givenUp'
               /\ detail[i] > 0 => detail'[i] > 0
    BY <1>1, <1>6, <1>7, <2>2, <2>4
  <2> QED BY <1>1, <2>1, <2>3, <2>4, ServedFrame DEF IInv
<1>11. RunsOK'
  <2>1. OwnDebt(w)'
    BY <1>1, <1>2, <1>3, <1>5, <1>6 DEF IInv, RunsOK, OwnDebt
  <2> QED BY <1>1, <1>2, <1>3, <1>5, <1>6, <2>1, PullGoesOn DEF IInv
<1> QED BY <1>8, <1>9, <1>10, <1>11 DEF IInv

\* What the three ways to end a pull have in common.
LEMMA PullEnds ==
    ASSUME IInv, NEW w \in Workers, job[w].kind = "pull",
           job' = [job EXCEPT ![w] = Idle], stored' = stored, lines' = lines,
           lastNews' = lastNews, hushed' = hushed, recorded' = recorded,
           crossed' = crossed, clock' = clock, detail' = detail,
           news' \in {news, Forget(job[w].run)}, faults' \in 0 .. MaxFaults,
           NEW state \in {"free", "queued"}, run' = [run EXCEPT ![job[w].run] = state],
           \/ owed' = owed /\ givenUp' = givenUp
           \/ /\ owed' = [owed EXCEPT ![job[w].run] = {}]
              /\ givenUp' = givenUp \cup owed[job[w].run],
           state = "free" => owed'[job[w].run] = {}
    PROVE  IInv'
<1>1. job[w].run \in Runs
  BY JobTypes, JobFacts DEF IInv
<1>2. /\ job' \in [Workers -> {Idle} \cup Pulls \cup Details] /\ job'[w].kind = "idle"
      /\ \A v \in Workers : v # w => job'[v] = job[v]
  BY JobChanges, IdleFacts DEF IInv
<1>3. /\ owed' \in [Runs -> SUBSET Invoices] /\ givenUp' \subseteq Invoices
      /\ \A q \in Runs : q # job[w].run => owed'[q] = owed[q]
      /\ owed'[job[w].run] \subseteq owed[job[w].run]
      /\ \A q \in Runs : \A i \in owed[q] : i \in owed'[q] \/ i \in givenUp'
      /\ \A i \in givenUp : i \in givenUp'
  BY <1>1 DEF IInv, TypeOK
<1>4. TypeOK'
  <2>1. news' \subseteq Columns \X Nat \X Runs
    BY DEF Forget, IInv, TypeOK
  <2>2. run' \in [Runs -> {"free", "queued", "working"}]
    BY DEF IInv, TypeOK
  <2> QED BY <1>2, <1>3, <2>1, <2>2 DEF IInv, TypeOK
<1>5. HistoryOK' /\ OneEach'
  BY <1>2, HistoryRests, OneEachFrame DEF IInv, history
<1>6. LinesServed'
  <2>1. \A v \in Workers, i \in Invoices : Serving(v, i) => Serving(v, i)'
    BY <1>2 DEF Serving
  <2> QED BY <1>3, <2>1, ServedFrame DEF IInv
<1>7. RunsOK'
  BY <1>1, <1>3, PullIsOver DEF IInv
<1> QED BY <1>4, <1>5, <1>6, <1>7 DEF IInv

LEMMA FaultFacts ==
    ASSUME TypeOK
    PROVE  /\ faults \in 0 .. MaxFaults
           /\ Fault => faults' \in 0 .. MaxFaults
BY InvoicesAssumption DEF Fault, TypeOK

LEMMA EndPullKeeps ==
    ASSUME IInv, NEW w \in Workers, EndPull(w)
    PROVE  IInv'
<1>1. /\ job[w].kind = "pull" /\ job[w].step = "enqueued"
      /\ job' = [job EXCEPT ![w] = Idle] /\ stored' = stored /\ lines' = lines
      /\ lastNews' = lastNews /\ hushed' = hushed /\ recorded' = recorded
      /\ crossed' = crossed /\ clock' = clock /\ detail' = detail /\ owed' = owed
      /\ givenUp' = givenUp /\ faults' = faults
  BY DEF EndPull, Doing
<1>2. owed[job[w].run] = {}
  BY <1>1 DEF IInv, RunsOK, OwnDebt
<1>3. faults' \in 0 .. MaxFaults
  BY <1>1, FaultFacts DEF IInv
<1>4. CASE run' = [run EXCEPT ![job[w].run] = "queued"] /\ news' = news
  BY <1>1, <1>2, <1>3, <1>4, PullEnds
<1>5. CASE run' = [run EXCEPT ![job[w].run] = "free"] /\ news' = Forget(job[w].run)
  BY <1>1, <1>2, <1>3, <1>5, PullEnds
<1> QED BY <1>4, <1>5 DEF EndPull

LEMMA RetryPullKeeps ==
    ASSUME IInv, NEW w \in Workers, RetryPull(w)
    PROVE  IInv'
<1>1. faults' \in 0 .. MaxFaults
  BY FaultFacts DEF IInv, RetryPull
<1> QED BY <1>1, PullEnds DEF RetryPull

LEMMA LosePullKeeps ==
    ASSUME IInv, NEW w \in Workers, LosePull(w)
    PROVE  IInv'
<1>1. faults' \in 0 .. MaxFaults
  BY FaultFacts DEF IInv, LosePull
<1>2. job[w].kind = "pull" /\ job[w].run \in Runs
  BY JobTypes, JobFacts DEF IInv, LosePull
<1>3. owed' = [owed EXCEPT ![job[w].run] = {}] /\ owed'[job[w].run] = {}
  BY <1>2 DEF LosePull, IInv, TypeOK
<1> QED BY <1>1, <1>2, <1>3, PullEnds DEF LosePull

-----------------------------------------------------------------------------
(***************************************************************************)
(* Counting copies                                                         *)
(***************************************************************************)
\* What can be told apart by its owner is no more than there are owners.
LEMMA FewCopies ==
    ASSUME NEW S \in SUBSET Copies, NEW f \in [Copies -> Workers], Distinct(f, S)
    PROVE  IsFiniteSet(S) /\ Cardinality(S) <= Cardinality(Workers)
<1> DEFINE g == [c \in S |-> f[c]]
<1>1. g \in Injection(S, Workers)
  BY DEF Injection, IsInjective, Distinct
<1> QED BY <1>1, FS_Injection, InvoicesAssumption

Seen(i) == UNION {job[w].seen : w \in WorkingOn(i)}

LEMMA FewSeen ==
    ASSUME TypeOK, OneEach, NEW i \in Invoices
    PROVE  /\ IsFiniteSet(Seen(i)) /\ Seen(i) \in SUBSET Copies
           /\ Cardinality(Seen(i)) <= Cardinality(Workers) * Cardinality(Workers)
<1> DEFINE Owner(c) == CHOOSE w \in WorkingOn(i) : c \in job[w].seen
           F(w) == CHOOSE f \in [Copies -> Workers] : Distinct(f, job[w].seen)
           h == [c \in Seen(i) |-> <<F(Owner(c))[c], Owner(c)>>]
<1>1. \A c \in Seen(i) : Owner(c) \in WorkingOn(i) /\ c \in job[Owner(c)].seen
  BY DEF Seen
<1>2. \A w \in WorkingOn(i) : w \in Workers /\ job[w].kind = "detail" /\ job[w].seen \in SUBSET Copies
  BY JobTypes, JobFacts DEF WorkingOn
<1>3. \A w \in WorkingOn(i) : F(w) \in [Copies -> Workers] /\ Distinct(F(w), job[w].seen)
  BY <1>2 DEF OneEach
<1>4. Seen(i) \in SUBSET Copies
  BY <1>2 DEF Seen
<1> HIDE DEF Owner, F
<1>5. h \in [Seen(i) -> Workers \X Workers]
  BY <1>1, <1>2, <1>3
<1>6. ASSUME NEW c \in Seen(i), NEW d \in Seen(i), h[c] = h[d]
      PROVE  c = d
  <2>1. Owner(c) = Owner(d) /\ F(Owner(c))[c] = F(Owner(d))[d]
    BY <1>6
  <2> QED BY <1>1, <1>3, <2>1 DEF Distinct
<1>7. h \in Injection(Seen(i), Workers \X Workers)
  BY <1>5, <1>6 DEF Injection, IsInjective
<1>8. /\ IsFiniteSet(Workers \X Workers)
      /\ Cardinality(Workers \X Workers) = Cardinality(Workers) * Cardinality(Workers)
  BY FS_Product, InvoicesAssumption
<1> QED BY <1>4, <1>7, <1>8, FS_Injection

LEMMA NumbersHaveAMinimum ==
    ASSUME NEW S \in SUBSET Nat, S # {}
    PROVE  \E c \in S : \A d \in S : c <= d
<1>1. PICK c \in S : \A d \in S : ~ (<<d, c>> \in OpToRel(<, Nat))
  BY NatLessThanWellFounded, WFMin
<1>2. \A d \in S : ~ (d < c)
  BY <1>1 DEF OpToRel
<1> QED BY <1>2

\* There is always a number for the next insertion.
LEMMA NextCopyFacts ==
    ASSUME TypeOK, OneEach, NEW i \in Invoices
    PROVE  NextCopy(i) \in Copies /\ NextCopy(i) \notin lines[i]
<1> DEFINE n == Cardinality(Workers)
<1>1. n \in Nat
  BY FS_CardinalityType, InvoicesAssumption
<1>2. IsFiniteSet(lines[i]) /\ Cardinality(lines[i]) <= n
  <2>1. lines[i] \in SUBSET Copies
    BY DEF TypeOK
  <2>2. PICK f \in [Copies -> Workers] : Distinct(f, lines[i])
    BY DEF OneEach, Owners
  <2> QED BY <2>1, <2>2, FewCopies
<1>3. IsFiniteSet(Seen(i)) /\ Seen(i) \in SUBSET Copies /\ Cardinality(Seen(i)) <= n * n
  BY FewSeen
<1>4. IsFiniteSet(lines[i] \cup Seen(i)) /\ Cardinality(lines[i] \cup Seen(i)) <= n + n * n
  <2>1. /\ IsFiniteSet(lines[i] \cup Seen(i))
        /\ Cardinality(lines[i] \cup Seen(i)) =
             Cardinality(lines[i]) + Cardinality(Seen(i)) - Cardinality(lines[i] \cap Seen(i))
    BY <1>2, <1>3, FS_Union
  <2>2. Cardinality(lines[i]) \in Nat /\ Cardinality(Seen(i)) \in Nat
    BY <1>2, <1>3, FS_CardinalityType
  <2>3. Cardinality(lines[i] \cap Seen(i)) \in Nat
    BY <1>2, FS_Intersection, FS_CardinalityType
  <2> HIDE DEF n
  <2> QED BY <1>1, <1>2, <1>3, <2>1, <2>2, <2>3
<1>5. IsFiniteSet(Copies) /\ Cardinality(Copies) = n * (n + 1) + 1
  <2> DEFINE last == n * (n + 1) + 1
  <2>1. last \in Nat /\ last >= 1
    BY <1>1
  <2>2. Copies = 1 .. last
    BY DEF Copies
  <2> HIDE DEF last
  <2>3. IsFiniteSet(1 .. last) /\ Cardinality(1 .. last) = last
    BY <2>1, FS_Interval
  <2> QED BY <2>2, <2>3 DEF last
<1>6. Unused(i) # {} /\ Unused(i) \in SUBSET Nat
  <2>1. Unused(i) = Copies \ (lines[i] \cup Seen(i)) /\ Copies \in SUBSET Nat
    BY DEF Unused, Seen, Copies
  <2>2. ASSUME Unused(i) = {}
        PROVE  FALSE
    <3>1. Copies \in SUBSET (lines[i] \cup Seen(i))
      BY <2>1, <2>2
    <3>2. Cardinality(Copies) <= Cardinality(lines[i] \cup Seen(i))
      BY <1>4, <3>1, FS_Subset
    <3>3. Cardinality(lines[i] \cup Seen(i)) \in Nat
      BY <1>4, FS_CardinalityType
    <3>4. n * (n + 1) = n + n * n
      BY <1>1
    <3>5. n * n \in Nat
      BY <1>1
    <3> HIDE DEF n
    <3> QED BY <1>1, <1>4, <1>5, <3>2, <3>3, <3>4, <3>5
  <2> QED BY <2>1, <2>2
<1>7. NextCopy(i) \in Unused(i)
  BY <1>6, NumbersHaveAMinimum DEF NextCopy
<1> QED BY <1>7 DEF Unused

-----------------------------------------------------------------------------
(***************************************************************************)
(* Phase 2                                                                 *)
(***************************************************************************)
LEMMA TakeDetailKeeps ==
    ASSUME IInv, NEW w \in Workers, NEW i \in Invoices, TakeDetail(w, i)
    PROVE  IInv'
<1>1. /\ job[w] = Idle /\ detail[i] > 0 /\ detail' = [detail EXCEPT ![i] = @ - 1]
      /\ job' = [job EXCEPT ![w] = DetailJob(i)]
      /\ stored' = stored /\ lines' = lines /\ history' = history /\ clock' = clock
      /\ run' = run /\ owed' = owed /\ givenUp' = givenUp
      /\ faults' = faults
  BY DEF TakeDetail, invoiceVars
<1>2. /\ DetailJob(i) \in Jobs /\ DetailJob(i).kind = "detail"
      /\ DetailJob(i).step = "fetched" /\ DetailJob(i).inv = i /\ DetailJob(i).seen = {}
  BY NewDetailFacts
<1>3. /\ job' \in [Workers -> {Idle} \cup Pulls \cup Details] /\ job'[w] = DetailJob(i)
      /\ \A v \in Workers : v # w => job'[v] = job[v]
  BY <1>1, <1>2, JobChanges DEF IInv
<1>4. /\ detail' \in [Invoices -> 0 .. MaxDetail]
      /\ \A k \in Invoices : k # i => detail'[k] = detail[k]
  BY <1>1, InvoicesAssumption DEF IInv, TypeOK
<1>5. TypeOK'
  BY <1>1, <1>3, <1>4 DEF IInv, TypeOK, history
<1>6. HistoryOK' /\ OneEach'
  BY <1>1, <1>2, <1>3, HistoryRests, OneEachFrame DEF IInv, history
<1>7. RunsOK'
  BY <1>1, <1>2, <1>3, IdleFacts, RunsFrame DEF IInv
<1>8. LinesServed'
  <2>1. \A v \in Workers, k \in Invoices : Serving(v, k) => Serving(v, k)'
    BY <1>1, <1>3, IdleFacts DEF Serving
  <2>2. Serving(w, i)'
    BY <1>2, <1>3 DEF Serving
  <2> QED BY <1>1, <1>4, <2>1, <2>2, ServedFrame DEF IInv
<1> QED BY <1>5, <1>6, <1>7, <1>8 DEF IInv

LEMMA DeleteLinesKeeps ==
    ASSUME IInv, NEW w \in Workers, DeleteLines(w)
    PROVE  IInv'
<1> DEFINE i == job[w].inv
           new == [job[w] EXCEPT !.step = "deleted", !.seen = lines[i]]
<1>1. /\ job[w].kind = "detail" /\ job[w].step = "fetched"
      /\ stored' = stored /\ lines' = lines /\ history' = history /\ clock' = clock
      /\ run' = run /\ detail' = detail /\ owed' = owed
      /\ givenUp' = givenUp /\ faults' = faults
  BY DEF DeleteLines, Doing, invoiceVars, queueVars
<1>2. job[w] \in Details /\ i \in Invoices /\ lines[i] \in SUBSET Copies
  BY <1>1, JobTypes, JobFacts DEF IInv, TypeOK
<1>3. /\ new \in Jobs /\ new.kind = "detail" /\ new.step = "deleted"
      /\ new.inv = i /\ new.seen = lines[i]
  BY <1>2 DEF Jobs, Details
<1>4. job' = [job EXCEPT ![w] = new]
  BY DEF DeleteLines, IInv, TypeOK
<1> HIDE DEF new
<1>5. /\ job' \in [Workers -> {Idle} \cup Pulls \cup Details] /\ job'[w] = new
      /\ \A v \in Workers : v # w => job'[v] = job[v]
  BY <1>3, <1>4, JobChanges DEF IInv
<1>6. TypeOK'
  BY <1>1, <1>5 DEF IInv, TypeOK, history
<1>7. HistoryOK' /\ RunsOK'
  BY <1>1, <1>3, <1>5, HistoryRests, RunsFrame DEF IInv, history
<1>8. LinesServed'
  <2>1. \A v \in Workers, k \in Invoices : Serving(v, k) => Serving(v, k)'
    BY <1>1, <1>3, <1>5 DEF Serving
  <2> QED BY <1>1, <2>1, ServedFrame DEF IInv
<1>9. OneEach'
  <2>1. ASSUME NEW k \in Invoices, NEW f \in [Copies -> Workers], Owners(k, f)
        PROVE  Owners(k, f)'
    <3>1. Distinct(f, lines'[k])
      BY <1>1, <2>1 DEF Owners
    <3>2. ASSUME NEW v \in Workers, NEW c \in lines[k], Doing(v, "detail", "deleted")',
                 job'[v].inv = k, f[c] = v
          PROVE  c \in job'[v].seen
      <4>1. CASE v = w
        BY <1>3, <1>5, <3>2, <4>1
      <4>2. CASE v # w
        BY <1>5, <2>1, <3>2, <4>2 DEF Owners, Doing
      <4> QED BY <4>1, <4>2
    <3> QED BY <1>1, <3>1, <3>2 DEF Owners, Distinct
  <2>2. ASSUME NEW v \in Workers, job'[v].kind = "detail"
        PROVE  \E f \in [Copies -> Workers] : Distinct(f, job'[v].seen)
    <3>1. CASE v # w
      BY <1>5, <2>2, <3>1 DEF IInv, OneEach
    <3>2. CASE v = w
      BY <1>2, <1>3, <1>5, <3>2 DEF IInv, OneEach, Owners
    <3> QED BY <3>1, <3>2
  <2>3. \A k \in Invoices : (\E f \in [Copies -> Workers] : Owners(k, f))'
    BY <2>1 DEF IInv, OneEach, Copies
  <2>4. \A v \in Workers : job'[v].kind = "detail" =>
           (\E f \in [Copies -> Workers] : Distinct(f, job[v].seen))'
    BY <2>2 DEF Distinct, Copies
  <2> QED BY <2>3, <2>4 DEF OneEach
<1> QED BY <1>6, <1>7, <1>8, <1>9 DEF IInv

LEMMA InsertLinesKeeps ==
    ASSUME IInv, NEW w \in Workers, InsertLines(w)
    PROVE  IInv'
<1> DEFINE i == job[w].inv
           kept == lines[i] \ job[w].seen
           copy == NextCopy(i)
           new == [job[w] EXCEPT !.step = "committed", !.seen = {}]
<1>1. /\ job[w].kind = "detail" /\ job[w].step = "deleted"
      /\ stored' = stored /\ history' = history /\ clock' = clock
      /\ run' = run /\ detail' = detail /\ owed' = owed
      /\ faults' = faults
  BY DEF InsertLines, Doing
<1>2. \/ lines' = [lines EXCEPT ![i] = kept \cup {copy}] /\ givenUp' = givenUp \ {i}
      \/ lines' = [lines EXCEPT ![i] = kept] /\ givenUp' = givenUp \cup {i}
  BY DEF InsertLines
<1>3. job[w] \in Details /\ i \in Invoices /\ lines[i] \in SUBSET Copies
  BY <1>1, JobTypes, JobFacts DEF IInv, TypeOK
<1>4. /\ new \in Jobs /\ new.kind = "detail" /\ new.step = "committed"
      /\ new.inv = i /\ new.seen = {}
  BY <1>3 DEF Jobs, Details
<1>5. job' = [job EXCEPT ![w] = new]
  BY DEF InsertLines, IInv, TypeOK
<1>6. copy \in Copies /\ copy \notin lines[i]
  BY <1>3, NextCopyFacts DEF IInv
<1>7. kept \in SUBSET Copies /\ kept \subseteq lines[i] /\ kept \cap job[w].seen = {}
  BY <1>3
<1> HIDE DEF new, copy, kept
<1>8. /\ job' \in [Workers -> {Idle} \cup Pulls \cup Details] /\ job'[w] = new
      /\ \A v \in Workers : v # w => job'[v] = job[v]
  BY <1>4, <1>5, JobChanges DEF IInv
<1>9. /\ lines' \in [Invoices -> SUBSET Copies] /\ givenUp' \subseteq Invoices
      /\ \A k \in Invoices : k # i => lines'[k] = lines[k]
      /\ \A k \in Invoices : k # i /\ k \in givenUp => k \in givenUp'
      /\ lines'[i] \in {kept \cup {copy}, kept}
      /\ lines'[i] = {} => i \in givenUp'
  BY <1>2, <1>3, <1>6, <1>7 DEF IInv, TypeOK
<1>10. TypeOK'
  BY <1>1, <1>8, <1>9 DEF IInv, TypeOK, history
<1>11. HistoryOK' /\ RunsOK'
  BY <1>1, <1>4, <1>8, HistoryRests, RunsFrame DEF IInv, history
<1>12. LinesServed'
  <2>1. ASSUME NEW k \in Invoices, k # i, stored'[k] # None, lines'[k] = {}
        PROVE  \/ detail'[k] > 0
               \/ \E v \in Workers : Serving(v, k)'
               \/ \E r \in Runs : k \in owed'[r]
               \/ k \in givenUp'
    <3>1. \A v \in Workers : Serving(v, k) => Serving(v, k)'
      BY <1>4, <1>8, <2>1 DEF Serving
    <3>2. \/ detail[k] > 0
          \/ \E v \in Workers : Serving(v, k)
          \/ \E r \in Runs : k \in owed[r]
          \/ k \in givenUp
      BY <1>1, <1>9, <2>1 DEF IInv, LinesServed
    <3> QED BY <1>1, <1>9, <2>1, <3>1, <3>2
  <2> QED BY <1>9, <2>1 DEF LinesServed
\* The copy that is inserted is the job's own, and the one it had is gone.
<1>13. ASSUME NEW k \in Invoices, k = i, NEW f \in [Copies -> Workers], Owners(i, f)
       PROVE  \E g \in [Copies -> Workers] : Owners(k, g)'
  <2> DEFINE g == [f EXCEPT ![copy] = w]
  <2>1. /\ \A c \in Copies : g[c] = IF c = copy THEN w ELSE f[c]
        /\ g \in [Copies -> Workers]
    BY <1>6
  <2> HIDE DEF g
  <2>2. \A c \in kept : f[c] # w
    BY <1>1, <1>7, <1>13 DEF Owners, Doing
  <2>3. ASSUME NEW c \in lines'[k], NEW d \in lines'[k], g[c] = g[d]
        PROVE  c = d
    <3>1. c \in kept \/ c = copy
      BY <1>9, <1>13
    <3>2. d \in kept \/ d = copy
      BY <1>9, <1>13
    <3> QED BY <1>6, <1>7, <1>13, <2>1, <2>2, <2>3, <3>1, <3>2 DEF Owners, Distinct
  <2>4. ASSUME NEW v \in Workers, NEW c \in lines'[k], Doing(v, "detail", "deleted")',
               job'[v].inv = k, g[c] = v
        PROVE  c \in job'[v].seen
    <3>1. v # w /\ job'[v] = job[v]
      BY <1>4, <1>8, <2>4 DEF Doing
    <3>2. c \in kept /\ c \in Copies /\ c # copy
      BY <1>6, <1>7, <1>9, <1>13, <2>1, <2>4, <3>1
    <3> QED BY <1>7, <1>13, <2>1, <2>4, <3>1, <3>2 DEF Owners, Doing
  <2>5. Distinct(g, lines'[k])
    BY <2>3 DEF Distinct
  <2>6. \A h \in [Copies -> Workers] : h = g => Owners(k, h)'
    BY <2>4, <2>5 DEF Owners, Distinct
  <2> QED BY <2>1, <2>6
<1>14. ASSUME NEW k \in Invoices, k # i, NEW f \in [Copies -> Workers], Owners(k, f)
       PROVE  Owners(k, f)'
  <2>1. lines'[k] = lines[k]
    BY <1>9, <1>14
  <2>2. \A v \in Workers : Doing(v, "detail", "deleted")' => v # w /\ job'[v] = job[v]
    BY <1>4, <1>8 DEF Doing
  <2> QED BY <1>14, <2>1, <2>2 DEF Owners, Distinct, Doing
<1>15. OneEach'
  <2>1. ASSUME NEW k \in Invoices
        PROVE  \E g \in [Copies -> Workers] : Owners(k, g)'
    <3>1. PICK f \in [Copies -> Workers] : Owners(k, f)
      BY DEF IInv, OneEach
    <3>2. CASE k = i
      BY <1>13, <3>1, <3>2
    <3>3. CASE k # i
      BY <1>14, <3>1, <3>3
    <3> QED BY <3>2, <3>3
  <2>2. ASSUME NEW v \in Workers, job'[v].kind = "detail"
        PROVE  \E f \in [Copies -> Workers] : Distinct(f, job'[v].seen)
    <3>1. CASE v # w
      BY <1>8, <2>2, <3>1 DEF IInv, OneEach
    <3>2. CASE v = w
      <4>1. job'[v].seen = {} /\ [c \in Copies |-> w] \in [Copies -> Workers]
        BY <1>4, <1>8, <3>2
      <4> QED BY <4>1 DEF Distinct
    <3> QED BY <3>1, <3>2
  <2>3. \A k \in Invoices : (\E f \in [Copies -> Workers] : Owners(k, f))'
    BY <2>1 DEF Copies
  <2>4. \A v \in Workers : job'[v].kind = "detail" =>
           (\E f \in [Copies -> Workers] : Distinct(f, job[v].seen))'
    BY <2>2 DEF Distinct, Copies
  <2> QED BY <2>3, <2>4 DEF OneEach
<1> QED BY <1>10, <1>11, <1>12, <1>15 DEF IInv

\* What the ways to end a job of phase 2 have in common.
LEMMA DetailEnds ==
    ASSUME IInv, NEW w \in Workers, job[w].kind = "detail",
           job' = [job EXCEPT ![w] = Idle], stored' = stored, lines' = lines,
           history' = history, clock' = clock, run' = run, owed' = owed,
           faults' \in 0 .. MaxFaults,
           detail' \in [Invoices -> 0 .. MaxDetail], givenUp' \subseteq Invoices,
           \A i \in Invoices : detail[i] > 0 => detail'[i] > 0,
           \A i \in givenUp : i \in givenUp',
           \/ job[w].step = "committed"
           \/ detail'[job[w].inv] > 0
           \/ job[w].inv \in givenUp'
    PROVE  IInv'
<1>1. /\ job' \in [Workers -> {Idle} \cup Pulls \cup Details] /\ job'[w].kind = "idle"
      /\ \A v \in Workers : v # w => job'[v] = job[v]
  BY JobChanges, IdleFacts DEF IInv
<1>2. TypeOK'
  BY <1>1 DEF IInv, TypeOK, history
<1>3. HistoryOK' /\ OneEach' /\ RunsOK'
  BY <1>1, HistoryRests, OneEachFrame, RunsFrame DEF IInv, history
<1>4. LinesServed'
  <2>1. \A v \in Workers, i \in Invoices :
          Serving(v, i) => Serving(v, i)' \/ detail'[i] > 0 \/ i \in givenUp'
    BY <1>1 DEF Serving
  <2> QED BY <2>1, ServedFrame DEF IInv
<1> QED BY <1>2, <1>3, <1>4 DEF IInv

LEMMA AckDetailKeeps ==
    ASSUME IInv, NEW w \in Workers, AckDetail(w)
    PROVE  IInv'
<1>1. faults' \in 0 .. MaxFaults
  BY FaultFacts DEF IInv, AckDetail
<1>2. detail \in [Invoices -> 0 .. MaxDetail] /\ givenUp \subseteq Invoices
  BY DEF IInv, TypeOK
<1> QED BY <1>1, <1>2, DetailEnds DEF AckDetail, Doing, invoiceVars, queueVars

LEMMA RetryDetailKeeps ==
    ASSUME IInv, NEW w \in Workers, RetryDetail(w)
    PROVE  IInv'
<1>1. faults' \in 0 .. MaxFaults
  BY FaultFacts DEF IInv, RetryDetail
<1>2. job[w].kind = "detail" /\ job[w].inv \in Invoices
  BY JobTypes, JobFacts DEF IInv, RetryDetail
<1>3. /\ detail' \in [Invoices -> 0 .. MaxDetail]
      /\ \A i \in Invoices : detail[i] > 0 \/ i \in {job[w].inv} => detail'[i] > 0
  BY SendFacts DEF IInv, RetryDetail
<1>4. givenUp \subseteq Invoices
  BY DEF IInv, TypeOK
<1> QED BY <1>1, <1>2, <1>3, <1>4, DetailEnds DEF RetryDetail, invoiceVars

LEMMA LoseDetailKeeps ==
    ASSUME IInv, NEW w \in Workers, LoseDetail(w)
    PROVE  IInv'
<1>1. faults' \in 0 .. MaxFaults
  BY FaultFacts DEF IInv, LoseDetail
<1>2. job[w].kind = "detail" /\ job[w].inv \in Invoices
  BY JobTypes, JobFacts DEF IInv, LoseDetail
<1>3. detail \in [Invoices -> 0 .. MaxDetail] /\ givenUp \subseteq Invoices
  BY DEF IInv, TypeOK
<1> QED BY <1>1, <1>2, <1>3, DetailEnds DEF LoseDetail, invoiceVars

LEMMA BackfillLinesKeeps ==
    ASSUME IInv, BackfillLines
    PROVE  IInv'
<1>1. /\ stored' = stored /\ lines' = lines /\ history' = history /\ clock' = clock
      /\ run' = run /\ owed' = owed /\ job' = job /\ faults' = faults
      /\ Send(MissingLines) /\ givenUp' = givenUp \ MissingLines
  BY DEF BackfillLines, invoiceVars
<1>2. /\ detail' \in [Invoices -> 0 .. MaxDetail]
      /\ \A i \in Invoices : detail[i] > 0 \/ i \in MissingLines => detail'[i] > 0
  BY <1>1, SendFacts DEF IInv
<1>3. TypeOK'
  BY <1>1, <1>2 DEF IInv, TypeOK, history
<1>4. HistoryOK' /\ RunsOK' /\ OneEach'
  BY <1>1 DEF IInv, HistoryOK, NewsIsTrue, InTransaction, history, RunsOK, OwnRun,
              OwnDebt, OneEach, Owners, Distinct, Doing
<1>5. LinesServed'
  BY <1>1, <1>2 DEF LinesServed, MissingLines
<1> QED BY <1>3, <1>4, <1>5 DEF IInv

-----------------------------------------------------------------------------
(***************************************************************************)
(* The specification                                                       *)
(***************************************************************************)
LEMMA InvInit == Init => IInv
<1> SUFFICES ASSUME Init
             PROVE  IInv
  OBVIOUS
<1>1. TypeOK
  BY InvoicesAssumption DEF Init, TypeOK, Rows, Null
<1>2. HistoryOK
  <2>1. \A c \in Columns : stored[c[1]] = None
    BY ColumnFacts DEF Init
  <2>2. \A w \in Workers : ~InTransaction(w)
    BY IdleFacts DEF Init, InTransaction, Doing
  <2>3. \A c \in Columns : lastNews[c].luc = 0 /\ recorded[c] = 0 /\ clock = 0
    BY DEF Init
  <2> QED BY <2>1, <2>2, <2>3 DEF HistoryOK, NewsIsTrue
<1>3. \A w \in Workers : job[w].kind = "idle"
  BY IdleFacts DEF Init
<1>4. RunsOK
  BY <1>3 DEF Init, RunsOK
<1>5. LinesServed
  BY DEF Init, LinesServed
<1>6. OneEach
  <2>1. PICK w \in Workers : TRUE
    BY InvoicesAssumption
  <2>2. [c \in Copies |-> w] \in [Copies -> Workers]
    OBVIOUS
  <2>3. \A i \in Invoices : Owners(i, [c \in Copies |-> w])
    BY DEF Init, Owners, Distinct
  <2> QED BY <1>3, <2>2, <2>3 DEF OneEach
<1> QED BY <1>1, <1>2, <1>4, <1>5, <1>6 DEF IInv

LEMMA InvNext == IInv /\ [Next]_vars => IInv'
<1> SUFFICES ASSUME IInv, [Next]_vars
             PROVE  IInv'
  OBVIOUS
<1>1. CASE UNCHANGED vars
  <2>1. /\ stored' = stored /\ lines' = lines /\ history' = history /\ clock' = clock
        /\ run' = run /\ owed' = owed /\ job' = job /\ faults' = faults
        /\ detail' = detail /\ givenUp' = givenUp
    BY <1>1 DEF vars, invoiceVars, queueVars
  <2>2. TypeOK' /\ HistoryOK'
    BY <2>1 DEF IInv, TypeOK, HistoryOK, NewsIsTrue, InTransaction, Doing, history
  <2>3. RunsOK' /\ LinesServed'
    BY <2>1 DEF IInv, RunsOK, OwnRun, OwnDebt, LinesServed, Serving
  <2>4. OneEach'
    BY <2>1 DEF IInv, OneEach, Owners, Distinct, Doing
  <2> QED BY <2>2, <2>3, <2>4 DEF IInv
<1>2. CASE BackfillLines
  BY <1>2, BackfillLinesKeeps
<1>3. CASE \E r \in Runs : OpenRun(r)
  BY <1>3, OpenRunKeeps
<1>4. CASE \E w \in Workers : PullStep(w)
  BY <1>4, BeginKeeps, SelectExistingKeeps, CommitPullKeeps, EnqueueDetailKeeps, EndPullKeeps
     DEF PullStep
<1>5. CASE \E w \in Workers : DetailStep(w)
  BY <1>5, DeleteLinesKeeps, InsertLinesKeeps, AckDetailKeeps DEF DetailStep
<1>6. CASE \E w \in Workers : Failure(w)
  BY <1>6, RetryPullKeeps, LosePullKeeps, RetryDetailKeeps, LoseDetailKeeps DEF Failure
<1>7. CASE \E w \in Workers, r \in Runs : TakePull(w, r)
  BY <1>7, TakePullKeeps
<1>8. CASE \E w \in Workers, i \in Invoices : TakeDetail(w, i)
  BY <1>8, TakeDetailKeeps
<1> QED BY <1>1, <1>2, <1>3, <1>4, <1>5, <1>6, <1>7, <1>8 DEF Next

LEMMA InvariantHolds == Spec => []IInv
BY InvInit, InvNext, PTL DEF Spec

\* Invoices and jobs are well-formed, and however often messages of phase 2
\* come again, lines are there no more often than consumers can overlap
\* (persistInvoiceLines).
THEOREM CopiesAreFew == Spec => []CopiesInv
<1>1. IInv => CopiesInv
  <2> SUFFICES ASSUME IInv
               PROVE  CopiesInv
    OBVIOUS
  <2>1. ASSUME NEW i \in Invoices
        PROVE  Cardinality(lines[i]) <= Cardinality(Workers)
    <3>1. PICK f \in [Copies -> Workers] : Distinct(f, lines[i])
      BY DEF IInv, OneEach, Owners
    <3>2. lines[i] \in SUBSET Copies
      BY DEF IInv, TypeOK
    <3> QED BY <3>1, <3>2, FewCopies
  <2> QED BY <2>1 DEF IInv, CopiesInv, CopiesBound
<1> QED BY <1>1, InvariantHolds, PTL

\* Of either field, the record that is listed first says what is stored, but
\* for changes that the key of the history swallowed and records written by a
\* transaction that had begun before the one before was committed
\* (hoa_don_ghi_lich_su_thay_doi, lich_su_thay_doi_hoa_don_natural_key,
\* phat_hien_luc, listInvoiceChanges).
THEOREM HistoryTellsTheStatus == Spec => []NewsIsTrue
<1>1. IInv => NewsIsTrue
  BY DEF IInv, HistoryOK
<1> QED BY <1>1, InvariantHolds, PTL

\* An invoice without lines has somebody who will fetch them, or its message
\* was given up (upsertBatch, enqueueDetail, runDetailJob, dlqConsume).
THEOREM NoLinesForgotten == Spec => []LinesAreComing
<1>1. IInv => LinesAreComing
  <2> SUFFICES ASSUME IInv, NEW i \in Invoices, stored[i] # None, lines[i] = {}
               PROVE  \/ detail[i] > 0 \/ WorkingOn(i) # {}
                      \/ \E r \in Runs : i \in owed[r] /\ run[r] # "free"
                      \/ i \in givenUp
    BY DEF LinesAreComing
  <2>1. \/ detail[i] > 0
        \/ \E w \in Workers : Serving(w, i)
        \/ \E r \in Runs : i \in owed[r]
        \/ i \in givenUp
    BY DEF IInv, LinesServed
  <2>2. \A w \in Workers : Serving(w, i) => w \in WorkingOn(i)
    BY DEF Serving, WorkingOn
  <2>3. \A r \in Runs : i \in owed[r] => run[r] # "free"
    BY DEF IInv, RunsOK
  <2> QED BY <2>1, <2>2, <2>3
<1> QED BY <1>1, InvariantHolds, PTL
=============================================================================
