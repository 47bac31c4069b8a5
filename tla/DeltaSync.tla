----------------------------- MODULE DeltaSync -----------------------------
(***************************************************************************)
(* The delta synchronisation of one scope: one tax account, month and      *)
(* direction of one tenant.                                                *)
(*                                                                         *)
(* An audit message compares what GDT says it holds with what the database *)
(* holds; when invoices are missing it opens a run (a row of lan_dong_bo)  *)
(* and sends a delta message.  Each delta message pulls one chunk of pages,*)
(* commits it and sends its successor; when all pages are pulled the       *)
(* successor is an audit again, until an audit closes the run.  The only   *)
(* state of the chain between two steps is the message in the queue.       *)
(*                                                                         *)
(* The queue delivers at least once and in any order.  Workers are the     *)
(* concurrent consumers (max_concurrency in wrangler.jsonc); between two   *)
(* actions of a worker the others, the clock and failures may come.        *)
(***************************************************************************)
EXTENDS Integers, Sequences, FiniteSets, Bags

CONSTANTS
    Workers,          \* concurrent consumers of the queue
    Runs, NoRun,      \* ids of runs; a message without one
    Stock,            \* invoices of the month and direction GDT holds, by family
    Totals,           \* totals GDT may report
    MaxRounds,        \* TRAN_VONG_DELTA
    ChunkCap,         \* chunks that reach TRAN_TONG_TRANG_DELTA pages
    MaxBackpressure,  \* FANOUT_MAX_BACKPRESSURE
    MaxRetries,       \* max_retries of the queue, and of the
    MaxDlqRetries,    \*   dead-letter queue
    MaxRequests,      \* bound: audits asked for
    MaxReplays,       \* bound: dead letters played back
    MaxFaults         \* bound: crashes and lost calls

Families == {"normal", "sco"}
Unknown == -1  \* GDT gave no total, or has no such family (404)

ASSUME DeltaAssumption ==
    /\ IsFiniteSet(Workers) /\ IsFiniteSet(Runs)
    /\ NoRun \notin Runs
    /\ Stock \in [Families -> Nat]
    /\ Totals \subseteq Nat \cup {Unknown}
    /\ {MaxRounds, ChunkCap} \subseteq Nat \ {0}
    /\ {MaxBackpressure, MaxRetries, MaxDlqRetries,
        MaxRequests, MaxReplays, MaxFaults} \subseteq Nat

VARIABLES
    queue,      \* vat-sync: a bag of messages
    dead,       \* vat-sync-dlq: a bag of [msg, tries, parked]
    parked,     \* dong_bo_that_bai: a bag of messages waiting for a replay
    worker,     \* what each worker holds and does next
    status,     \* trang_thai of each run
    fresh,      \* runs opened less than TUOI_TOI_DA_CHUOI_KEO_MS ago
    numbered,   \* runs with a version number (so_phien_ban)
    db,         \* invoices of the scope in hoa_don, by family
    requests, replays, faults  \* how much of each bound is used

vars == <<queue, dead, parked, worker, status, fresh, numbered, db,
          requests, replays, faults>>
ledger == <<status, fresh, numbered>>
budgets == <<requests, replays, faults>>

-----------------------------------------------------------------------------
\* Messages.  families holds the family being pulled and those still to come
\* (ho, conLai); it is empty in an audit.  The cursor into GDT's pages is
\* abstracted: a chunk may or may not be the last.
FamilyLists == {<<>>, <<"normal">>, <<"sco">>, <<"normal", "sco">>}

Message ==
    [kind : {"audit", "delta"},
     round : Nat,           \* vong
     run : Runs \cup {NoRun},
     before : Nat,          \* prevCount
     families : FamilyLists,
     pulled : Nat,          \* trangDaKeo, in chunks
     bp : Nat,              \* bpAttempt
     tries : Nat]           \* deliveries the queue counted as failed

AuditRequest ==
    [kind |-> "audit", round |-> 0, run |-> NoRun, before |-> 0,
     families |-> <<>>, pulled |-> 0, bp |-> 0, tries |-> 0]

Statuses == {"none", "running", "completed", "failed", "reauth"}
Closed == {"completed", "failed", "reauth"}

\* pc: "idle"; "guard" and "decide" of an audit; "pull" of a delta; "open" a
\* run; "close" a run; "send" the successor; "requeue" a copy; "retry"; "ack".
Steps == {"idle", "guard", "decide", "pull", "open", "close", "send", "requeue", "retry", "ack"}

WorkerState ==
    [pc : Steps,
     msg : Message,              \* the message it holds
     out : Message,              \* the successor it is to send
     as : Closed \cup {"none"}]  \* what it closes the run as

\* A worker without a message, or with nothing to send, holds this one instead.
Blank == AuditRequest

TypeOK ==
    /\ IsABag(queue) /\ BagToSet(queue) \subseteq Message
    /\ IsABag(dead)
    /\ BagToSet(dead) \subseteq [msg : Message, tries : Nat, parked : BOOLEAN]
    /\ IsABag(parked) /\ BagToSet(parked) \subseteq Message
    /\ worker \in [Workers -> WorkerState]
    /\ status \in [Runs -> Statuses]
    /\ fresh \subseteq Runs
    /\ numbered \subseteq Runs
    /\ db \in [Families -> Nat]
    /\ requests \in 0..MaxRequests
    /\ replays \in 0..MaxReplays
    /\ faults \in 0..MaxFaults

IdleWorker == [pc |-> "idle", msg |-> Blank, out |-> Blank, as |-> "none"]

Put(bag, m) == bag (+) SetToBag({m})
Take(bag, m) == bag (-) SetToBag({m})

\* The run a worker is about to close or hand on: the message's, or the one
\* just opened for an audit that had none.
RunOf(w) ==
    IF worker[w].msg.run = NoRun THEN worker[w].out.run ELSE worker[w].msg.run

\* coDeltaRunDangChay: is a run of the scope running and young?
FreshRunning == {r \in fresh : status[r] = "running"}

-----------------------------------------------------------------------------
Init ==
    /\ queue = EmptyBag /\ dead = EmptyBag /\ parked = EmptyBag
    /\ worker = [w \in Workers |-> IdleWorker]
    /\ status = [r \in Runs |-> "none"]
    /\ fresh = {} /\ numbered = {}
    /\ db = [f \in Families |-> 0]
    /\ requests = 0 /\ replays = 0 /\ faults = 0

Continue(w, step) == worker' = [worker EXCEPT ![w].pc = step]

\* Backpressure: requeue a copy until the ceiling, then let the retry count.
Pushback(m) == IF m.bp >= MaxBackpressure THEN "retry" ELSE "requeue"

\* An account to log in again: the run, if there is one, is closed as such.
Reauthenticate(w) ==
    IF worker[w].msg.run = NoRun
    THEN Continue(w, "ack")
    ELSE worker' = [worker EXCEPT ![w].pc = "close", ![w].as = "reauth"]

\* The cron, or somebody presses "synchronise".
Request ==
    /\ requests < MaxRequests
    /\ requests' = requests + 1
    /\ queue' = Put(queue, AuditRequest)
    /\ UNCHANGED <<dead, parked, worker, ledger, db, replays, faults>>

\* A worker takes a message.  While the way out to GDT is known to be blocked
\* the message is pushed back without a job.
Receive(w) ==
    /\ worker[w].pc = "idle"
    /\ \E m \in BagToSet(queue) :
          /\ queue' = Take(queue, m)
          /\ \E step \in {Pushback(m),
                          IF m.kind = "delta" THEN "pull"
                          ELSE IF m.run = NoRun THEN "guard" ELSE "decide"} :
                worker' = [worker EXCEPT ![w] = [IdleWorker EXCEPT !.pc = step, !.msg = m]]
    /\ UNCHANGED <<dead, parked, ledger, db, budgets>>

\* Mutant of Guard: a young running run does not keep the audit from going on.
Guard_Skipped(w) ==
    /\ worker[w].pc = "guard"
    /\ Continue(w, "decide") \/ Continue(w, "retry")
    /\ UNCHANGED <<queue, dead, parked, ledger, db, budgets>>

\* An audit without a run first looks for a chain that is already pulling the
\* scope, and leaves the work to it.  The query may fail.
Guard(w) ==
    /\ worker[w].pc = "guard"
    /\ \/ FreshRunning # {} /\ Continue(w, "ack")
       \/ FreshRunning = {} /\ Continue(w, "decide")
       \/ Continue(w, "retry")
    /\ UNCHANGED <<queue, dead, parked, ledger, db, budgets>>

\* decideAudit
Short(total) == {f \in Families : total[f] # Unknown /\ db[f] < total[f]}
Stored == db["normal"] + db["sco"]

\* Mutant of Decision: one round too many.
Decision_OneMore(total, m) ==
    IF Short(total) = {} THEN "enough"
    ELSE IF m.round > MaxRounds \/ (m.round >= 1 /\ Stored <= m.before) THEN "stop"
    ELSE "pull"

Decision(total, m) ==
    IF Short(total) = {} THEN "enough"
    ELSE IF m.round >= MaxRounds \/ (m.round >= 1 /\ Stored <= m.before) THEN "stop"
    ELSE "pull"

FamilyList(set) ==
    CASE set = {"normal"} -> <<"normal">>
      [] set = {"sco"}    -> <<"sco">>
      [] set = Families   -> <<"normal", "sco">>

\* Mutant of FirstPull: the count before the pull has the missing taken off it.
FirstPull_TakesOffMissing(m, families) ==
    [AuditRequest EXCEPT !.kind = "delta", !.round = m.round + 1, !.run = m.run,
                         !.before = Stored - Cardinality(families),
                         !.families = FamilyList(families)]

FirstPull(m, families) ==
    [AuditRequest EXCEPT !.kind = "delta", !.round = m.round + 1, !.run = m.run,
                         !.before = Stored, !.families = FamilyList(families)]

\* The rest of an audit up to its decision: account, token and permit, GDT's
\* totals, the count of the database.
Decide(w) ==
    LET m == worker[w].msg
    IN /\ worker[w].pc = "decide"
       /\ \/ Continue(w, "retry")       \* account gone, or a transient error
          \/ Continue(w, Pushback(m))   \* no permit, or GDT's 429
          \/ Reauthenticate(w)          \* token dead before or during the calls
          \/ \E total \in [Families -> Totals] :
                \/ /\ Decision(total, m) = "pull"
                   /\ worker' = [worker EXCEPT ![w].pc = IF m.run = NoRun THEN "open" ELSE "send",
                                               ![w].out = FirstPull(m, Short(total))]
                \/ /\ Decision(total, m) \in {"enough", "stop"}
                   /\ IF m.run = NoRun
                      THEN Continue(w, "ack")
                      ELSE worker' = [worker EXCEPT ![w].pc = "close", ![w].as = "completed"]
       /\ UNCHANGED <<queue, dead, parked, ledger, db, budgets>>

\* moDeltaRun
Open(w) ==
    /\ worker[w].pc = "open"
    /\ \/ /\ \E r \in Runs :
                /\ status[r] = "none"
                /\ status' = [status EXCEPT ![r] = "running"]
                /\ fresh' = fresh \cup {r}
                /\ worker' = [worker EXCEPT ![w].pc = "send", ![w].out.run = r]
          /\ UNCHANGED numbered
       \/ /\ worker' = [worker EXCEPT ![w].pc = "retry", ![w].out = Blank]
          /\ UNCHANGED ledger
    /\ UNCHANGED <<queue, dead, parked, db, budgets>>

\* Mutant of Successor: the pages pulled so far are not carried on.
Successor_ForgetsPages(m, done) ==
    LET next == [m EXCEPT !.bp = 0, !.tries = 0]
    IN CASE ~done                       -> [next EXCEPT !.pulled = 0]
         [] done /\ Len(m.families) > 1 -> [next EXCEPT !.families = Tail(@)]
         [] done /\ Len(m.families) = 1 -> [next EXCEPT !.kind = "audit", !.families = <<>>]

\* messageKeTiep: the next chunk, the next family, or the closing audit.
Successor(m, done) ==
    LET next == [m EXCEPT !.bp = 0, !.tries = 0]
    IN CASE ~done                       -> [next EXCEPT !.pulled = @ + 1]
         [] done /\ Len(m.families) > 1 -> [next EXCEPT !.families = Tail(@), !.pulled = 0]
         [] done /\ Len(m.families) = 1 -> [next EXCEPT !.kind = "audit", !.families = <<>>,
                                                        !.pulled = 0]

\* syncChunk: how many invoices of a family may be stored once a chunk is in.
\* Its upsert adds what was missing and never takes an invoice away.
StoredAfterChunk(f) == db[f]..Stock[f]

\* A header job, or a chain of another account of the tenant, stores invoices of
\* the same month and direction.
StoredByOthers ==
    /\ \E f \in Families : \E stored \in StoredAfterChunk(f) :
          stored # db[f] /\ db' = [db EXCEPT ![f] = stored]
    /\ UNCHANGED <<queue, dead, parked, worker, ledger, budgets>>

\* A delta message pulls one chunk, commits it and sees to what comes next.
Pull(w) ==
    LET m == worker[w].msg
        f == Head(m.families)
    IN /\ worker[w].pc = "pull"
       /\ \/ /\ \/ Continue(w, "retry")      \* account gone, or a transient error
                \/ Continue(w, Pushback(m))  \* no permit, or GDT's 429
                \/ Reauthenticate(w)         \* token dead before or during the chunk
             /\ UNCHANGED db
          \/ /\ \E stored \in StoredAfterChunk(f) : db' = [db EXCEPT ![f] = stored]
             /\ \/ \E done \in BOOLEAN :
                      IF ~done /\ m.pulled + 1 >= ChunkCap
                      THEN worker' = [worker EXCEPT ![w].pc = "close", ![w].as = "failed"]
                      ELSE worker' = [worker EXCEPT ![w].pc = "send",
                                                    ![w].out = Successor(m, done)]
                \/ Continue(w, "retry")      \* the detail messages were not accepted
       /\ UNCHANGED <<queue, dead, parked, ledger, budgets>>

\* Mutant of SendFails: the run an audit had just opened is not closed.
SendFails_LeavesRun(w) ==
    worker' = [worker EXCEPT ![w].pc = "retry", ![w].out = Blank]

\* The successor goes into the queue; if the queue refuses it the message is
\* retried, after an audit has closed the run it had just opened.
SendFails(w) ==
    IF worker[w].msg.run = NoRun
    THEN worker' = [worker EXCEPT ![w].pc = "close", ![w].as = "failed"]
    ELSE worker' = [worker EXCEPT ![w].pc = "retry", ![w].out = Blank]

Send(w) ==
    /\ worker[w].pc = "send"
    /\ \/ /\ queue' = Put(queue, worker[w].out)
          /\ worker' = [worker EXCEPT ![w].pc = "ack", ![w].out = Blank]
       \/ /\ SendFails(w)
          /\ UNCHANGED queue
    /\ UNCHANGED <<dead, parked, ledger, db, budgets>>

\* Mutant of CloseRun: every closed run gets a version number.
CloseRun_AlwaysNumbers(r, as) ==
    /\ status' = [status EXCEPT ![r] = as]
    /\ numbered' = numbered \cup {r}
    /\ fresh' = fresh

\* chotDeltaRun, whatever the status of the run.
CloseRun(r, as) ==
    /\ status' = [status EXCEPT ![r] = as]
    /\ numbered' = IF as = "completed" THEN numbered \cup {r} ELSE numbered
    /\ fresh' = fresh

Close(w) ==
    /\ worker[w].pc = "close"
    /\ CloseRun(RunOf(w), worker[w].as)
    /\ worker' = [worker EXCEPT ![w].pc = IF worker[w].msg.run = NoRun THEN "retry" ELSE "ack",
                                ![w].out = Blank, ![w].as = "none"]
    /\ UNCHANGED <<queue, dead, parked, db, budgets>>

\* Backpressure sends a copy of the message, then acknowledges the original.
Requeue(w) ==
    /\ worker[w].pc = "requeue"
    /\ \/ /\ queue' = Put(queue, [worker[w].msg EXCEPT !.bp = @ + 1, !.tries = 0])
          /\ Continue(w, "ack")
       \/ /\ Continue(w, "retry")
          /\ UNCHANGED queue
    /\ UNCHANGED <<dead, parked, ledger, db, budgets>>

Ack(w) ==
    /\ worker[w].pc = "ack"
    /\ worker' = [worker EXCEPT ![w] = IdleWorker]
    /\ UNCHANGED <<queue, dead, parked, ledger, db, budgets>>

\* The queue delivers the message again, or gives it up to the dead letters.
Redeliver(m) ==
    IF m.tries >= MaxRetries
    THEN /\ dead' = Put(dead, [msg |-> [m EXCEPT !.tries = 0], tries |-> 0, parked |-> FALSE])
         /\ UNCHANGED queue
    ELSE /\ queue' = Put(queue, [m EXCEPT !.tries = @ + 1])
         /\ UNCHANGED dead

Retry(w) ==
    /\ worker[w].pc = "retry"
    /\ Redeliver(worker[w].msg)
    /\ worker' = [worker EXCEPT ![w] = IdleWorker]
    /\ UNCHANGED <<parked, ledger, db, budgets>>

\* dlqConsume: one transaction parks the message, a second closes its run if it
\* has one; then the dead letter is acknowledged.
DlqPark ==
    /\ \E d \in BagToSet(dead) :
          /\ ~d.parked
          /\ parked' = Put(parked, d.msg)
          /\ dead' = Put(Take(dead, d), [d EXCEPT !.parked = TRUE])
    /\ UNCHANGED <<queue, worker, ledger, db, budgets>>

\* Mutant of DlqClose: the run of a dead letter is left as it is.
DlqClose_LeavesRun ==
    /\ \E d \in BagToSet(dead) : d.parked /\ dead' = Take(dead, d)
    /\ UNCHANGED <<queue, parked, worker, ledger, db, budgets>>

DlqClose ==
    /\ \E d \in BagToSet(dead) :
          /\ d.parked
          /\ IF d.msg.run = NoRun THEN UNCHANGED ledger ELSE CloseRun(d.msg.run, "failed")
          /\ dead' = Take(dead, d)
    /\ UNCHANGED <<queue, parked, worker, db, budgets>>

\* replayDeadLetters: send the message afresh and mark its row.
Replay ==
    /\ replays < MaxReplays
    /\ replays' = replays + 1
    /\ \E m \in BagToSet(parked) :
          /\ queue' = Put(queue, [m EXCEPT !.bp = 0])
          /\ parked' = Take(parked, m)
    /\ UNCHANGED <<dead, worker, ledger, db, requests, faults>>

\* Two hours pass over a run.
Age ==
    /\ \E r \in FreshRunning : fresh' = fresh \ {r}
    /\ UNCHANGED <<queue, dead, parked, worker, status, numbered, db, budgets>>

-----------------------------------------------------------------------------
\* What may go wrong between two steps.  Each uses up one fault.
Fault == faults < MaxFaults /\ faults' = faults + 1 /\ UNCHANGED <<requests, replays>>

\* The invocation dies: the queue delivers the message again.
Crash(w) ==
    /\ Fault
    /\ worker[w].pc # "idle"
    /\ Redeliver(worker[w].msg)
    /\ worker' = [worker EXCEPT ![w] = IdleWorker]
    /\ UNCHANGED <<parked, ledger, db>>

\* The queue accepted the successor but its answer was lost.
SendAnswerLost(w) ==
    /\ Fault
    /\ worker[w].pc = "send"
    /\ queue' = Put(queue, worker[w].out)
    /\ SendFails(w)
    /\ UNCHANGED <<dead, parked, ledger, db>>

\* The database refuses to close a run: the error ends the job in a retry.
CloseFails(w) ==
    /\ Fault
    /\ worker[w].pc = "close"
    /\ worker' = [worker EXCEPT ![w].pc = "retry", ![w].out = Blank, ![w].as = "none"]
    /\ UNCHANGED <<queue, dead, parked, ledger, db>>

\* A dead letter is not digested: it comes back until its own retries run out,
\* and is then lost.  The row of a first attempt stays.
DlqFails ==
    /\ Fault
    /\ \E d \in BagToSet(dead) :
          dead' = IF d.tries >= MaxDlqRetries
                  THEN Take(dead, d)
                  ELSE Put(Take(dead, d), [d EXCEPT !.tries = @ + 1, !.parked = FALSE])
    /\ UNCHANGED <<queue, parked, worker, ledger, db>>

\* The transaction of a replay rolls back after the message was sent.
ReplayRollsBack ==
    /\ Fault
    /\ \E m \in BagToSet(parked) : queue' = Put(queue, [m EXCEPT !.bp = 0])
    /\ UNCHANGED <<dead, parked, worker, ledger, db>>

-----------------------------------------------------------------------------
Work(w) ==
    \/ Receive(w) \/ Guard(w) \/ Decide(w) \/ Open(w) \/ Pull(w) \/ Send(w)
    \/ Close(w) \/ Requeue(w) \/ Ack(w) \/ Retry(w)

Dlq == DlqPark \/ DlqClose

Faults ==
    \/ \E w \in Workers : Crash(w) \/ SendAnswerLost(w) \/ CloseFails(w)
    \/ DlqFails
    \/ ReplayRollsBack

Quiet ==
    /\ queue = EmptyBag /\ dead = EmptyBag
    /\ \A w \in Workers : worker[w].pc = "idle"

\* Nothing is left to do.
Rest == Quiet /\ requests = MaxRequests /\ UNCHANGED vars

Next ==
    \/ Request \/ Replay \/ Age \/ StoredByOthers
    \/ \E w \in Workers : Work(w)
    \/ Dlq
    \/ Faults
    \/ Rest

\* The queues deliver and the consumers run; nobody has to ask, to replay, or
\* to fail.
Fairness == (\A w \in Workers : WF_vars(Work(w))) /\ WF_vars(Dlq)

Spec == Init /\ [][Next]_vars /\ Fairness

-----------------------------------------------------------------------------
\* The copies of those messages of a bag that are in a set, told apart.
Copies(bag, set) == UNION {{m} \X (1..bag[m]) : m \in BagToSet(bag) \cap set}

\* What carries run r: the copies of its messages in the queue and the dead
\* letters, and the workers that still owe the chain something.
Holders(r) == {w \in Workers : worker[w].pc \notin {"idle", "ack"} /\ RunOf(w) = r}

InFlight(r) ==
    Cardinality(Copies(queue, {m \in BagToSet(queue) : m.run = r}))
    + Cardinality(Copies(dead, {d \in BagToSet(dead) : d.msg.run = r}))
    + Cardinality(Holders(r))

\* A run is pulled by exactly one chain and a closed run by none, as long as no
\* invocation dies, no answer is lost and nothing is played back: retries,
\* backpressure, dead letters and concurrent audits neither fork a chain nor
\* drop it (runAuditJob, runDeltaJob, consumerAction, dlqConsume).
OneChainPerRun ==
    faults = 0 /\ replays = 0 =>
        \A r \in Runs : InFlight(r) = IF status[r] = "running" THEN 1 ELSE 0

\* Runs that say "running" though nobody is left to close them.
Orphans == {r \in Runs : status[r] = "running" /\ InFlight(r) = 0}

\* Each crash, lost answer or lost dead letter leaves at most one run "running"
\* for ever, and nothing else does: the run is closed on every other way out of
\* the chain, dead letters played back included (the "I1" and "I2" repairs of
\* runDeltaJob.ts and dlqConsumer.ts).
OrphanBound == Cardinality(Orphans) <= faults

\* Workers that passed the guard and have not opened their run yet.
Opening == {w \in Workers : worker[w].pc \in {"decide", "open"} /\ worker[w].msg.run = NoRun}

\* The guard is no lock: concurrent audits may each see no chain and each open
\* one.  But however often synchronisation is asked for, and whatever fails,
\* the young running runs of the scope and those about to be opened are never
\* more than the queue has consumers (coDeltaRunDangChay, "GIOI HAN DA BIET").
ChainBound ==
    Cardinality(FreshRunning) + Cardinality(Opening) <= Cardinality(Workers)

\* All messages there are, those parked and those about to be sent included.
Messages ==
    BagToSet(queue) \cup BagToSet(parked) \cup {d.msg : d \in BagToSet(dead)}
    \cup {worker[w].msg : w \in {v \in Workers : worker[v].pc # "idle"}}
    \cup {worker[w].out : w \in {v \in Workers : worker[v].pc = "send"}}

Bounded(m) ==
    /\ m.round <= MaxRounds
    /\ m.pulled < ChunkCap
    /\ m.bp <= MaxBackpressure
    /\ m.tries <= MaxRetries
    /\ m.kind = "delta" => m.families # <<>> /\ m.round >= 1

HasRun(m) ==
    /\ m.kind = "delta" => m.run # NoRun
    /\ m.run = NoRun => m.round = 0

\* No chain runs for ever: no message, on whatever detour it got where it is,
\* exceeds the ceilings on rounds, pages, backpressure and deliveries, and a
\* delta always knows its run and what to pull (decideAudit, runDeltaJob,
\* consumerAction).
MessageBounds == \A m \in Messages : Bounded(m) /\ HasRun(m)

\* Whatever is asked, retried, pushed back or played back, the system comes to
\* rest, queues empty and workers idle, and no more runs are left "running" than
\* crashes and lost calls account for.  No livelock of chains.
Settles ==
    <>[](Quiet /\ Cardinality({r \in Runs : status[r] = "running"}) <= faults)

\* The queue, the workers and their failures implement the ledger of runs.
Ledger == INSTANCE RunLedger WITH MaxChains <- Cardinality(Workers)

LedgerSpec == Ledger!Spec

=============================================================================
