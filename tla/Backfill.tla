------------------------------ MODULE Backfill ------------------------------
(***************************************************************************)
(* A user connects the tax account, asks for a range of months and watches *)
(* a progress bar.  Four parties take part and share no transaction: the   *)
(* pages in the browser, the API that enqueues one job per month and       *)
(* direction and then stores what the range was, the jobs, which leave     *)
(* their mark in the table of runs only, and GDT, which ends sessions when *)
(* it likes.  Progress is derived from the runs at every poll: nobody ever *)
(* tells the page anything.                                                *)
(*                                                                         *)
(* A chain of pulls is one step here; DeltaSync takes it apart and shows   *)
(* that it comes to an end.  Pushing back and retrying are one counter.    *)
(***************************************************************************)
EXTENDS Naturals, FiniteSets, Bags

CONSTANTS Months,      \* the months of the range
          Calendars,   \* pairs: a month that may be the current one, and the one before
          Backfills,    \* presses of the button, each its own backfillId
          Modes,       \* "delta", and "force" for callers of the API
          Workers,
          Slack,       \* RANH_DUA_ENQUEUE_MS: from jobs to tracker takes no longer
          MaxRetries,  \* deliveries of a message before the dead letters
          MaxTokens,   \* bound: sessions GDT grants
          MaxSyncs,    \* bound: requests that are no backfill
          MaxTime      \* bound on the clock

Background == "background"    \* owner of what no backfill asked for

ASSUME BackfillAssumption ==
  /\ Background \notin Backfills
  /\ \A c \in Calendars : c[1] # c[2]
  /\ Modes \subseteq {"delta", "force"}
  /\ Slack \in Nat /\ MaxRetries \in Nat /\ MaxTokens \in Nat
  /\ MaxSyncs \in Nat /\ MaxTime \in Nat

VARIABLES
  now,      \* the clock, in units of Slack or finer
  account,  \* the tax account: not there, registered, authorised
  vault,    \* the session stored for it; 0 is none or past its hour
  live,     \* the sessions GDT still accepts
  granted,  \* sessions granted so far
  login,    \* the session a login request is about to store, 0 if none
  post,     \* the request of each backfill
  asked,    \* when its jobs were enqueued
  created,  \* the tracker: when each backfill was created
  page,     \* what the page that asked for it shows
  queue,
  worker,
  rows,     \* lan_dong_bo
  syncs,    \* requests that are no backfill
  silent    \* bookkeeping: jobs of backfills that left no run of their own

sessions == <<account, vault, live, granted, login>>
pages == <<post, asked, created, page>>
jobs == <<queue, worker, rows, silent>>
vars == <<now, sessions, pages, jobs, syncs>>

Directions == {"purchase", "sold"}
Scopes == Months \X Directions
NotCreated == MaxTime + 1
Owners == Backfills \cup {Background}

Message == [kind : {"audit", "delta", "header"}, scope : Scopes, owner : Owners,
            batDau : 0..MaxTime, tries : 0..MaxRetries]

Run == [scope : Scopes, owner : Owners, loai : {"sync", "audit"},
        trangThai : {"running", "completed", "failed", "can_dang_nhap_lai"},
        batDau : 0..MaxTime]

Idle == [pc |-> "idle"]

Init ==
  /\ now = 0
  /\ account = "none" /\ vault = 0 /\ live = {} /\ granted = 0 /\ login = 0
  /\ post = [b \in Backfills |-> "none"]
  /\ asked = [b \in Backfills |-> 0]
  /\ created = [b \in Backfills |-> NotCreated]
  /\ page = [b \in Backfills |-> "idle"]
  /\ queue = EmptyBag
  /\ worker = [w \in Workers |-> Idle]
  /\ rows = {}
  /\ syncs = 0
  /\ silent = {}

-----------------------------------------------------------------------------
(***************************************************************************)
(* The tax account and its session.                                        *)
(***************************************************************************)

(* No token is stored, or one whose hour is over.                          *)
NoSession == vault = 0

(* The step the connection page is at. *)
Step == CASE account = "none" -> 0
          [] account = "registered" -> 1
          [] account = "authorised" -> IF NoSession THEN 2 ELSE 4

(* POST /tax-accounts: the account of the business's own tax code. *)
Register ==
  /\ Step = 0
  /\ account' = "registered"
  /\ UNCHANGED <<now, vault, live, granted, login, pages, jobs, syncs>>

(* POST /:id/authorize. *)
Authorize ==
  /\ Step = 1
  /\ account' = "authorised"
  /\ UNCHANGED <<now, vault, live, granted, login, pages, jobs, syncs>>

(* POST /:id/login, up to GDT's answer: offered without a session and, as  *)
(* "reconnect", with one.  A refusal changes nothing.                      *)
Login ==
  /\ Step \in {2, 4}
  /\ login = 0
  /\ granted < MaxTokens
  /\ granted' = granted + 1
  /\ live' = live \cup {granted + 1}
  /\ login' = granted + 1
  /\ UNCHANGED <<now, account, vault, pages, jobs, syncs>>

StoreToken ==
  /\ login # 0
  /\ vault' = login
  /\ login' = 0
  /\ UNCHANGED <<now, account, live, granted, pages, jobs, syncs>>

(* POST /:id/disconnect forgets the session; GDT is not told. *)
Disconnect ==
  /\ Step = 4
  /\ vault' = 0
  /\ UNCHANGED <<now, account, live, granted, login, pages, jobs, syncs>>

(* The hour in the token passes, or GDT ends the session before. *)
Expire ==
  /\ vault # 0
  /\ vault' = 0
  /\ live' = live \ {vault}
  /\ UNCHANGED <<now, account, granted, login, pages, jobs, syncs>>

GdtEndsSession ==
  /\ \E g \in live : live' = live \ {g}
  /\ UNCHANGED <<now, account, vault, granted, login, pages, jobs, syncs>>

-----------------------------------------------------------------------------
(***************************************************************************)
(* Progress, derived from the runs.                                        *)
(***************************************************************************)
Failures == {"failed", "can_dang_nhap_lai"}

\* Mutant of Forgiven: no allowance for jobs that start before the tracker.
Forgiven_NoSlack(b, r) == r.trangThai \in Failures /\ r.batDau < created[b]

(* A failure older than the backfill is not its own. *)
Forgiven(b, r) == r.trangThai \in Failures /\ r.batDau + Slack < created[b]

Counted(b, s) == {r \in rows : r.scope = s /\ ~Forgiven(b, r)}

\* Mutant of DirState: a failure counts as still running.
DirState_Hopeful(b, s) ==
  LET states == {r.trangThai : r \in Counted(b, s)}
  IN CASE "completed" \in states -> "covered"
       [] states = {} -> "pending"
       [] OTHER -> "running"

(* The best a scope can show, whatever else was tried. *)
DirState(b, s) ==
  LET states == {r.trangThai : r \in Counted(b, s)}
  IN CASE "completed" \in states -> "covered"
       [] "completed" \notin states /\ "can_dang_nhap_lai" \in states -> "reauth"
       [] states \cap {"completed", "can_dang_nhap_lai"} = {} /\ "failed" \in states
            -> "failed"
       [] states = {"running"} -> "running"
       [] states = {} -> "pending"

DirStates(b, m) == {DirState(b, <<m, d>>) : d \in Directions}

\* Mutant of MonthState: a month is done when one direction is.
MonthState_OneIsEnough(b, m) ==
  LET states == DirStates(b, m)
  IN CASE "covered" \in states -> "xong"
       [] states \cap {"covered", "reauth"} = {"reauth"} -> "reauth"
       [] states \cap {"covered", "reauth", "failed"} = {"failed"} -> "failed"
       [] states \cap {"covered", "reauth", "failed"} = {} -> "dang_chay"

(* A month is done when all its directions are. *)
MonthState(b, m) ==
  LET states == DirStates(b, m)
      pulled == \E r \in rows : /\ r.scope[1] = m
                                /\ r.trangThai = "completed"
                                /\ r.loai # "audit"
  IN CASE states = {"covered"} -> IF pulled THEN "xong" ELSE "du"
       [] "reauth" \in states -> "reauth"
       [] "reauth" \notin states /\ "failed" \in states -> "failed"
       [] states \cap {"reauth", "failed"} = {} /\ states # {"covered"}
            -> IF states = {"pending"} THEN "cho" ELSE "dang_chay"

(* The whole range, in the words of the page. *)
Progress(b) ==
  LET months == {MonthState(b, m) : m \in Months}
  IN CASE "reauth" \in months -> "phien_het_han"
       [] "reauth" \notin months /\ "failed" \in months -> "loi_dong_bo"
       [] months \subseteq {"xong", "du"} -> "xong"
       [] OTHER -> "dang_lay"

-----------------------------------------------------------------------------
(***************************************************************************)
(* The page and its request.                                               *)
(***************************************************************************)
Show(b, what) == page' = [page EXCEPT ![b] = what]
Stage(b, what) == post' = [post EXCEPT ![b] = what]

NewMessage(kind, s, owner) ==
  [kind |-> kind, scope |-> s, owner |-> owner, batDau |-> 0, tries |-> 0]

(* One job per month and direction: audits, or whole months by force. *)
Batch(b, mode) ==
  SetToBag({NewMessage(IF mode = "force" THEN "header" ELSE "audit", s, b) : s \in Scopes})

(* The button, or an empty list: without a live session nothing is sent. *)
Press(b) ==
  /\ page[b] = "idle"
  /\ account = "authorised"
  /\ IF NoSession THEN Show(b, "phien_het_han") /\ UNCHANGED post
                  ELSE Show(b, "dang_lay") /\ Stage(b, "send")
  /\ UNCHANGED <<now, sessions, asked, created, jobs, syncs>>

(* The batch is accepted, or accepted without our hearing of it. *)
Enqueue(b) ==
  /\ post[b] = "send"
  /\ \/ /\ \E mode \in Modes : queue' = queue (+) Batch(b, mode)
        /\ \/ Stage(b, "init") /\ UNCHANGED page
           \/ Stage(b, "failed") /\ Show(b, "loi_gui")
     \/ Stage(b, "failed") /\ Show(b, "loi_gui") /\ UNCHANGED queue
  /\ asked' = [asked EXCEPT ![b] = now]
  /\ UNCHANGED <<now, sessions, created, worker, rows, silent, syncs>>

(* Stored once by the tracker of that id, for its tenant.                  *)
InitDef(b) == created' = [created EXCEPT ![b] = now]

\* Mutant of InitTracker: the tracker first, then the jobs.
InitTracker_First(b) ==
  /\ post[b] \in {"send", "init"} /\ created[b] = NotCreated
  /\ InitDef(b)
  /\ UNCHANGED <<now, sessions, post, asked, page, jobs, syncs>>

(* The tracker and what follows may fail too: the jobs then run unseen. *)
InitTracker(b) ==
  /\ post[b] = "init"
  /\ \/ /\ InitDef(b)
        /\ \/ Stage(b, "followed") /\ UNCHANGED page
           \/ Stage(b, "failed") /\ Show(b, "loi_gui")
     \/ Stage(b, "failed") /\ Show(b, "loi_gui") /\ UNCHANGED created
  /\ UNCHANGED <<now, sessions, asked, jobs, syncs>>

(* GET /backfill/:id, every 2.5 seconds until the answer is final. *)
Poll(b) ==
  /\ post[b] = "followed"
  /\ page[b] = "dang_lay"
  /\ Show(b, Progress(b))
  /\ UNCHANGED <<now, sessions, post, asked, created, jobs, syncs>>

(* Background jobs of other months never meet this range's runs. *)
Headers(month) == {NewMessage("header", <<month, d>>, Background) : d \in Directions}
Audits(month) == {NewMessage("audit", <<month, d>>, Background) : d \in Directions}
InRange(messages) == SetToBag({m \in messages : m.scope[1] \in Months})

(* POST /:id/sync: header jobs of the current month. *)
SyncNow ==
  /\ Step = 4
  /\ syncs < MaxSyncs
  /\ syncs' = syncs + 1
  /\ \E c \in Calendars : queue' = queue (+) InRange(Headers(c[1]))
  /\ UNCHANGED <<now, sessions, pages, worker, rows, silent>>

(* The cron, for an account with a session: the same headers, then audits  *)
(* of the month before; a batch that is refused ends it.                   *)
Cron ==
  /\ account # "none" /\ ~NoSession
  /\ syncs < MaxSyncs
  /\ syncs' = syncs + 1
  /\ \E c \in Calendars :
       \/ queue' = queue (+) InRange(Headers(c[1]))
       \/ queue' = queue (+) InRange(Headers(c[1]) \cup Audits(c[2]))
  /\ UNCHANGED <<now, sessions, pages, worker, rows, silent>>

-----------------------------------------------------------------------------
(***************************************************************************)
(* Jobs.                                                                   *)
(***************************************************************************)
At(w, pc) == worker[w].pc = pc
Done(w) == worker' = [worker EXCEPT ![w] = Idle]
SendBack(m) == queue' = queue (+) SetToBag({m})
Record(m, loai, state, t) ==
  [scope |-> m.scope, owner |-> m.owner, loai |-> loai, trangThai |-> state, batDau |-> t]
RunningOf(m) == Record(m, "sync", "running", m.batDau)
Closed(m, state) == (rows \ {RunningOf(m)}) \cup {Record(m, "sync", state, m.batDau)}
Silence(m) ==
  silent' = IF m.owner = Background \/ \E r \in rows' : r.owner = m.owner /\ r.scope = m.scope
            THEN silent ELSE silent \cup {<<m.owner, m.scope>>}

(* The message comes back until its deliveries run out; the dead letter of *)
(* a pull closes its run.                                                  *)
PutBack(w, m, rowsThen) ==
  /\ Done(w)
  /\ \/ /\ m.tries < MaxRetries
        /\ SendBack([m EXCEPT !.tries = @ + 1])
        /\ rows' = rowsThen
        /\ UNCHANGED silent
     \/ /\ m.tries = MaxRetries
        /\ rows' = IF m.kind = "delta" THEN Closed(m, "failed") ELSE rowsThen
        /\ Silence(m)
        /\ UNCHANGED queue

(* A first audit leaves its work to a chain that is pulling the scope.     *)
Running(s) == \E r \in rows : r.scope = s /\ r.trangThai = "running"

Take(w) ==
  /\ At(w, "idle")
  /\ \E m \in BagToSet(queue) :
       /\ queue' = queue (-) SetToBag({m})
       /\ \/ /\ m.kind = "audit" /\ Running(m.scope)
             /\ UNCHANGED <<worker, rows>>
             /\ Silence(m)
          \/ /\ ~(m.kind = "audit" /\ Running(m.scope))
             /\ worker' = [worker EXCEPT ![w] = [pc |-> "preflight", msg |-> m]]
             /\ UNCHANGED <<rows, silent>>
  /\ UNCHANGED <<now, sessions, pages, syncs>>

(* Without a session: a run that says so, and the message's own closed.    *)
Preflight(w) ==
  /\ At(w, "preflight")
  /\ LET m == worker[w].msg
         told == Record(m, "sync", "can_dang_nhap_lai", now)
     IN \/ /\ NoSession
           /\ rows' = (IF m.kind = "delta" THEN Closed(m, "can_dang_nhap_lai") ELSE rows)
                        \cup {told}
           /\ Done(w)
           /\ UNCHANGED <<queue, silent>>
        \/ /\ ~NoSession
           /\ worker' = [worker EXCEPT ![w] =
                           [pc |-> "work", msg |-> m, token |-> vault, batDau |-> now]]
           /\ UNCHANGED <<queue, rows, silent>>
        \/ ~NoSession /\ PutBack(w, m, rows)       \* no permit
  /\ UNCHANGED <<now, sessions, pages, syncs>>

Refused(w) == worker[w].token \notin live
Working(w, kind) == At(w, "work") /\ worker[w].msg.kind = kind

(* GDT refuses the session: the stored one is cleared, whichever it is by  *)
(* now (reauthRuntime).                                                    *)
Reauthenticate(w, rowsThen) ==
  LET m == worker[w].msg IN
    /\ vault' = 0
    /\ rows' = rowsThen
    /\ Silence(m)
    /\ Done(w)
    /\ UNCHANGED queue

(* The first audit: enough, or a run is opened; an error leaves no trace.  *)
Audit(w) ==
  /\ Working(w, "audit")
  /\ LET m == worker[w].msg IN
       \/ Refused(w) /\ Reauthenticate(w, rows)
       \/ /\ UNCHANGED vault
          /\ \/ /\ ~Refused(w)
                /\ rows' = rows \cup {Record(m, "audit", "completed", now)}
                /\ Done(w)
                /\ UNCHANGED <<queue, silent>>
             \/ /\ ~Refused(w)
                /\ rows' = rows \cup {Record(m, "sync", "running", now)}
                /\ worker' = [worker EXCEPT ![w] =
                                [pc |-> "send", msg |-> [m EXCEPT !.batDau = now]]]
                /\ UNCHANGED <<queue, silent>>
             \/ PutBack(w, m, rows)
  /\ UNCHANGED <<now, account, live, granted, login, pages, syncs>>

(* The first pull goes into the queue, or the run is closed again. *)
Send(w) ==
  /\ At(w, "send")
  /\ LET m == worker[w].msg IN
       \/ /\ SendBack([m EXCEPT !.kind = "delta", !.tries = 0])
          /\ Done(w)
          /\ UNCHANGED <<rows, silent>>
       \/ PutBack(w, [m EXCEPT !.batDau = 0], Closed(m, "failed"))
  /\ UNCHANGED <<now, sessions, pages, syncs>>

(* The rest of the chain: converged, or over its ceiling. *)
Pull(w) ==
  /\ Working(w, "delta")
  /\ LET m == worker[w].msg IN
       \/ Refused(w) /\ Reauthenticate(w, Closed(m, "can_dang_nhap_lai"))
       \/ /\ UNCHANGED vault
          /\ \/ /\ ~Refused(w)
                /\ \E state \in {"completed", "failed"} : rows' = Closed(m, state)
                /\ Done(w)
                /\ UNCHANGED <<queue, silent>>
             \/ PutBack(w, m, rows)
  /\ UNCHANGED <<now, account, live, granted, login, pages, syncs>>

(* A header job leaves a run however it ends. *)
Header(w) ==
  /\ Working(w, "header")
  /\ LET m == worker[w].msg
         with(state) == rows \cup {Record(m, "sync", state, worker[w].batDau)}
     IN \/ Refused(w) /\ Reauthenticate(w, with("failed"))
        \/ /\ UNCHANGED vault
           /\ \/ /\ ~Refused(w)
                 /\ rows' = with("completed")
                 /\ Done(w)
                 /\ UNCHANGED <<queue, silent>>
              \/ PutBack(w, m, with("failed"))
              \/ ~Refused(w) /\ PutBack(w, m, with("completed"))
  /\ UNCHANGED <<now, account, live, granted, login, pages, syncs>>

(* Time passes, but never more than Slack over a request under way. *)
Tick ==
  /\ now < MaxTime
  /\ \A b \in Backfills : post[b] = "init" => now < asked[b] + Slack
  /\ now' = now + 1
  /\ UNCHANGED <<sessions, pages, jobs, syncs>>

-----------------------------------------------------------------------------
Connecting == Register \/ Authorize \/ Login \/ StoreToken \/ Disconnect
                \/ Expire \/ GdtEndsSession
Job(w) == Take(w) \/ Preflight(w) \/ Audit(w) \/ Send(w) \/ Pull(w) \/ Header(w)
Request(b) == Enqueue(b) \/ InitTracker(b)

Next ==
  \/ Connecting \/ SyncNow \/ Cron \/ Tick
  \/ \E b \in Backfills : Press(b) \/ Request(b) \/ Poll(b)
  \/ \E w \in Workers : Job(w)

(* Jobs get on, requests are answered and pages poll; nobody has to press  *)
(* anything and no session has to end.                                     *)
Fairness ==
  /\ \A w \in Workers : WF_vars(Job(w))
  /\ \A b \in Backfills : WF_vars(Request(b)) /\ WF_vars(Poll(b))

Spec == Init /\ [][Next]_vars /\ Fairness
-----------------------------------------------------------------------------
TypeOK ==
  /\ now \in 0..MaxTime
  /\ account \in {"none", "registered", "authorised"}
  /\ vault \in 0..granted /\ live \subseteq 1..granted /\ login \in 0..granted
  /\ granted \in 0..MaxTokens
  /\ post \in [Backfills -> {"none", "send", "init", "followed", "failed"}]
  /\ asked \in [Backfills -> 0..MaxTime]
  /\ created \in [Backfills -> 0..NotCreated]
  /\ page \in [Backfills -> {"idle", "dang_lay", "xong", "loi_dong_bo",
                             "phien_het_han", "loi_gui"}]
  /\ BagToSet(queue) \subseteq Message
  /\ rows \subseteq Run
  /\ \A w \in Workers : ~At(w, "idle") => worker[w].msg \in Message
  /\ syncs \in 0..MaxSyncs
  /\ silent \subseteq Backfills \X Scopes

\* A backfill is made known only after its jobs are safe in the queue: every
\* month and direction of a tracker that can be followed is queued, worked on,
\* has left a run, or is known to have ended without one - never simply not
\* there (POST /:id/backfill, "no orphan tracker without jobs").
InFlight == BagToSet(queue) \cup {worker[w].msg : w \in {v \in Workers : ~At(v, "idle")}}
FollowedIsUnderWay ==
  \A b \in Backfills : created[b] # NotCreated =>
    \A s \in Scopes :
      \/ \E m \in InFlight : m.owner = b /\ m.scope = s
      \/ \E r \in rows : r.owner = b /\ r.scope = s
      \/ <<b, s>> \in silent

\* The filter for old failures never hides one of the backfill's own jobs,
\* though these may have started before the tracker was created: as long as no
\* other run completed the month, the progress says what went wrong
\* (GET /backfill/:id, RANH_DUA_ENQUEUE_MS).
OwnFailuresShow ==
  \A b \in Backfills : created[b] # NotCreated =>
    \A r \in rows :
      /\ r.owner = b /\ r.trangThai \in Failures
      /\ ~\E q \in rows : q.scope = r.scope /\ q.trangThai = "completed"
      => Progress(b) \in {"phien_het_han", "loi_dong_bo"}

\* When a page says the range is done, every month has been completed in both
\* directions, whichever jobs of whichever backfill did it, and stays so: one
\* direction never covers up for the other (deriveBackfillStatus).
DoneIsComplete ==
  \A b \in Backfills : page[b] = "xong" =>
    \A s \in Scopes : \E r \in rows : r.scope = s /\ r.trangThai = "completed"

\* A page does not wait for ever: it comes to a final answer unless some job
\* of its backfill ended without leaving a run - left its work to an older
\* chain, was refused its session in the first audit, or died without ever
\* reaching GDT (useRangeBackfill's polling).  No worker dies between opening
\* a run and sending for its first chunk here (runDeltaJob.ts 238): such a run
\* stays running, and DeltaSync's OrphanBound counts it.
PageLearns ==
  \A b \in Backfills :
    <>[](page[b] = "dang_lay" => \E s \in Scopes : <<b, s>> \in silent)

\* The backfills are well-formed, and followed only when under way
\* (POST /:id/backfill).
FollowedInv == TypeOK /\ FollowedIsUnderWay
=============================================================================
