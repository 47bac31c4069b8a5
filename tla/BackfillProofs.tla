--------------------------- MODULE BackfillProofs ---------------------------
(***************************************************************************)
(* What Backfill promises holds for any months, backfills, workers,        *)
(* requests and clock.                                                     *)
(*                                                                         *)
(* The invariant says where what a backfill asked for is: from the batch   *)
(* on, each of its scopes is covered - by a message, a worker, a run or    *)
(* the record of a job that left none - and nothing of its own is older    *)
(* than the batch.                                                         *)
(***************************************************************************)
EXTENDS Backfill, TLAPS

\* The batch of b has been sent, with or without success.
Sent(b) == post[b] \notin {"none", "send"}

\* What began at t, on behalf of b, began after the batch of b.
Starts(b, t) == b \in Backfills => Sent(b) /\ asked[b] <= t

Due(m) ==
  m.owner \in Backfills =>
    Sent(m.owner) /\ (m.kind = "delta" => asked[m.owner] <= m.batDau)

WorkerFine(x) ==
  /\ x.pc \in {"idle", "preflight", "work", "send"}
  /\ x.pc # "idle" => x.msg \in Message /\ Due(x.msg)
  /\ x.pc = "work" => x.batDau \in 0..MaxTime /\ Starts(x.msg.owner, x.batDau)
  /\ x.pc = "send" => x.msg.kind = "audit" /\ Starts(x.msg.owner, x.msg.batDau)

Covered(b, s) ==
  \/ \E m \in InFlight : m.owner = b /\ m.scope = s
  \/ \E r \in rows : r.owner = b /\ r.scope = s
  \/ <<b, s>> \in silent

Sessions ==
  /\ account \in {"none", "registered", "authorised"}
  /\ vault \in 0..granted /\ live \subseteq 1..granted /\ login \in 0..granted
  /\ granted \in 0..MaxTokens

Requests ==
  /\ now \in 0..MaxTime
  /\ post \in [Backfills -> {"none", "send", "init", "followed", "failed"}]
  /\ asked \in [Backfills -> 0..MaxTime]
  /\ created \in [Backfills -> 0..NotCreated]
  /\ page \in [Backfills -> {"idle", "dang_lay", "xong", "loi_dong_bo",
                             "phien_het_han", "loi_gui"}]
  /\ \A b \in Backfills :
       /\ page[b] = "idle" => post[b] = "none"
       /\ ~Sent(b) => created[b] = NotCreated
       /\ asked[b] <= now
       /\ post[b] = "init" => now <= asked[b] + Slack
       /\ created[b] # NotCreated => created[b] <= asked[b] + Slack

Messages ==
  /\ IsABag(queue)
  /\ \A m \in BagToSet(queue) : m \in Message /\ Due(m)

Consumers ==
  /\ worker = [w \in Workers |-> worker[w]]
  /\ \A w \in Workers : WorkerFine(worker[w])

Ledger == rows \subseteq Run /\ \A r \in rows : Starts(r.owner, r.batDau)

Followed ==
  \A b \in Backfills : post[b] = "init" \/ created[b] # NotCreated =>
    \A s \in Scopes : Covered(b, s)

Rest == syncs \in 0..MaxSyncs /\ silent \subseteq Backfills \X Scopes

IInv ==
  /\ Sessions /\ Requests /\ Messages /\ Consumers /\ Ledger /\ Followed
  /\ Rest /\ DoneIsComplete

-----------------------------------------------------------------------------
(***************************************************************************)
(* Bags                                                                    *)
(***************************************************************************)
LEMMA AddFacts ==
  ASSUME NEW b, IsABag(b), NEW S
  PROVE  IsABag(b (+) SetToBag(S)) /\ BagToSet(b (+) SetToBag(S)) = BagToSet(b) \cup S
BY DEF IsABag, BagToSet, SetToBag, (+), BagIn

LEMMA TakeFacts ==
  ASSUME NEW b, IsABag(b), NEW m
  PROVE  /\ IsABag(b (-) SetToBag({m}))
         /\ BagToSet(b (-) SetToBag({m})) \subseteq BagToSet(b)
         /\ BagToSet(b) \ {m} \subseteq BagToSet(b (-) SetToBag({m}))
BY DEF IsABag, BagToSet, SetToBag, (-), BagIn

LEMMA EmptyFacts == IsABag(EmptyBag) /\ BagToSet(EmptyBag) = {}
BY DEF EmptyBag, IsABag, BagToSet, SetToBag

-----------------------------------------------------------------------------
(***************************************************************************)
(* What a step leaves as it was                                            *)
(***************************************************************************)
LEMMA Numbers ==
  /\ Slack \in Nat /\ MaxRetries \in Nat /\ MaxTokens \in Nat
  /\ MaxSyncs \in Nat /\ MaxTime \in Nat /\ Background \notin Backfills
BY BackfillAssumption

\* Requests go on: what has been sent stays sent, and since when.
GoOn == \A b \in Backfills : Sent(b) => Sent(b)' /\ asked'[b] = asked[b]

LEMMA SameRequestsGoOn == ASSUME UNCHANGED <<post, asked>> PROVE GoOn
BY DEF GoOn, Sent

LEMMA StaysFine ==
  ASSUME GoOn
  PROVE  /\ \A b, t : Starts(b, t) => Starts(b, t)'
         /\ \A m : Due(m) => Due(m)'
         /\ \A x : WorkerFine(x) => WorkerFine(x)'
<1>1. \A b, t : Starts(b, t) => Starts(b, t)'
  BY DEF GoOn, Starts
<1>2. \A m : Due(m) => Due(m)'
  BY DEF GoOn, Due
<1>3. \A x : WorkerFine(x) => WorkerFine(x)'
  BY <1>1, <1>2 DEF WorkerFine, Message, Owners, Scopes
<1> QED BY <1>1, <1>2, <1>3

\* Nothing happens to messages, workers and runs.
LEMMA JobsStay ==
  ASSUME IInv, GoOn, UNCHANGED jobs
  PROVE  /\ Messages' /\ Consumers' /\ Ledger'
         /\ \A b, s : Covered(b, s) => Covered(b, s)'
         /\ \A s \in Scopes : (\E r \in rows : r.scope = s /\ r.trangThai = "completed")
              => \E r \in rows' : r.scope = s /\ r.trangThai = "completed"
<1>1. queue' = queue /\ worker' = worker /\ rows' = rows /\ silent' = silent
  BY DEF jobs
<1>2. Messages'
  BY <1>1, StaysFine DEF IInv, Messages
<1>3. Consumers'
  BY <1>1, StaysFine DEF IInv, Consumers
<1>4. Ledger'
  BY <1>1, StaysFine DEF IInv, Ledger
<1>5. InFlight' = InFlight
  BY <1>1 DEF InFlight, At
<1>6. \A b, s : Covered(b, s) => Covered(b, s)'
  BY <1>1, <1>5 DEF Covered
<1> QED BY <1>1, <1>2, <1>3, <1>4, <1>6

\* Messages come into the queue.
LEMMA QueueGrows ==
  ASSUME IInv, GoOn, UNCHANGED <<worker, rows, silent>>,
         NEW S, \A m \in S : m \in Message /\ Due(m)',
         queue' = queue (+) SetToBag(S)
  PROVE  /\ Messages' /\ Consumers' /\ Ledger'
         /\ \A b, s : Covered(b, s) => Covered(b, s)'
         /\ \A m \in S : Covered(m.owner, m.scope)'
<1>1. IsABag(queue') /\ BagToSet(queue') = BagToSet(queue) \cup S
  BY AddFacts DEF IInv, Messages
<1>2. Messages'
  BY <1>1, StaysFine DEF IInv, Messages
<1>3. Consumers'
  BY StaysFine DEF IInv, Consumers
<1>4. Ledger'
  BY StaysFine DEF IInv, Ledger
<1>5. InFlight \subseteq InFlight' /\ S \subseteq InFlight'
  BY <1>1 DEF InFlight, At
<1>6. \A b, s : Covered(b, s) => Covered(b, s)'
  BY <1>5 DEF Covered
<1>7. \A m \in S : Covered(m.owner, m.scope)'
  BY <1>5 DEF Covered
<1> QED BY <1>2, <1>3, <1>4, <1>6, <1>7

\* The pages stay as they are, and what was done stays done.
LEMMA PagesStay ==
  ASSUME IInv, UNCHANGED <<now, pages>>,
         \A b, s : Covered(b, s) => Covered(b, s)',
         \A r \in rows : r.trangThai = "completed" => r \in rows'
  PROVE  Requests' /\ Followed' /\ DoneIsComplete'
<1>1. UNCHANGED <<now, post, asked, created, page>>
  BY DEF pages
<1>2. Requests'
  BY <1>1 DEF IInv, Requests, Sent
<1>3. Followed'
  BY <1>1 DEF IInv, Followed
<1>4. DoneIsComplete'
  BY <1>1 DEF IInv, DoneIsComplete
<1> QED BY <1>2, <1>3, <1>4

-----------------------------------------------------------------------------
(***************************************************************************)
(* The account and its session                                             *)
(***************************************************************************)
LEMMA ConnectingKeeps == ASSUME IInv, Connecting PROVE IInv'
<1>1. UNCHANGED <<now, pages, jobs, syncs>>
  BY DEF Connecting, Register, Authorize, Login, StoreToken, Disconnect, Expire, GdtEndsSession
<1>2. UNCHANGED <<post, asked>> /\ rows' = rows /\ silent' = silent /\ syncs' = syncs
  BY <1>1 DEF pages, jobs
<1>3. Sessions'
  <2>1. /\ account \in {"none", "registered", "authorised"}
        /\ vault \in 0..granted /\ live \subseteq 1..granted /\ login \in 0..granted
        /\ granted \in 0..MaxTokens /\ MaxTokens \in Nat
    BY Numbers DEF IInv, Sessions
  <2>2. CASE Register \/ Authorize
    BY <2>1, <2>2 DEF Register, Authorize, Sessions
  <2>3. CASE Login
    <3>1. granted < MaxTokens /\ granted' = granted + 1 /\ live' = live \cup {granted + 1}
          /\ login' = granted + 1 /\ UNCHANGED <<account, vault>>
      BY <2>3 DEF Login
    <3> QED BY <2>1, <3>1 DEF Sessions
  <2>4. CASE StoreToken \/ Disconnect \/ Expire \/ GdtEndsSession
    <3>1. /\ account' = account /\ granted' = granted
          /\ vault' \in {vault, login, 0} /\ login' \in {login, 0} /\ live' \subseteq live
      BY <2>4 DEF StoreToken, Disconnect, Expire, GdtEndsSession
    <3> QED BY <2>1, <3>1 DEF Sessions
  <2> QED BY <2>2, <2>3, <2>4 DEF Connecting
<1>4. GoOn
  BY <1>2, SameRequestsGoOn
<1>5. /\ Messages' /\ Consumers' /\ Ledger'
      /\ \A b, s : Covered(b, s) => Covered(b, s)'
  BY <1>1, <1>4, JobsStay
<1>6. Requests' /\ Followed' /\ DoneIsComplete'
  BY <1>1, <1>2, <1>5, PagesStay
<1>7. Rest'
  BY <1>2 DEF IInv, Rest
<1> QED BY <1>3, <1>5, <1>6, <1>7 DEF IInv

\* A job of no backfill.
LEMMA BackgroundFine ==
  ASSUME NEW kind \in {"header", "audit"}, NEW s \in Scopes
  PROVE  LET m == NewMessage(kind, s, Background) IN m \in Message /\ Due(m)'
BY Numbers DEF NewMessage, Message, Owners, Due

LEMMA BackgroundKeeps == ASSUME IInv, SyncNow \/ Cron PROVE IInv'
<1>1. UNCHANGED <<now, sessions, pages, worker, rows, silent>>
  BY DEF SyncNow, Cron
<1>2. UNCHANGED <<post, asked>> /\ UNCHANGED <<account, vault, live, granted, login>>
  BY <1>1 DEF pages, sessions
<1>3. \E c, S : queue' = queue (+) InRange(S) /\ S \subseteq Headers(c[1]) \cup Audits(c[2])
  BY DEF SyncNow, Cron
<1>4. PICK c, S : queue' = queue (+) InRange(S) /\ S \subseteq Headers(c[1]) \cup Audits(c[2])
  BY <1>3
<1> DEFINE T == {m \in S : m.scope[1] \in Months}
<1>5. \A m \in T : m \in Message /\ Due(m)'
  <2> TAKE m \in T
  <2>0. PICK kind \in {"header", "audit"} : \E s :
           s[2] \in Directions /\ s = <<s[1], s[2]>> /\ m = NewMessage(kind, s, Background)
    <3>1. CASE m \in Headers(c[1])
      <4>1. PICK d \in Directions : m = NewMessage("header", <<c[1], d>>, Background)
        BY <3>1 DEF Headers
      <4> DEFINE s == <<c[1], d>>
      <4>2. s[2] \in Directions /\ s = <<s[1], s[2]>> /\ m = NewMessage("header", s, Background)
        BY <4>1
      <4> HIDE DEF s
      <4> QED BY <4>2
    <3>2. CASE m \in Audits(c[2])
      <4>1. PICK d \in Directions : m = NewMessage("audit", <<c[2], d>>, Background)
        BY <3>2 DEF Audits
      <4> DEFINE s == <<c[2], d>>
      <4>2. s[2] \in Directions /\ s = <<s[1], s[2]>> /\ m = NewMessage("audit", s, Background)
        BY <4>1
      <4> HIDE DEF s
      <4> QED BY <4>2
    <3> QED BY <1>4, <3>1, <3>2
  <2>1. PICK s : s[2] \in Directions /\ s = <<s[1], s[2]>> /\ m = NewMessage(kind, s, Background)
    BY <2>0
  <2>2. s \in Scopes
    BY <2>1 DEF NewMessage, Scopes
  <2> QED BY <2>1, <2>2, BackgroundFine
<1>6. queue' = queue (+) SetToBag(T)
  BY <1>4 DEF InRange
<1>7. GoOn
  BY <1>2, SameRequestsGoOn
<1> HIDE DEF T
<1>8. /\ Messages' /\ Consumers' /\ Ledger'
      /\ \A b, s : Covered(b, s) => Covered(b, s)'
  BY <1>1, <1>5, <1>6, <1>7, QueueGrows
<1>9. Requests' /\ Followed' /\ DoneIsComplete'
  BY <1>1, <1>8, PagesStay
<1>10. Sessions'
  BY <1>2 DEF IInv, Sessions
<1>11. Rest'
  BY <1>1, Numbers DEF SyncNow, Cron, IInv, Rest
<1> QED BY <1>8, <1>9, <1>10, <1>11 DEF IInv

-----------------------------------------------------------------------------
(***************************************************************************)
(* The page and its request                                                *)
(***************************************************************************)
LEMMA PressKeeps == ASSUME IInv, NEW b \in Backfills, Press(b) PROVE IInv'
<1>1. UNCHANGED <<now, asked, created, jobs, syncs>>
      /\ UNCHANGED <<account, vault, live, granted, login>>
  BY DEF Press, sessions
<1>2. /\ page[b] = "idle"
      /\ \/ Show(b, "phien_het_han") /\ UNCHANGED post
         \/ Show(b, "dang_lay") /\ Stage(b, "send")
  BY DEF Press
<1>3. post[b] = "none"
  BY <1>2 DEF IInv, Requests
<1>4. GoOn
  BY <1>1, <1>2, <1>3 DEF GoOn, Sent, Stage, IInv, Requests
<1>5. /\ Messages' /\ Consumers' /\ Ledger'
      /\ \A c, s : Covered(c, s) => Covered(c, s)'
  BY <1>1, <1>4, JobsStay
<1>6. Requests'
  <2>1. CASE Show(b, "phien_het_han") /\ UNCHANGED post
    BY <1>1, <2>1 DEF IInv, Requests, Show, Sent
  <2>2. CASE Show(b, "dang_lay") /\ Stage(b, "send")
    BY <1>1, <1>3, <2>2 DEF IInv, Requests, Show, Stage, Sent
  <2> QED BY <1>2, <2>1, <2>2
<1>7. Followed'
  <2> SUFFICES ASSUME NEW c \in Backfills, (post[c] = "init" \/ created[c] # NotCreated)',
                      NEW s \in Scopes
               PROVE  Covered(c, s)'
    BY DEF Followed
  <2>1. post[c] = "init" \/ created[c] # NotCreated
    BY <1>1, <1>2 DEF IInv, Requests, Stage, NotCreated
  <2> QED BY <1>5, <2>1 DEF IInv, Followed
<1>8. DoneIsComplete'
  <2>1. \A c \in Backfills : page'[c] = "xong" => page[c] = "xong"
    BY <1>2 DEF IInv, Requests, Show
  <2>2. rows' = rows
    BY <1>1 DEF jobs
  <2> QED BY <2>1, <2>2 DEF IInv, DoneIsComplete
<1>9. Sessions' /\ Rest'
  BY <1>1 DEF IInv, Sessions, Rest, jobs
<1> QED BY <1>5, <1>6, <1>7, <1>8, <1>9 DEF IInv

LEMMA EnqueueKeeps == ASSUME IInv, NEW b \in Backfills, Enqueue(b) PROVE IInv'
<1>1. UNCHANGED <<now, created, worker, rows, silent, syncs>>
      /\ UNCHANGED <<account, vault, live, granted, login>>
  BY DEF Enqueue, sessions
<1>2. post[b] = "send" /\ asked' = [asked EXCEPT ![b] = now]
  BY DEF Enqueue
<1>3. /\ \/ Stage(b, "init") /\ UNCHANGED page
         \/ Stage(b, "failed") /\ Show(b, "loi_gui")
      /\ Stage(b, "failed") \/ \E mode \in Modes : queue' = queue (+) Batch(b, mode)
      /\ UNCHANGED queue \/ \E mode \in Modes : queue' = queue (+) Batch(b, mode)
  BY DEF Enqueue
<1>4. created[b] = NotCreated /\ ~Sent(b)
  BY <1>2 DEF IInv, Requests, Sent
<1>5. GoOn /\ Sent(b)'
  BY <1>2, <1>3, <1>4 DEF GoOn, Sent, Stage, IInv, Requests
<1>6. Requests'
  <2>1. CASE Stage(b, "init") /\ UNCHANGED page
    BY <1>1, <1>2, <1>4, <2>1, Numbers DEF IInv, Requests, Stage, Sent
  <2>2. CASE Stage(b, "failed") /\ Show(b, "loi_gui")
    BY <1>1, <1>2, <1>4, <2>2, Numbers DEF IInv, Requests, Show, Stage, Sent
  <2> QED BY <1>3, <2>1, <2>2
<1>7. Sessions' /\ Rest'
  BY <1>1 DEF IInv, Sessions, Rest
<1>8. DoneIsComplete'
  <2>1. \A c \in Backfills : page'[c] = "xong" => page[c] = "xong"
    BY <1>3 DEF IInv, Requests, Show
  <2> QED BY <1>1, <2>1 DEF IInv, DoneIsComplete
<1>9. CASE UNCHANGED queue /\ Stage(b, "failed")
  <2>1. UNCHANGED jobs
    BY <1>1, <1>9 DEF jobs
  <2>2. /\ Messages' /\ Consumers' /\ Ledger'
        /\ \A c, s : Covered(c, s) => Covered(c, s)'
    BY <1>5, <2>1, JobsStay
  <2>3. Followed'
    <3> SUFFICES ASSUME NEW c \in Backfills, (post[c] = "init" \/ created[c] # NotCreated)',
                        NEW s \in Scopes
                 PROVE  Covered(c, s)'
      BY DEF Followed
    <3>1. post[c] = "init" \/ created[c] # NotCreated
      BY <1>1, <1>9 DEF IInv, Requests, Stage, NotCreated
    <3> QED BY <2>2, <3>1 DEF IInv, Followed
  <2> QED BY <1>6, <1>7, <1>8, <2>2, <2>3 DEF IInv
<1>10. CASE \E mode \in Modes : queue' = queue (+) Batch(b, mode)
  <2>1. PICK kind \in {"header", "audit"} :
          queue' = queue (+) SetToBag({NewMessage(kind, s, b) : s \in Scopes})
    BY <1>10 DEF Batch
  <2> DEFINE S == {NewMessage(kind, s, b) : s \in Scopes}
  <2>2. \A m \in S : m \in Message /\ Due(m)'
    BY <1>5, <2>1, Numbers DEF NewMessage, Message, Owners, Due
  <2>3. \A s \in Scopes : \E m \in S : m.owner = b /\ m.scope = s
    <3> SUFFICES ASSUME NEW s \in Scopes PROVE \E m \in S : m.owner = b /\ m.scope = s
      OBVIOUS
    <3>1. NewMessage(kind, s, b) \in S
      OBVIOUS
    <3>2. NewMessage(kind, s, b).owner = b /\ NewMessage(kind, s, b).scope = s
      BY DEF NewMessage
    <3> HIDE DEF S
    <3> QED BY <3>1, <3>2
  <2>4. queue' = queue (+) SetToBag(S)
    BY <2>1
  <2> HIDE DEF S
  <2>5. /\ Messages' /\ Consumers' /\ Ledger'
        /\ \A c, s : Covered(c, s) => Covered(c, s)'
        /\ \A m \in S : Covered(m.owner, m.scope)'
    BY <1>1, <1>5, <2>2, <2>4, QueueGrows
  <2>6. \A s \in Scopes : Covered(b, s)'
    BY <2>3, <2>5
  <2>7. Followed'
    <3> SUFFICES ASSUME NEW c \in Backfills, (post[c] = "init" \/ created[c] # NotCreated)',
                        NEW s \in Scopes
                 PROVE  Covered(c, s)'
      BY DEF Followed
    <3>1. c # b => post[c] = "init" \/ created[c] # NotCreated
      BY <1>1, <1>3 DEF IInv, Requests, Stage, NotCreated
    <3> QED BY <2>5, <2>6, <3>1 DEF IInv, Followed
  <2> QED BY <1>6, <1>7, <1>8, <2>5, <2>7 DEF IInv
<1> QED BY <1>3, <1>9, <1>10

LEMMA TrackerKeeps == ASSUME IInv, NEW b \in Backfills, InitTracker(b) PROVE IInv'
<1>1. UNCHANGED <<now, asked, jobs, syncs>>
      /\ UNCHANGED <<account, vault, live, granted, login>>
  BY DEF InitTracker, sessions
<1>2. /\ post[b] = "init"
      /\ \/ Stage(b, "followed") /\ UNCHANGED page
         \/ Stage(b, "failed") /\ Show(b, "loi_gui")
      /\ created' = [created EXCEPT ![b] = now] \/ UNCHANGED created
  BY DEF InitTracker, InitDef
<1>3. GoOn
  BY <1>1, <1>2 DEF GoOn, Sent, Stage, IInv, Requests
<1>4. /\ Messages' /\ Consumers' /\ Ledger'
      /\ \A c, s : Covered(c, s) => Covered(c, s)'
  BY <1>1, <1>3, JobsStay
<1>5. Requests'
  <2>1. Sent(b) /\ now <= asked[b] + Slack /\ page[b] # "idle"
    BY <1>2 DEF IInv, Requests, Sent
  <2>2. /\ created' \in [Backfills -> 0..NotCreated]
        /\ \A c \in Backfills : /\ ~Sent(c) => created'[c] = NotCreated
                                /\ created'[c] # NotCreated => created'[c] <= asked[c] + Slack
    BY <1>2, <2>1, Numbers DEF IInv, Requests, NotCreated
  <2>3. /\ post' \in [Backfills -> {"none", "send", "init", "followed", "failed"}]
        /\ \A c \in Backfills : /\ Sent(c)' => Sent(c)
                                /\ Sent(c) => Sent(c)'
                                /\ post'[c] = "init" => post[c] = "init"
    BY <1>2, <2>1 DEF IInv, Requests, Stage, Sent
  <2>4. /\ page' \in [Backfills -> {"idle", "dang_lay", "xong", "loi_dong_bo",
                                    "phien_het_han", "loi_gui"}]
        /\ \A c \in Backfills : page'[c] = "idle" => page[c] = "idle" /\ c # b
    BY <1>2, <2>1 DEF IInv, Requests, Show
  <2>5. \A c \in Backfills : c # b => post'[c] = post[c]
    BY <1>2 DEF IInv, Requests, Stage
  <2>6. /\ now \in 0..MaxTime /\ asked \in [Backfills -> 0..MaxTime]
        /\ \A c \in Backfills : /\ page[c] = "idle" => post[c] = "none"
                                /\ asked[c] <= now
                                /\ post[c] = "init" => now <= asked[c] + Slack
    BY DEF IInv, Requests
  <2> QED BY <1>1, <2>2, <2>3, <2>4, <2>5, <2>6 DEF Requests
<1>6. Followed'
  <2> SUFFICES ASSUME NEW c \in Backfills, (post[c] = "init" \/ created[c] # NotCreated)',
                      NEW s \in Scopes
               PROVE  Covered(c, s)'
    BY DEF Followed
  <2>1. post[c] = "init" \/ created[c] # NotCreated
    BY <1>2 DEF IInv, Requests, Stage, NotCreated
  <2> QED BY <1>4, <2>1 DEF IInv, Followed
<1>7. DoneIsComplete'
  <2>1. \A c \in Backfills : page'[c] = "xong" => page[c] = "xong"
    BY <1>2 DEF IInv, Requests, Show
  <2>2. rows' = rows
    BY <1>1 DEF jobs
  <2> QED BY <2>1, <2>2 DEF IInv, DoneIsComplete
<1>8. Sessions' /\ Rest'
  BY <1>1 DEF IInv, Sessions, Rest, jobs
<1> QED BY <1>4, <1>5, <1>6, <1>7, <1>8 DEF IInv

LEMMA TickKeeps == ASSUME IInv, Tick PROVE IInv'
<1>1. UNCHANGED <<sessions, pages, jobs, syncs>>
  BY DEF Tick
<1>2. /\ UNCHANGED <<post, asked, created, page>> /\ rows' = rows /\ silent' = silent
      /\ UNCHANGED <<account, vault, live, granted, login>> /\ syncs' = syncs
  BY <1>1 DEF sessions, pages, jobs
<1>3. GoOn
  BY <1>2, SameRequestsGoOn
<1>4. /\ Messages' /\ Consumers' /\ Ledger'
      /\ \A c, s : Covered(c, s) => Covered(c, s)'
  BY <1>1, <1>3, JobsStay
<1>5. Requests'
  <2>1. /\ now < MaxTime /\ now' = now + 1
        /\ \A b \in Backfills : post[b] = "init" => now < asked[b] + Slack
    BY DEF Tick
  <2> QED BY <1>2, <2>1, Numbers DEF IInv, Requests, Sent
<1>6. Followed' /\ DoneIsComplete' /\ Sessions' /\ Rest'
  BY <1>2, <1>4 DEF IInv, Followed, DoneIsComplete, Sessions, Rest
<1> QED BY <1>4, <1>5, <1>6 DEF IInv

-----------------------------------------------------------------------------
(***************************************************************************)
(* Progress, derived from the runs                                         *)
(***************************************************************************)
States == {"running", "completed", "failed", "can_dang_nhap_lai"}

\* Nothing but a completed run covers a scope.
LEMMA CoveredIsCompleted ==
  ASSUME rows \subseteq Run, NEW b, NEW s, DirState(b, s) = "covered"
  PROVE  \E r \in rows : r.scope = s /\ r.trangThai = "completed"
<1> DEFINE states == {r.trangThai : r \in Counted(b, s)}
<1>1. states \subseteq States
  BY DEF Counted, Run, States
<1>2. "completed" \in states
  <2> HIDE DEF states
  <2>1. SUFFICES ASSUME "completed" \notin states PROVE FALSE
    OBVIOUS
  <2>2. DirState(b, s) =
          CASE "completed" \in states -> "covered"
            [] "completed" \notin states /\ "can_dang_nhap_lai" \in states -> "reauth"
            [] states \cap {"completed", "can_dang_nhap_lai"} = {} /\ "failed" \in states
                 -> "failed"
            [] states = {"running"} -> "running"
            [] states = {} -> "pending"
    BY DEF DirState, states
  <2>3. \/ "can_dang_nhap_lai" \in states
        \/ states \cap {"completed", "can_dang_nhap_lai"} = {} /\ "failed" \in states
        \/ states = {"running"}
        \/ states = {}
    BY <1>1, <2>1 DEF States
  <2> QED BY <2>1, <2>2, <2>3
<1> QED BY <1>2 DEF Counted

\* A failure that counts shows, as long as nothing completed the scope.
LEMMA CountedShows ==
  ASSUME NEW b, NEW s, NEW r \in Counted(b, s), r.trangThai \in Failures,
         ~\E q \in rows : q.scope = s /\ q.trangThai = "completed"
  PROVE  DirState(b, s) \in {"reauth", "failed"}
<1> DEFINE states == {q.trangThai : q \in Counted(b, s)}
<1>1. "completed" \notin states /\ r.trangThai \in states
  BY DEF Counted
<1>2. "can_dang_nhap_lai" \in states \/ "failed" \in states
  BY <1>1 DEF Failures
<1>3. DirState(b, s) =
        CASE "completed" \in states -> "covered"
          [] "completed" \notin states /\ "can_dang_nhap_lai" \in states -> "reauth"
          [] states \cap {"completed", "can_dang_nhap_lai"} = {} /\ "failed" \in states
               -> "failed"
          [] states = {"running"} -> "running"
          [] states = {} -> "pending"
  BY DEF DirState
<1> HIDE DEF states
<1> QED BY <1>1, <1>2, <1>3

LEMMA MonthDone ==
  ASSUME NEW b, NEW m, MonthState(b, m) \in {"xong", "du"}
  PROVE  DirStates(b, m) = {"covered"}
BY DEF MonthState

LEMMA MonthShows ==
  ASSUME NEW b, NEW m, NEW d \in Directions, DirState(b, <<m, d>>) \in {"reauth", "failed"}
  PROVE  MonthState(b, m) \in {"reauth", "failed"}
<1>1. "reauth" \in DirStates(b, m) \/ "failed" \in DirStates(b, m)
  BY DEF DirStates
<1> QED BY <1>1 DEF MonthState

LEMMA RangeDone ==
  ASSUME NEW b, Progress(b) = "xong"
  PROVE  \A m \in Months : MonthState(b, m) \in {"xong", "du"}
BY DEF Progress

LEMMA RangeShows ==
  ASSUME NEW b, NEW m \in Months, MonthState(b, m) \in {"reauth", "failed"}
  PROVE  Progress(b) \in {"phien_het_han", "loi_dong_bo"}
<1> DEFINE months == {MonthState(b, n) : n \in Months}
<1>1. "reauth" \in months \/ "failed" \in months
  OBVIOUS
<1> QED BY <1>1 DEF Progress

LEMMA ProgressWords ==
  ASSUME NEW b PROVE Progress(b) \in {"dang_lay", "xong", "loi_dong_bo", "phien_het_han"}
BY DEF Progress

\* A range that is shown as done is completed in both directions.
LEMMA DoneMeansAll ==
  ASSUME rows \subseteq Run, NEW b, Progress(b) = "xong", NEW s \in Scopes
  PROVE  \E r \in rows : r.scope = s /\ r.trangThai = "completed"
<1>1. PICK m \in Months, d \in Directions : s = <<m, d>>
  BY DEF Scopes
<1>2. DirStates(b, m) = {"covered"}
  BY RangeDone, MonthDone
<1>3. DirState(b, s) = "covered"
  BY <1>1, <1>2 DEF DirStates
<1> QED BY <1>3, CoveredIsCompleted

LEMMA PollKeeps == ASSUME IInv, NEW b \in Backfills, Poll(b) PROVE IInv'
<1>1. UNCHANGED <<now, post, asked, created, jobs, syncs>>
      /\ UNCHANGED <<account, vault, live, granted, login>>
  BY DEF Poll, sessions
<1>2. page[b] = "dang_lay" /\ page' = [page EXCEPT ![b] = Progress(b)]
  BY DEF Poll, Show
<1>3. GoOn
  BY <1>1, SameRequestsGoOn
<1>4. /\ Messages' /\ Consumers' /\ Ledger'
      /\ \A c, s : Covered(c, s) => Covered(c, s)'
  BY <1>1, <1>3, JobsStay
<1>5. Requests'
  BY <1>1, <1>2, ProgressWords DEF IInv, Requests, Sent
<1>6. Followed'
  BY <1>1, <1>4 DEF IInv, Followed
<1>7. DoneIsComplete'
  <2>1. rows' = rows
    BY <1>1 DEF jobs
  <2>2. \A c \in Backfills : page'[c] = "xong" => page[c] = "xong" \/ Progress(c) = "xong"
    BY <1>2 DEF IInv, Requests
  <2>3. rows \subseteq Run
    BY DEF IInv, Ledger
  <2>4. \A c \in Backfills : page'[c] = "xong" =>
          \A s \in Scopes : \E r \in rows : r.scope = s /\ r.trangThai = "completed"
    BY <2>2, <2>3, DoneMeansAll DEF IInv, DoneIsComplete
  <2> QED BY <2>1, <2>4 DEF DoneIsComplete
<1>8. Sessions' /\ Rest'
  BY <1>1 DEF IInv, Sessions, Rest, jobs
<1> QED BY <1>4, <1>5, <1>6, <1>7, <1>8 DEF IInv

-----------------------------------------------------------------------------
(***************************************************************************)
(* The runs a job leaves                                                   *)
(***************************************************************************)
\* R may come after the runs there are: nothing is lost and nothing undone.
RowsGo(R) ==
  /\ R \subseteq Run /\ \A r \in R : Starts(r.owner, r.batDau)
  /\ \A r \in rows : \E q \in R : q.owner = r.owner /\ q.scope = r.scope
  /\ \A r \in rows : r.trangThai = "completed" => r \in R

LEMMA RowsStayGo == ASSUME IInv PROVE RowsGo(rows)
BY DEF IInv, Ledger, RowsGo

LEMMA RecordGoes ==
  ASSUME NEW R, RowsGo(R), NEW m \in Message, NEW loai \in {"sync", "audit"},
         NEW state \in States, NEW t \in 0..MaxTime, Starts(m.owner, t)
  PROVE  /\ RowsGo(R \cup {Record(m, loai, state, t)})
         /\ \E r \in R \cup {Record(m, loai, state, t)} : r.owner = m.owner /\ r.scope = m.scope
<1> DEFINE q == Record(m, loai, state, t)
<1>1. q \in Run /\ q.owner = m.owner /\ q.scope = m.scope /\ q.batDau = t
  BY DEF Record, Message, Run, States
<1> HIDE DEF q
<1>2. RowsGo(R \cup {q})
  BY <1>1 DEF RowsGo
<1>3. \E r \in R \cup {q} : r.owner = m.owner /\ r.scope = m.scope
  BY <1>1
<1> QED BY <1>2, <1>3 DEF q

\* Closing the run of a message leaves a run of its scope.
LEMMA ClosedGoes ==
  ASSUME IInv, NEW m \in Message, NEW state \in States, Starts(m.owner, m.batDau)
  PROVE  /\ RowsGo(Closed(m, state))
         /\ \E r \in Closed(m, state) : r.owner = m.owner /\ r.scope = m.scope
<1> DEFINE q == Record(m, "sync", state, m.batDau)
           old == RunningOf(m)
<1>1. q \in Run /\ q.owner = m.owner /\ q.scope = m.scope /\ q.batDau = m.batDau
  BY DEF Record, Message, Run, States
<1>2. old.owner = m.owner /\ old.scope = m.scope /\ old.trangThai = "running"
  BY DEF RunningOf, Record
<1>3. Closed(m, state) = (rows \ {old}) \cup {q}
  BY DEF Closed
<1> HIDE DEF q, old
<1>4. rows \subseteq Run /\ \A r \in rows : Starts(r.owner, r.batDau)
  BY DEF IInv, Ledger
<1>5. RowsGo((rows \ {old}) \cup {q})
  BY <1>1, <1>2, <1>4 DEF RowsGo
<1> QED BY <1>1, <1>3, <1>5

\* A job that ends is in the ledger of runs or in that of silent jobs.
LEMMA SilenceTells ==
  ASSUME IInv, NEW m \in Message, Silence(m)
  PROVE  /\ silent \subseteq silent' /\ silent' \subseteq Backfills \X Scopes
         /\ m.owner \in Backfills => Covered(m.owner, m.scope)'
<1>1. m.owner \in Backfills \cup {Background} /\ m.scope \in Scopes /\ silent \subseteq Backfills \X Scopes
  BY DEF IInv, Rest, Message, Owners
<1>2. CASE m.owner = Background \/ \E r \in rows' : r.owner = m.owner /\ r.scope = m.scope
  BY <1>1, <1>2, Numbers DEF Silence, Covered
<1>3. CASE ~(m.owner = Background \/ \E r \in rows' : r.owner = m.owner /\ r.scope = m.scope)
  <2>1. silent' = silent \cup {<<m.owner, m.scope>>} /\ m.owner \in Backfills
    BY <1>1, <1>3 DEF Silence
  <2> QED BY <1>1, <2>1 DEF Covered
<1> QED BY <1>2, <1>3

-----------------------------------------------------------------------------
(***************************************************************************)
(* Jobs                                                                    *)
(***************************************************************************)
LEMMA RowsGoIn ==
  ASSUME UNCHANGED <<post, asked>>, RowsGo(rows')
  PROVE  /\ Ledger'
         /\ \A r \in rows : \E q \in rows' : q.owner = r.owner /\ q.scope = r.scope
         /\ \A r \in rows : r.trangThai = "completed" => r \in rows'
<1>1. \A b, t : Starts(b, t) => Starts(b, t)'
  BY SameRequestsGoOn, StaysFine
<1> QED BY <1>1 DEF RowsGo, Ledger

\* Whatever a worker does, its own message is all that can leave the flight.
LEMMA OthersFly ==
  ASSUME NEW w \in Workers, NEW x,
         worker = [v \in Workers |-> worker[v]], worker' = [worker EXCEPT ![w] = x],
         BagToSet(queue) \subseteq BagToSet(queue')
  PROVE  /\ \A m \in InFlight : m \in InFlight' \/ (~At(w, "idle") /\ m = worker[w].msg)
         /\ BagToSet(queue') \subseteq InFlight'
         /\ x.pc # "idle" => x.msg \in InFlight'
<1>1. \A v \in Workers : v # w => worker'[v] = worker[v]
  OBVIOUS
<1>2. worker'[w] = x
  OBVIOUS
<1>3. BagToSet(queue') \subseteq InFlight'
  BY DEF InFlight
<1>4. x.pc # "idle" => x.msg \in InFlight'
  BY <1>2 DEF InFlight, At
<1>5. ASSUME NEW m \in InFlight, ~(~At(w, "idle") /\ m = worker[w].msg) PROVE m \in InFlight'
  <2>1. CASE m \in BagToSet(queue)
    BY <1>3, <2>1
  <2>2. CASE m \in {worker[v].msg : v \in {u \in Workers : ~At(u, "idle")}}
    <3>1. PICK v \in Workers : ~At(v, "idle") /\ m = worker[v].msg
      BY <2>2
    <3>2. v # w
      BY <1>5, <3>1
    <3>3. ~At(v, "idle")' /\ worker'[v].msg = m
      BY <1>1, <3>1, <3>2 DEF At
    <3> QED BY <3>3 DEF InFlight
  <2> QED BY <2>1, <2>2 DEF InFlight
<1> QED BY <1>3, <1>4, <1>5

\* A worker goes on or ends, and its message is accounted for.
LEMMA WorkerStep ==
  ASSUME IInv, UNCHANGED <<now, pages, syncs>>, Sessions', NEW w \in Workers, NEW x,
         worker' = [worker EXCEPT ![w] = x], WorkerFine(x),
         Messages', BagToSet(queue) \subseteq BagToSet(queue'), RowsGo(rows'),
         silent \subseteq silent', silent' \subseteq Backfills \X Scopes,
         ~At(w, "idle") =>
           \A m : m = worker[w].msg /\ m.owner \in Backfills => Covered(m.owner, m.scope)'
  PROVE  IInv'
<1>1. UNCHANGED <<post, asked>>
  BY DEF pages
<1>2. worker = [v \in Workers |-> worker[v]] /\ \A v \in Workers : WorkerFine(worker[v])
  BY DEF IInv, Consumers
<1>3. Consumers'
  <2>1. \A v \in Workers : \E y : y = worker'[v] /\ WorkerFine(y)
    BY <1>2
  <2>2. \A v \in Workers : \E y : y = worker'[v] /\ WorkerFine(y)'
    BY <1>1, <2>1, SameRequestsGoOn, StaysFine
  <2>3. worker' = [v \in Workers |-> worker'[v]]
    BY <1>2
  <2> QED BY <2>2, <2>3 DEF Consumers
<1>4. /\ Ledger'
      /\ \A r \in rows : \E q \in rows' : q.owner = r.owner /\ q.scope = r.scope
      /\ \A r \in rows : r.trangThai = "completed" => r \in rows'
  BY <1>1, RowsGoIn
<1>5. \A m \in InFlight : m \in InFlight' \/ (~At(w, "idle") /\ m = worker[w].msg)
  BY <1>2, OthersFly
<1>6. ASSUME NEW b \in Backfills, NEW s, Covered(b, s) PROVE Covered(b, s)'
  <2>1. CASE \E m \in InFlight : m.owner = b /\ m.scope = s
    BY <1>5, <2>1 DEF Covered
  <2>2. CASE \E r \in rows : r.owner = b /\ r.scope = s
    BY <1>4, <2>2 DEF Covered
  <2>3. CASE <<b, s>> \in silent
    BY <2>3 DEF Covered
  <2> QED BY <1>6, <2>1, <2>2, <2>3 DEF Covered
<1>7. Requests' /\ DoneIsComplete'
  <2>1. UNCHANGED <<now, post, asked, created, page>>
    BY DEF pages
  <2>2. Requests'
    BY <2>1 DEF IInv, Requests, Sent
  <2>3. DoneIsComplete'
    BY <1>4, <2>1 DEF IInv, DoneIsComplete
  <2> QED BY <2>2, <2>3
<1>8. Followed'
  <2>1. UNCHANGED <<post, created>>
    BY DEF pages
  <2> QED BY <1>6, <2>1 DEF IInv, Followed
<1>9. Rest'
  BY DEF IInv, Rest
<1> QED BY <1>3, <1>4, <1>7, <1>8, <1>9 DEF IInv

LEMMA IdleFine == WorkerFine(Idle) /\ Idle.pc = "idle"
BY DEF WorkerFine, Idle

LEMMA QueueStays ==
  ASSUME IInv, UNCHANGED <<queue, post, asked>>
  PROVE  Messages' /\ BagToSet(queue) \subseteq BagToSet(queue')
BY SameRequestsGoOn, StaysFine DEF IInv, Messages

LEMMA QueueGets ==
  ASSUME IInv, UNCHANGED <<post, asked>>, NEW m \in Message, Due(m), SendBack(m)
  PROVE  /\ Messages' /\ BagToSet(queue) \subseteq BagToSet(queue')
         /\ m \in BagToSet(queue')
<1>1. IsABag(queue) /\ queue' = queue (+) SetToBag({m})
  BY DEF SendBack, IInv, Messages
<1>2. IsABag(queue') /\ BagToSet(queue') = BagToSet(queue) \cup {m}
  BY <1>1, AddFacts
<1>3. \A n \in BagToSet(queue') : n \in Message /\ Due(n)'
  BY <1>2, SameRequestsGoOn, StaysFine DEF IInv, Messages
<1> QED BY <1>2, <1>3 DEF Messages

\* A worker ends and its job is known by a run.
LEMMA EndsRecorded ==
  ASSUME IInv, UNCHANGED <<now, pages, syncs>>, Sessions', NEW w \in Workers, Done(w),
         UNCHANGED <<queue, silent>>, RowsGo(rows'),
         \E r \in rows' : r.owner = worker[w].msg.owner /\ r.scope = worker[w].msg.scope
  PROVE  IInv'
<1>1. UNCHANGED <<post, asked>> /\ worker' = [worker EXCEPT ![w] = Idle]
  BY DEF pages, Done
<1>2. Messages' /\ BagToSet(queue) \subseteq BagToSet(queue')
  BY <1>1, QueueStays
<1>3. ASSUME NEW m, m = worker[w].msg PROVE Covered(m.owner, m.scope)'
  BY <1>3 DEF Covered
<1>4. silent \subseteq silent' /\ silent' \subseteq Backfills \X Scopes
  BY DEF IInv, Rest
<1> QED BY <1>1, <1>2, <1>3, <1>4, IdleFine, WorkerStep

\* The message of a worker comes back, or is given up.
LEMMA PutBackKeeps ==
  ASSUME IInv, UNCHANGED <<now, pages, syncs>>, Sessions', NEW w \in Workers,
         NEW m \in Message, Due(m), NEW R, RowsGo(R), PutBack(w, m, R),
         m.owner = worker[w].msg.owner, m.scope = worker[w].msg.scope
  PROVE  IInv'
<1>1. UNCHANGED <<post, asked>> /\ worker' = [worker EXCEPT ![w] = Idle]
  BY DEF pages, PutBack, Done
<1>2. silent \subseteq Backfills \X Scopes
  BY DEF IInv, Rest
<1>3. CASE /\ m.tries < MaxRetries
           /\ SendBack([m EXCEPT !.tries = @ + 1])
           /\ rows' = R
           /\ UNCHANGED silent
  <2> DEFINE n == [m EXCEPT !.tries = @ + 1]
  <2>1. n \in Message /\ n.owner = m.owner /\ n.scope = m.scope
        /\ n.kind = m.kind /\ n.batDau = m.batDau
    BY <1>3, Numbers DEF Message
  <2>2. Due(n)
    BY <2>1 DEF Due
  <2>3. SendBack(n)
    BY <1>3
  <2> HIDE DEF n
  <2>4. /\ Messages' /\ BagToSet(queue) \subseteq BagToSet(queue')
        /\ n \in BagToSet(queue')
    BY <1>1, <2>1, <2>2, <2>3, QueueGets
  <2>5. n \in InFlight'
    BY <2>4 DEF InFlight
  <2>6. Covered(m.owner, m.scope)'
    BY <2>1, <2>5 DEF Covered
  <2>7. RowsGo(rows') /\ silent \subseteq silent' /\ silent' \subseteq Backfills \X Scopes
    BY <1>2, <1>3
  <2>8. \A k : k = worker[w].msg /\ k.owner \in Backfills => Covered(k.owner, k.scope)'
    BY <2>6
  <2> QED BY <1>1, <2>4, <2>7, <2>8, IdleFine, WorkerStep
<1>4. CASE /\ m.tries = MaxRetries
           /\ rows' = IF m.kind = "delta" THEN Closed(m, "failed") ELSE R
           /\ Silence(m)
           /\ UNCHANGED queue
  <2>1. RowsGo(rows')
    <3>1. CASE m.kind = "delta"
      <4>1. Starts(m.owner, m.batDau)
        BY <3>1 DEF Due, Starts
      <4> QED BY <1>4, <3>1, <4>1, ClosedGoes DEF States
    <3>2. CASE m.kind # "delta"
      BY <1>4, <3>2
    <3> QED BY <3>1, <3>2
  <2>2. /\ silent \subseteq silent' /\ silent' \subseteq Backfills \X Scopes
        /\ m.owner \in Backfills => Covered(m.owner, m.scope)'
    BY <1>4, SilenceTells
  <2>3. Messages' /\ BagToSet(queue) \subseteq BagToSet(queue')
    BY <1>1, <1>4, QueueStays
  <2>4. \A k : k = worker[w].msg /\ k.owner \in Backfills => Covered(k.owner, k.scope)'
    BY <2>2
  <2> QED BY <1>1, <2>1, <2>2, <2>3, <2>4, IdleFine, WorkerStep
<1> QED BY <1>3, <1>4 DEF PutBack

LEMMA ReauthenticateKeeps ==
  ASSUME IInv, UNCHANGED <<now, pages, syncs, account, live, granted, login>>,
         NEW w \in Workers, worker[w].msg \in Message,
         NEW R, RowsGo(R), Reauthenticate(w, R)
  PROVE  IInv'
<1> DEFINE m == worker[w].msg
<1>1. /\ vault' = 0 /\ rows' = R /\ Silence(m) /\ UNCHANGED queue
      /\ worker' = [worker EXCEPT ![w] = Idle]
  BY DEF Reauthenticate, Done
<1>2. Sessions'
  BY <1>1 DEF IInv, Sessions
<1>3. UNCHANGED <<post, asked>>
  BY DEF pages
<1>4. m \in Message
  OBVIOUS
<1>5. /\ silent \subseteq silent' /\ silent' \subseteq Backfills \X Scopes
      /\ \A k : k = m /\ k.owner \in Backfills => Covered(k.owner, k.scope)'
  <2>1. PICK k \in Message : k = m
    BY <1>4
  <2>2. Silence(k)
    BY <1>1, <2>1 DEF Silence
  <2> HIDE DEF m
  <2> QED BY <2>1, <2>2, SilenceTells
<1>6. Messages' /\ BagToSet(queue) \subseteq BagToSet(queue')
  BY <1>1, <1>3, QueueStays
<1> QED BY <1>1, <1>2, <1>5, <1>6, IdleFine, WorkerStep

LEMMA WorkerFacts ==
  ASSUME IInv, NEW w \in Workers
  PROVE  /\ WorkerFine(worker[w]) /\ now \in 0..MaxTime
         /\ ~At(w, "idle") => worker[w].msg \in Message /\ Due(worker[w].msg)
BY DEF IInv, Consumers, Requests, WorkerFine, At

\* What a job that may run begins now began after its batch.
LEMMA BeginsNow == ASSUME IInv, NEW m \in Message, Due(m) PROVE Starts(m.owner, now)
BY DEF IInv, Requests, Due, Starts

LEMMA TakeKeeps == ASSUME IInv, NEW w \in Workers, Take(w) PROVE IInv'
<1>1. UNCHANGED <<now, pages, syncs, post, asked>> /\ Sessions' /\ At(w, "idle")
  BY DEF Take, pages, sessions, IInv, Sessions
<1>2. PICK m \in BagToSet(queue) :
         /\ queue' = queue (-) SetToBag({m})
         /\ \/ /\ m.kind = "audit" /\ Running(m.scope)
               /\ UNCHANGED <<worker, rows>>
               /\ Silence(m)
            \/ /\ ~(m.kind = "audit" /\ Running(m.scope))
               /\ worker' = [worker EXCEPT ![w] = [pc |-> "preflight", msg |-> m]]
               /\ UNCHANGED <<rows, silent>>
  BY DEF Take
<1>3. /\ IsABag(queue') /\ BagToSet(queue') \subseteq BagToSet(queue)
      /\ BagToSet(queue) \ {m} \subseteq BagToSet(queue')
  BY <1>2, TakeFacts DEF IInv, Messages
<1>4. m \in Message /\ Due(m) /\ m.owner \in Owners
  BY <1>2 DEF IInv, Messages, Message
<1>5. Messages'
  BY <1>1, <1>3, SameRequestsGoOn, StaysFine DEF IInv, Messages
<1>6. /\ \A v \in Workers : WorkerFine(worker[v])
      /\ worker = [v \in Workers |-> worker[v]] /\ silent \subseteq Backfills \X Scopes
  BY DEF IInv, Consumers, Rest
<1>7. rows' = rows /\ Ledger'
  <2>1. rows' = rows
    BY <1>2
  <2> QED BY <1>1, <2>1, RowsStayGo, RowsGoIn
<1>8. /\ Consumers' /\ silent \subseteq silent' /\ silent' \subseteq Backfills \X Scopes
      /\ \A k \in InFlight : k \in InFlight' \/ k = m
      /\ m.owner \in Backfills => Covered(m.owner, m.scope)'
  <2>1. CASE UNCHANGED <<worker, rows>> /\ Silence(m)
    <3>1. Consumers'
      BY <1>1, <1>6, <2>1, SameRequestsGoOn, StaysFine DEF Consumers
    <3>2. \A k \in InFlight : k \in InFlight' \/ k = m
      BY <1>3, <2>1 DEF InFlight, At
    <3> QED BY <1>4, <2>1, <3>1, <3>2, SilenceTells
  <2>2. CASE /\ worker' = [worker EXCEPT ![w] = [pc |-> "preflight", msg |-> m]]
             /\ UNCHANGED <<rows, silent>>
    <3> DEFINE x == [pc |-> "preflight", msg |-> m]
    <3>1. WorkerFine(x) /\ x.pc = "preflight" /\ x.msg = m
      BY <1>4 DEF WorkerFine
    <3>2. worker' = [worker EXCEPT ![w] = x]
      BY <2>2
    <3> HIDE DEF x
    <3>3. \A v \in Workers : \E y : y = worker'[v] /\ WorkerFine(y)
      BY <1>6, <3>1, <3>2
    <3>4. \A v \in Workers : \E y : y = worker'[v] /\ WorkerFine(y)'
      BY <1>1, <3>3, SameRequestsGoOn, StaysFine
    <3>5. worker' = [v \in Workers |-> worker'[v]]
      BY <1>6, <3>2
    <3>6. Consumers'
      BY <3>4, <3>5 DEF Consumers
    <3>7. worker'[w] = x /\ \A v \in Workers : v # w => worker'[v] = worker[v]
      BY <1>6, <3>2
    <3>8. m \in InFlight'
      BY <3>1, <3>7 DEF InFlight, At
    <3>9. ASSUME NEW k \in InFlight, k # m PROVE k \in InFlight'
      <4>1. CASE k \in BagToSet(queue)
        BY <1>3, <3>9, <4>1 DEF InFlight
      <4>2. CASE k \in {worker[v].msg : v \in {u \in Workers : ~At(u, "idle")}}
        <5>1. PICK v \in Workers : ~At(v, "idle") /\ k = worker[v].msg
          BY <4>2
        <5>2. ~At(v, "idle")' /\ worker'[v].msg = k
          BY <1>1, <3>7, <5>1 DEF At
        <5> QED BY <5>2 DEF InFlight
      <4> QED BY <4>1, <4>2 DEF InFlight
    <3>10. Covered(m.owner, m.scope)'
      BY <3>8 DEF Covered
    <3> QED BY <1>6, <2>2, <3>6, <3>9, <3>10
  <2> QED BY <1>2, <2>1, <2>2
<1>9. ASSUME NEW b \in Backfills, NEW s, Covered(b, s) PROVE Covered(b, s)'
  <2>1. CASE \E k \in InFlight : k.owner = b /\ k.scope = s
    <3>1. PICK k \in InFlight : k.owner = b /\ k.scope = s
      BY <2>1
    <3>2. k \in InFlight' \/ k = m
      BY <1>8, <3>1
    <3>3. CASE k \in InFlight'
      BY <3>1, <3>3 DEF Covered
    <3>4. CASE k = m
      BY <1>8, <1>9, <3>1, <3>4
    <3> QED BY <3>2, <3>3, <3>4
  <2>2. CASE \E r \in rows : r.owner = b /\ r.scope = s
    BY <1>7, <2>2 DEF Covered
  <2>3. CASE <<b, s>> \in silent
    BY <1>8, <2>3 DEF Covered
  <2> QED BY <1>9, <2>1, <2>2, <2>3 DEF Covered
<1>10. Requests' /\ DoneIsComplete' /\ Followed'
  <2>1. UNCHANGED <<now, post, asked, created, page>>
    BY <1>1 DEF pages
  <2>2. Requests'
    BY <2>1 DEF IInv, Requests, Sent
  <2>3. DoneIsComplete'
    BY <1>7, <2>1 DEF IInv, DoneIsComplete
  <2>4. Followed'
    BY <1>9, <2>1 DEF IInv, Followed
  <2> QED BY <2>2, <2>3, <2>4
<1>11. Rest'
  BY <1>1, <1>8 DEF IInv, Rest
<1> QED BY <1>1, <1>5, <1>7, <1>8, <1>10, <1>11 DEF IInv

LEMMA PreflightKeeps == ASSUME IInv, NEW w \in Workers, Preflight(w) PROVE IInv'
<1>1. UNCHANGED <<now, pages, syncs, post, asked>> /\ Sessions' /\ ~At(w, "idle")
  BY DEF Preflight, pages, sessions, IInv, Sessions, At
<1>2. PICK m \in Message : m = worker[w].msg
  BY <1>1, WorkerFacts
<1>3. Due(m) /\ Starts(m.owner, now) /\ now \in 0..MaxTime
  BY <1>1, <1>2, WorkerFacts, BeginsNow
<1> DEFINE told == Record(m, "sync", "can_dang_nhap_lai", now)
           R == IF m.kind = "delta" THEN Closed(m, "can_dang_nhap_lai") ELSE rows
<1>4. CASE rows' = R \cup {told} /\ Done(w) /\ UNCHANGED <<queue, silent>>
  <2>1. RowsGo(R)
    <3>1. CASE m.kind = "delta"
      <4>1. Starts(m.owner, m.batDau)
        BY <1>3, <3>1 DEF Due, Starts
      <4> QED BY <3>1, <4>1, ClosedGoes DEF States
    <3>2. CASE m.kind # "delta"
      BY <3>2, RowsStayGo
    <3> QED BY <3>1, <3>2
  <2> HIDE DEF R
  <2>2. /\ RowsGo(R \cup {told})
        /\ \E r \in R \cup {told} : r.owner = m.owner /\ r.scope = m.scope
    BY <1>3, <2>1, RecordGoes DEF States
  <2> HIDE DEF told
  <2> QED BY <1>1, <1>2, <1>4, <2>2, EndsRecorded
<1>5. CASE /\ worker' = [worker EXCEPT ![w] =
                           [pc |-> "work", msg |-> m, token |-> vault, batDau |-> now]]
           /\ UNCHANGED <<queue, rows, silent>>
  <2> DEFINE x == [pc |-> "work", msg |-> m, token |-> vault, batDau |-> now]
  <2>1. WorkerFine(x) /\ x.msg = m /\ x.pc # "idle"
    BY <1>2, <1>3 DEF WorkerFine
  <2>2. worker' = [worker EXCEPT ![w] = x]
    BY <1>5
  <2> HIDE DEF x
  <2>3. /\ Messages' /\ BagToSet(queue) \subseteq BagToSet(queue')
        /\ RowsGo(rows') /\ silent \subseteq silent' /\ silent' \subseteq Backfills \X Scopes
    BY <1>1, <1>5, QueueStays, RowsStayGo DEF IInv, Rest
  <2>4. Covered(m.owner, m.scope)'
    <3>1. m \in InFlight'
      BY <2>1, <2>2, <2>3, OthersFly DEF IInv, Consumers
    <3> QED BY <3>1 DEF Covered
  <2> QED BY <1>1, <1>2, <2>1, <2>2, <2>3, <2>4, WorkerStep
<1>6. CASE PutBack(w, m, rows)
  BY <1>1, <1>2, <1>3, <1>6, RowsStayGo, PutBackKeeps
<1> QED BY <1>2, <1>4, <1>5, <1>6 DEF Preflight

\* The start of an action of a worker that has a session in hand.
LEMMA AtWork ==
  ASSUME IInv, NEW w \in Workers, At(w, "work"),
         UNCHANGED <<now, account, live, granted, login, pages, syncs>>
  PROVE  /\ UNCHANGED <<now, pages, syncs, post, asked>> /\ ~At(w, "idle")
         /\ UNCHANGED vault => Sessions'
         /\ worker[w].msg \in Message /\ Due(worker[w].msg)
         /\ worker[w].batDau \in 0..MaxTime /\ Starts(worker[w].msg.owner, worker[w].batDau)
<1>1. UNCHANGED <<post, asked>>
  BY DEF pages
<1>2. UNCHANGED vault => Sessions'
  BY DEF IInv, Sessions
<1>3. WorkerFine(worker[w]) /\ worker[w].pc = "work"
  BY WorkerFacts DEF At
<1> QED BY <1>1, <1>2, <1>3 DEF WorkerFine, At

LEMMA AuditKeeps == ASSUME IInv, NEW w \in Workers, Audit(w) PROVE IInv'
<1>1. UNCHANGED <<now, account, live, granted, login, pages, syncs>> /\ At(w, "work")
  BY DEF Audit, Working
<1>2. /\ UNCHANGED <<post, asked>> /\ ~At(w, "idle")
      /\ UNCHANGED vault => Sessions'
      /\ worker[w].msg \in Message /\ Due(worker[w].msg) /\ worker[w].msg.kind = "audit"
  BY <1>1, AtWork DEF Audit, Working
<1>3. PICK m \in Message : m = worker[w].msg
  BY <1>2
<1>4. Due(m) /\ Starts(m.owner, now) /\ now \in 0..MaxTime /\ m.kind = "audit"
  BY <1>2, <1>3, WorkerFacts, BeginsNow
<1>5. \/ Reauthenticate(w, rows)
      \/ /\ UNCHANGED vault
         /\ \/ /\ rows' = rows \cup {Record(m, "audit", "completed", now)}
               /\ Done(w)
               /\ UNCHANGED <<queue, silent>>
            \/ /\ rows' = rows \cup {Record(m, "sync", "running", now)}
               /\ worker' = [worker EXCEPT ![w] =
                               [pc |-> "send", msg |-> [m EXCEPT !.batDau = now]]]
               /\ UNCHANGED <<queue, silent>>
            \/ PutBack(w, m, rows)
  BY <1>3 DEF Audit
<1>6. CASE Reauthenticate(w, rows)
  BY <1>1, <1>2, <1>6, RowsStayGo, ReauthenticateKeeps
<1>7. CASE /\ UNCHANGED vault
           /\ rows' = rows \cup {Record(m, "audit", "completed", now)}
           /\ Done(w)
           /\ UNCHANGED <<queue, silent>>
  <2> DEFINE q == Record(m, "audit", "completed", now)
  <2>1. /\ RowsGo(rows \cup {q})
        /\ \E r \in rows \cup {q} : r.owner = m.owner /\ r.scope = m.scope
    BY <1>4, RowsStayGo, RecordGoes DEF States
  <2>2. rows' = rows \cup {q}
    BY <1>7
  <2> HIDE DEF q
  <2> QED BY <1>1, <1>2, <1>3, <1>7, <2>1, <2>2, EndsRecorded
<1>8. CASE /\ UNCHANGED vault
           /\ rows' = rows \cup {Record(m, "sync", "running", now)}
           /\ worker' = [worker EXCEPT ![w] =
                           [pc |-> "send", msg |-> [m EXCEPT !.batDau = now]]]
           /\ UNCHANGED <<queue, silent>>
  <2> DEFINE q == Record(m, "sync", "running", now)
             n == [m EXCEPT !.batDau = now]
             x == [pc |-> "send", msg |-> n]
  <2>1. RowsGo(rows \cup {q})
    BY <1>4, RowsStayGo, RecordGoes DEF States
  <2>2. n \in Message /\ n.owner = m.owner /\ n.scope = m.scope
        /\ n.kind = "audit" /\ n.batDau = now
    BY <1>4 DEF Message
  <2>3. rows' = rows \cup {q} /\ worker' = [worker EXCEPT ![w] = x]
    BY <1>8
  <2> HIDE DEF q, n
  <2>4. WorkerFine(x) /\ x.msg = n /\ x.pc # "idle"
    BY <1>4, <2>2 DEF WorkerFine, Due
  <2> HIDE DEF x
  <2>5. /\ Messages' /\ BagToSet(queue) \subseteq BagToSet(queue')
        /\ silent \subseteq silent' /\ silent' \subseteq Backfills \X Scopes
    BY <1>2, <1>8, QueueStays DEF IInv, Rest
  <2>6. Covered(m.owner, m.scope)'
    <3>1. n \in InFlight'
      BY <2>3, <2>4, <2>5, OthersFly DEF IInv, Consumers
    <3> QED BY <2>2, <3>1 DEF Covered
  <2>7. RowsGo(rows') /\ Sessions'
    BY <1>2, <1>8, <2>1, <2>3
  <2> QED BY <1>1, <1>3, <2>3, <2>4, <2>5, <2>6, <2>7, WorkerStep
<1>9. CASE UNCHANGED vault /\ PutBack(w, m, rows)
  BY <1>1, <1>2, <1>3, <1>4, <1>9, RowsStayGo, PutBackKeeps
<1> QED BY <1>5, <1>6, <1>7, <1>8, <1>9

LEMMA SendKeeps == ASSUME IInv, NEW w \in Workers, Send(w) PROVE IInv'
<1>1. UNCHANGED <<now, pages, syncs, post, asked>> /\ Sessions' /\ ~At(w, "idle")
  BY DEF Send, pages, sessions, IInv, Sessions, At
<1>2. PICK m \in Message : m = worker[w].msg
  BY <1>1, WorkerFacts
<1>3. m.kind = "audit" /\ Due(m) /\ Starts(m.owner, m.batDau)
  BY <1>1, <1>2, WorkerFacts DEF WorkerFine, Send, At
<1>4. CASE /\ SendBack([m EXCEPT !.kind = "delta", !.tries = 0])
           /\ Done(w)
           /\ UNCHANGED <<rows, silent>>
  <2> DEFINE n == [m EXCEPT !.kind = "delta", !.tries = 0]
  <2>1. n \in Message /\ n.owner = m.owner /\ n.scope = m.scope
        /\ n.kind = "delta" /\ n.batDau = m.batDau
    <3> DEFINE k == [m EXCEPT !.kind = "delta"]
    <3>1. n = [k EXCEPT !.tries = 0]
      OBVIOUS
    <3>2. k \in Message /\ k.owner = m.owner /\ k.scope = m.scope
          /\ k.kind = "delta" /\ k.batDau = m.batDau
      BY DEF Message
    <3> HIDE DEF n, k
    <3> QED BY <3>1, <3>2, Numbers DEF Message
  <2>2. SendBack(n)
    BY <1>4
  <2> HIDE DEF n
  <2>3. Due(n)
    BY <1>3, <2>1 DEF Due, Starts
  <2>4. /\ Messages' /\ BagToSet(queue) \subseteq BagToSet(queue')
        /\ n \in BagToSet(queue')
    BY <1>1, <2>1, <2>2, <2>3, QueueGets
  <2>5. Covered(m.owner, m.scope)'
    <3>1. n \in InFlight'
      BY <2>4 DEF InFlight
    <3> QED BY <2>1, <3>1 DEF Covered
  <2>6. RowsGo(rows') /\ silent \subseteq silent' /\ silent' \subseteq Backfills \X Scopes
    BY <1>4, RowsStayGo DEF IInv, Rest
  <2>7. worker' = [worker EXCEPT ![w] = Idle]
    BY <1>4 DEF Done
  <2> QED BY <1>1, <1>2, <2>4, <2>5, <2>6, <2>7, IdleFine, WorkerStep
<1>5. CASE PutBack(w, [m EXCEPT !.batDau = 0], Closed(m, "failed"))
  <2> DEFINE n == [m EXCEPT !.batDau = 0]
  <2>1. n \in Message /\ n.owner = m.owner /\ n.scope = m.scope /\ n.kind = m.kind
    BY Numbers DEF Message
  <2>2. PutBack(w, n, Closed(m, "failed"))
    BY <1>5
  <2> HIDE DEF n
  <2>3. Due(n)
    BY <1>3, <2>1 DEF Due
  <2>4. RowsGo(Closed(m, "failed"))
    BY <1>3, ClosedGoes DEF States
  <2> QED BY <1>1, <1>2, <2>1, <2>2, <2>3, <2>4, PutBackKeeps
<1> QED BY <1>2, <1>4, <1>5 DEF Send

LEMMA PullKeeps == ASSUME IInv, NEW w \in Workers, Pull(w) PROVE IInv'
<1>1. UNCHANGED <<now, account, live, granted, login, pages, syncs>> /\ At(w, "work")
  BY DEF Pull, Working
<1>2. /\ UNCHANGED <<post, asked>> /\ ~At(w, "idle")
      /\ UNCHANGED vault => Sessions'
      /\ worker[w].msg \in Message /\ Due(worker[w].msg) /\ worker[w].msg.kind = "delta"
  BY <1>1, AtWork DEF Pull, Working
<1>3. PICK m \in Message : m = worker[w].msg
  BY <1>2
<1>4. Due(m) /\ Starts(m.owner, m.batDau)
  BY <1>2, <1>3 DEF Due, Starts
<1>5. \A state \in States :
        /\ RowsGo(Closed(m, state))
        /\ \E r \in Closed(m, state) : r.owner = m.owner /\ r.scope = m.scope
  BY <1>4, ClosedGoes
<1>6. \/ Reauthenticate(w, Closed(m, "can_dang_nhap_lai"))
      \/ /\ UNCHANGED vault
         /\ \/ /\ \E state \in {"completed", "failed"} : rows' = Closed(m, state)
               /\ Done(w)
               /\ UNCHANGED <<queue, silent>>
            \/ PutBack(w, m, rows)
  BY <1>3 DEF Pull
<1>7. CASE Reauthenticate(w, Closed(m, "can_dang_nhap_lai"))
  BY <1>1, <1>2, <1>5, <1>7, ReauthenticateKeeps DEF States
<1>8. CASE /\ UNCHANGED vault
           /\ \E state \in {"completed", "failed"} : rows' = Closed(m, state)
           /\ Done(w)
           /\ UNCHANGED <<queue, silent>>
  <2>1. RowsGo(rows') /\ \E r \in rows' : r.owner = m.owner /\ r.scope = m.scope
    BY <1>5, <1>8 DEF States
  <2> QED BY <1>1, <1>2, <1>3, <1>8, <2>1, EndsRecorded
<1>9. CASE UNCHANGED vault /\ PutBack(w, m, rows)
  BY <1>1, <1>2, <1>3, <1>4, <1>9, RowsStayGo, PutBackKeeps
<1> QED BY <1>6, <1>7, <1>8, <1>9

LEMMA HeaderKeeps == ASSUME IInv, NEW w \in Workers, Header(w) PROVE IInv'
<1>1. UNCHANGED <<now, account, live, granted, login, pages, syncs>> /\ At(w, "work")
  BY DEF Header, Working
<1>2. /\ UNCHANGED <<post, asked>> /\ ~At(w, "idle")
      /\ UNCHANGED vault => Sessions'
      /\ worker[w].msg \in Message /\ Due(worker[w].msg)
      /\ worker[w].batDau \in 0..MaxTime /\ Starts(worker[w].msg.owner, worker[w].batDau)
  BY <1>1, AtWork
<1>3. PICK m \in Message : m = worker[w].msg
  BY <1>2
<1>4. PICK t \in 0..MaxTime : t = worker[w].batDau
  BY <1>2
<1>5. Due(m) /\ Starts(m.owner, t)
  BY <1>2, <1>3, <1>4
<1> DEFINE with(state) == rows \cup {Record(m, "sync", state, t)}
<1>6. \A state \in States :
        /\ RowsGo(with(state))
        /\ \E r \in with(state) : r.owner = m.owner /\ r.scope = m.scope
  BY <1>5, RowsStayGo, RecordGoes
<1>7. \/ Reauthenticate(w, with("failed"))
      \/ /\ UNCHANGED vault
         /\ \/ /\ rows' = with("completed")
               /\ Done(w)
               /\ UNCHANGED <<queue, silent>>
            \/ PutBack(w, m, with("failed"))
            \/ PutBack(w, m, with("completed"))
  BY <1>3, <1>4 DEF Header
<1> HIDE DEF with
<1>8. RowsGo(with("failed")) /\ RowsGo(with("completed"))
      /\ \E r \in with("completed") : r.owner = m.owner /\ r.scope = m.scope
  BY <1>6 DEF States
<1>9. CASE Reauthenticate(w, with("failed"))
  BY <1>1, <1>2, <1>8, <1>9, ReauthenticateKeeps
<1>10. CASE UNCHANGED vault /\ rows' = with("completed") /\ Done(w) /\ UNCHANGED <<queue, silent>>
  BY <1>1, <1>2, <1>3, <1>8, <1>10, EndsRecorded
<1>11. CASE UNCHANGED vault /\ PutBack(w, m, with("failed"))
  BY <1>1, <1>2, <1>3, <1>5, <1>8, <1>11, PutBackKeeps
<1>12. CASE UNCHANGED vault /\ PutBack(w, m, with("completed"))
  BY <1>1, <1>2, <1>3, <1>5, <1>8, <1>12, PutBackKeeps
<1> QED BY <1>7, <1>9, <1>10, <1>11, <1>12

-----------------------------------------------------------------------------
(***************************************************************************)
(* The invariant                                                           *)
(***************************************************************************)
LEMMA InitSound == Init => IInv
<1> SUFFICES ASSUME Init PROVE IInv
  OBVIOUS
<1>1. Sessions /\ Requests
  BY Numbers DEF Init, Sessions, Requests, NotCreated, Sent
<1>2. Messages
  BY EmptyFacts DEF Init, Messages
<1>3. Consumers
  BY IdleFine DEF Init, Consumers
<1>4. Ledger /\ Rest
  BY Numbers DEF Init, Ledger, Rest
<1>5. Followed
  BY DEF Init, Followed
<1>6. DoneIsComplete
  BY DEF Init, DoneIsComplete
<1> QED BY <1>1, <1>2, <1>3, <1>4, <1>5, <1>6 DEF IInv

LEMMA StutterSound == ASSUME IInv, UNCHANGED vars PROVE IInv'
<1>1. UNCHANGED <<now, pages, jobs, syncs, sessions>>
  BY DEF vars
<1>2. UNCHANGED <<post, asked, account, vault, live, granted, login, rows, silent>>
  BY <1>1 DEF pages, jobs, sessions
<1>3. /\ Messages' /\ Consumers' /\ Ledger'
      /\ \A b, s : Covered(b, s) => Covered(b, s)'
  BY <1>1, <1>2, SameRequestsGoOn, JobsStay
<1>4. Requests' /\ Followed' /\ DoneIsComplete'
  BY <1>1, <1>2, <1>3, PagesStay
<1>5. Sessions' /\ Rest'
  BY <1>1, <1>2 DEF IInv, Sessions, Rest
<1> QED BY <1>3, <1>4, <1>5 DEF IInv

LEMMA NextSound == ASSUME IInv, [Next]_vars PROVE IInv'
<1>1. CASE Connecting
  BY <1>1, ConnectingKeeps
<1>2. CASE SyncNow \/ Cron
  BY <1>2, BackgroundKeeps
<1>3. CASE Tick
  BY <1>3, TickKeeps
<1>4. CASE \E b \in Backfills : Press(b) \/ Request(b) \/ Poll(b)
  BY <1>4, PressKeeps, EnqueueKeeps, TrackerKeeps, PollKeeps DEF Request
<1>5. CASE \E w \in Workers : Job(w)
  BY <1>5, TakeKeeps, PreflightKeeps, AuditKeeps, SendKeeps, PullKeeps, HeaderKeeps DEF Job
<1>6. CASE UNCHANGED vars
  BY <1>6, StutterSound
<1> QED BY <1>1, <1>2, <1>3, <1>4, <1>5, <1>6 DEF Next

\* The invariant holds, whatever the pages ask and the jobs meet.
THEOREM Invariance == Spec => []IInv
<1>1. Init => IInv
  BY InitSound
<1>2. IInv /\ [Next]_vars => IInv'
  BY NextSound
<1> QED BY <1>1, <1>2, PTL DEF Spec

\* The tables are well-formed, and a tracker that can be followed has every
\* month and direction under way or told of (POST /:id/backfill, "no orphan
\* tracker without jobs").
THEOREM FollowedHolds == Spec => []FollowedInv
<1>1. IInv => FollowedInv
  <2> SUFFICES ASSUME IInv PROVE FollowedInv
    OBVIOUS
  <2>1. TypeOK
    BY DEF IInv, Sessions, Requests, Messages, Consumers, Ledger, Rest, WorkerFine, TypeOK, At
  <2>2. FollowedIsUnderWay
    BY DEF IInv, Followed, Covered, FollowedIsUnderWay
  <2> QED BY <2>1, <2>2 DEF FollowedInv
<1> QED BY <1>1, Invariance, PTL

\* A failure of the backfill's own shows, though the job began before the
\* tracker was created: the allowance is never too small
\* (GET /backfill/:id, RANH_DUA_ENQUEUE_MS).
THEOREM FailuresShow == Spec => []OwnFailuresShow
<1>1. IInv => OwnFailuresShow
  <2> SUFFICES ASSUME IInv, NEW b \in Backfills, created[b] # NotCreated,
                      NEW r \in rows, r.owner = b, r.trangThai \in Failures,
                      ~\E q \in rows : q.scope = r.scope /\ q.trangThai = "completed"
               PROVE  Progress(b) \in {"phien_het_han", "loi_dong_bo"}
    BY DEF OwnFailuresShow
  <2>1. r \in Run /\ asked[b] <= r.batDau
    BY DEF IInv, Ledger, Starts
  <2>2. created[b] <= asked[b] + Slack /\ created[b] \in Nat /\ asked[b] \in Nat
        /\ r.batDau \in Nat
    BY <2>1, Numbers DEF IInv, Requests, NotCreated, Run
  <2>3. ~Forgiven(b, r)
    BY <2>1, <2>2, Numbers DEF Forgiven
  <2>4. PICK m \in Months, d \in Directions : r.scope = <<m, d>>
    BY <2>1 DEF Run, Scopes
  <2>5. r \in Counted(b, <<m, d>>)
    BY <2>3, <2>4 DEF Counted
  <2>6. DirState(b, <<m, d>>) \in {"reauth", "failed"}
    BY <2>4, <2>5, CountedShows
  <2> QED BY <2>6, MonthShows, RangeShows
<1> QED BY <1>1, Invariance, PTL

\* A page that says the range is done tells the truth, and goes on doing so:
\* every month has been completed in both directions (deriveBackfillStatus).
THEOREM DoneIsDone == Spec => []DoneIsComplete
<1>1. IInv => DoneIsComplete
  BY DEF IInv
<1> QED BY <1>1, Invariance, PTL
=============================================================================
