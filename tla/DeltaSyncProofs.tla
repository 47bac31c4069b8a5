-------------------------- MODULE DeltaSyncProofs --------------------------
(***************************************************************************)
(* DeltaSync keeps its types, its ceilings and its bound on chains, has    *)
(* one chain for each running run and no more orphans than faults, and     *)
(* implements RunLedger, for every number of workers, runs, requests,      *)
(* retries, replays and faults.                                            *)
(*                                                                         *)
(* The invariant is about messages, wherever they are: every message is    *)
(* sound - typed, within its bounds, and carrying a run only if that run   *)
(* was opened.  The lemmas say what each transformation of a message does; *)
(* then each action preserves the invariant.  The last part counts: what   *)
(* each step does to the number of carriers of a run.                      *)
(***************************************************************************)
EXTENDS DeltaSync, FiniteSetTheorems, TLAPS

\* What every message in the queues, in the ledger of dead letters and in the
\* hands of a worker is.
Sound ==
    {m \in Message : /\ Bounded(m) /\ HasRun(m)
                     /\ m.run # NoRun => status[m.run] # "none"}

Letters(S) == [msg : S, tries : Nat, parked : BOOLEAN]

SoundBags ==
    /\ IsABag(queue) /\ BagToSet(queue) \subseteq Sound
    /\ IsABag(parked) /\ BagToSet(parked) \subseteq Sound
    /\ IsABag(dead) /\ BagToSet(dead) \subseteq Letters(Sound)

\* What a worker in state s knows at each step of a job, S being the sound
\* messages.
SoundWorker(s, S) ==
    /\ s \in WorkerState
    /\ s.msg \in S
    /\ s.pc \in {"guard", "open"} => s.msg.run = NoRun
    /\ s.pc = "pull" => s.msg.kind = "delta"
    /\ s.pc = "requeue" => s.msg.bp < MaxBackpressure
    /\ s.pc = "open" => s.out.kind = "delta" /\ Bounded(s.out)
    /\ s.pc = "send" => s.out \in S /\ s.out.run # NoRun
    /\ s.pc = "close" =>
          /\ s.as \in Closed
          /\ s.msg.run # NoRun \/ (s.out \in S /\ s.out.run # NoRun)

SoundWorkers ==
    /\ worker \in [Workers -> WorkerState]
    /\ \A w \in Workers : SoundWorker(worker[w], Sound)

SoundLedger ==
    /\ status \in [Runs -> Statuses]
    /\ fresh \subseteq Runs
    /\ numbered \subseteq Runs

SoundCounts ==
    /\ db \in [Families -> Nat]
    /\ requests \in 0..MaxRequests
    /\ replays \in 0..MaxReplays
    /\ faults \in 0..MaxFaults

Inv == SoundBags /\ SoundWorkers /\ SoundLedger /\ SoundCounts

-----------------------------------------------------------------------------
(***************************************************************************)
(* Bags                                                                    *)
(***************************************************************************)
LEMMA PutFacts ==
    ASSUME NEW b, IsABag(b), NEW m
    PROVE  IsABag(Put(b, m)) /\ BagToSet(Put(b, m)) = BagToSet(b) \cup {m}
BY DEF Put, IsABag, BagToSet, SetToBag, (+), BagIn

LEMMA TakeFacts ==
    ASSUME NEW b, IsABag(b), NEW m
    PROVE  IsABag(Take(b, m)) /\ BagToSet(Take(b, m)) \subseteq BagToSet(b)
BY DEF Take, IsABag, BagToSet, SetToBag, (-), BagIn

LEMMA EmptyFacts == IsABag(EmptyBag) /\ BagToSet(EmptyBag) = {}
BY DEF EmptyBag, IsABag, BagToSet, SetToBag

-----------------------------------------------------------------------------
(***************************************************************************)
(* Messages                                                                *)
(***************************************************************************)
LEMMA BoundsAreNat ==
    /\ MaxRounds \in Nat /\ MaxRounds >= 1 /\ ChunkCap \in Nat /\ ChunkCap >= 1
    /\ MaxBackpressure \in Nat /\ MaxRetries \in Nat /\ NoRun \notin Runs
BY DeltaAssumption

\* A fresh request, and so a worker's blank, is sound.
LEMMA RequestSound == AuditRequest \in Sound /\ AuditRequest \in Message /\ AuditRequest.run = NoRun
BY BoundsAreNat DEF AuditRequest, Sound, Message, FamilyLists, Bounded, HasRun

\* What a sound message is, field by field.
LEMMA SoundFields ==
    ASSUME NEW m
    PROVE  m \in Sound <=>
               /\ m \in Message
               /\ m.round <= MaxRounds /\ m.pulled < ChunkCap
               /\ m.bp <= MaxBackpressure /\ m.tries <= MaxRetries
               /\ m.kind = "delta" => m.families # <<>> /\ m.round >= 1 /\ m.run # NoRun
               /\ m.run = NoRun => m.round = 0
               /\ m.run # NoRun => status[m.run] # "none"
BY DEF Sound, Bounded, HasRun

\* A copy of a message differs from it only in the two counters of attempts.
LEMMA CopyOf ==
    ASSUME NEW m \in Sound, NEW bp \in 0..MaxBackpressure, NEW tries \in 0..MaxRetries
    PROVE  [m EXCEPT !.bp = bp, !.tries = tries] \in Sound
<1> DEFINE b == [m EXCEPT !.bp = bp]
<1> DEFINE c == [b EXCEPT !.tries = tries]
<1>1. m \in Message
  BY SoundFields
<1>2. /\ b \in Message
      /\ b.kind = m.kind /\ b.round = m.round /\ b.run = m.run
      /\ b.families = m.families /\ b.pulled = m.pulled /\ b.bp = bp
  BY <1>1, BoundsAreNat DEF Message
<1>3. [m EXCEPT !.bp = bp, !.tries = tries] = c
  BY <1>1
<1> HIDE DEF b
<1>4. /\ c \in Message
      /\ c.kind = b.kind /\ c.round = b.round /\ c.run = b.run
      /\ c.families = b.families /\ c.pulled = b.pulled /\ c.bp = b.bp /\ c.tries = tries
  BY <1>2, BoundsAreNat DEF Message
<1> HIDE DEF c
<1>5. c \in Sound
  BY <1>2, <1>4, SoundFields, BoundsAreNat
<1> QED BY <1>3, <1>5

\* The copies the queue, the backpressure and a replay make of a message.
LEMMA CopySound ==
    ASSUME NEW m \in Sound
    PROVE  /\ [m EXCEPT !.tries = 0] \in Sound
           /\ [m EXCEPT !.bp = 0] \in Sound
           /\ m.tries < MaxRetries => [m EXCEPT !.tries = @ + 1] \in Sound
           /\ m.bp < MaxBackpressure => [m EXCEPT !.bp = @ + 1, !.tries = 0] \in Sound
<1>1. m \in Message /\ m.bp \in 0..MaxBackpressure /\ m.tries \in 0..MaxRetries
  BY SoundFields, BoundsAreNat DEF Message
<1>2. /\ 0 \in 0..MaxBackpressure /\ 0 \in 0..MaxRetries
      /\ m.tries < MaxRetries => m.tries + 1 \in 0..MaxRetries
      /\ m.bp < MaxBackpressure => m.bp + 1 \in 0..MaxBackpressure
  BY <1>1, BoundsAreNat
<1>3. [m EXCEPT !.bp = m.bp] = m /\ [m EXCEPT !.tries = m.tries] = m
  BY <1>1 DEF Message
<1>4. [m EXCEPT !.tries = 0] \in Sound
  <2>1. [m EXCEPT !.bp = m.bp, !.tries = 0] \in Sound
    BY <1>1, <1>2, CopyOf, Zenon
  <2>2. [m EXCEPT !.bp = m.bp, !.tries = 0] = [[m EXCEPT !.bp = m.bp] EXCEPT !.tries = 0]
    OBVIOUS
  <2> QED BY <1>3, <2>1, <2>2, Zenon
<1>5. [m EXCEPT !.bp = 0] \in Sound
  <2>1. [m EXCEPT !.bp = 0, !.tries = m.tries] \in Sound
    BY <1>1, <1>2, CopyOf, Zenon
  <2>2. [m EXCEPT !.bp = 0, !.tries = m.tries] = [[m EXCEPT !.bp = 0] EXCEPT !.tries = m.tries]
    OBVIOUS
  <2> DEFINE c == [m EXCEPT !.bp = 0]
  <2>3. c \in Message /\ c.tries = m.tries
    BY <1>1 DEF Message
  <2> HIDE DEF c
  <2>4. [c EXCEPT !.tries = m.tries] = c
    BY <2>3 DEF Message
  <2> QED BY <2>1, <2>2, <2>4 DEF c
<1>6. ASSUME m.tries < MaxRetries PROVE [m EXCEPT !.tries = @ + 1] \in Sound
  <2>1. [m EXCEPT !.bp = m.bp, !.tries = m.tries + 1] \in Sound
    BY <1>1, <1>2, <1>6, CopyOf, Zenon
  <2>2. [m EXCEPT !.bp = m.bp, !.tries = m.tries + 1]
        = [[m EXCEPT !.bp = m.bp] EXCEPT !.tries = m.tries + 1]
    OBVIOUS
  <2>3. [m EXCEPT !.tries = @ + 1] = [m EXCEPT !.tries = m.tries + 1]
    OBVIOUS
  <2> QED BY <1>3, <2>1, <2>2, <2>3, Zenon
<1>7. ASSUME m.bp < MaxBackpressure PROVE [m EXCEPT !.bp = @ + 1, !.tries = 0] \in Sound
  <2>1. [m EXCEPT !.bp = m.bp + 1, !.tries = 0] \in Sound
    BY <1>1, <1>2, <1>7, CopyOf, Zenon
  <2> QED BY <2>1
<1> QED BY <1>4, <1>5, <1>6, <1>7

\* The first message of a round of pulls.
LEMMA FirstPullFacts ==
    ASSUME NEW m \in Sound, NEW families \in SUBSET Families, families # {},
           m.round < MaxRounds, Stored \in Nat,
           NEW p, p = FirstPull(m, families)
    PROVE  /\ p \in Message /\ p.kind = "delta" /\ Bounded(p)
           /\ p.run = m.run
           /\ m.run # NoRun => p \in Sound
<1>1. FamilyList(families) \in FamilyLists /\ FamilyList(families) # <<>>
  BY DEF Families, FamilyList, FamilyLists
<1>2. /\ p.kind = "delta" /\ p.round = m.round + 1 /\ p.run = m.run /\ p.before = Stored
      /\ p.families = FamilyList(families) /\ p.pulled = 0 /\ p.bp = 0 /\ p.tries = 0
  BY DEF FirstPull, AuditRequest
<1>3. m \in Message /\ m.round \in Nat /\ m.run \in Runs \cup {NoRun}
      /\ (m.run # NoRun => status[m.run] # "none")
  BY SoundFields DEF Message
<1>4. p \in Message
  <2>1. DOMAIN p = {"kind", "round", "run", "before", "families", "pulled", "bp", "tries"}
    BY DEF FirstPull, AuditRequest
  <2>2. p = [kind |-> "delta", round |-> m.round + 1, run |-> m.run, before |-> Stored,
             families |-> FamilyList(families), pulled |-> 0, bp |-> 0, tries |-> 0]
    BY DEF FirstPull, AuditRequest
  <2> QED BY <1>1, <1>3, <2>2 DEF Message
<1>5. Bounded(p)
  BY <1>1, <1>2, <1>3, BoundsAreNat DEF Bounded
<1>6. m.run # NoRun => p \in Sound
  BY <1>1, <1>2, <1>3, <1>4, <1>5, BoundsAreNat, SoundFields DEF Bounded
<1> QED BY <1>2, <1>4, <1>5, <1>6

\* The successor of a delta message carries the same run within the ceilings.
LEMMA SuccessorSound ==
    ASSUME NEW m \in Sound, m.kind = "delta", NEW done \in BOOLEAN,
           done \/ ~(m.pulled + 1 >= ChunkCap),
           NEW n, n = Successor(m, done)
    PROVE  n \in Sound /\ n.run # NoRun
<1>1. /\ m \in Message /\ m.run \in Runs /\ m.run # NoRun /\ status[m.run] # "none"
      /\ m.round \in Nat /\ m.round <= MaxRounds /\ m.round >= 1
      /\ m.pulled \in Nat /\ m.tries \in Nat
      /\ m.families \in FamilyLists /\ m.families # <<>>
  BY SoundFields DEF Message
<1>2. m.families \in {<<"normal">>, <<"sco">>, <<"normal", "sco">>}
  BY <1>1 DEF FamilyLists
<1> DEFINE next == [m EXCEPT !.bp = 0, !.tries = 0]
<1>3. /\ next \in Message /\ next.kind = m.kind /\ next.round = m.round /\ next.run = m.run
      /\ next.families = m.families /\ next.pulled = m.pulled /\ next.bp = 0 /\ next.tries = 0
  BY <1>1 DEF Message
<1>4. CASE ~done
  <2>1. n = [next EXCEPT !.pulled = m.pulled + 1]
    BY <1>3, <1>4 DEF Successor
  <2> HIDE DEF next
  <2>2. n \in Message
    BY <2>1, <1>1, <1>3 DEF Message
  <2>3. /\ n.kind = m.kind /\ n.round = m.round /\ n.run = m.run
        /\ n.families = m.families /\ n.pulled = m.pulled + 1 /\ n.bp = 0 /\ n.tries = 0
    BY <2>1, <1>3 DEF Message
  <2> QED BY <2>2, <2>3, <1>1, <1>4, BoundsAreNat, SoundFields
<1>5. CASE done /\ m.families = <<"normal", "sco">>
  <2>1. Len(m.families) = 2 /\ Tail(m.families) = <<"sco">>
    BY <1>5
  <2> DEFINE other == [next EXCEPT !.families = <<"sco">>]
  <2>2. n = [other EXCEPT !.pulled = 0]
    <3>1. n = [[next EXCEPT !.families = Tail(next.families)] EXCEPT !.pulled = 0]
      BY <1>5, <2>1 DEF Successor
    <3>2. Tail(next.families) = <<"sco">>
      BY <1>3, <2>1, Zenon
    <3> HIDE DEF next
    <3> QED BY <3>1, <3>2
  <2> HIDE DEF next
  <2>3. /\ other \in Message
        /\ other.kind = m.kind /\ other.round = m.round /\ other.run = m.run
        /\ other.families = <<"sco">> /\ other.bp = 0 /\ other.tries = 0
    BY <1>3 DEF Message, FamilyLists
  <2> HIDE DEF other
  <2>4. /\ n \in Message
        /\ n.kind = m.kind /\ n.round = m.round /\ n.run = m.run
        /\ n.families = <<"sco">> /\ n.pulled = 0 /\ n.bp = 0 /\ n.tries = 0
    BY <2>2, <2>3 DEF Message
  <2>5. n.families # <<>>
    BY <2>4
  <2>6. /\ n \in Message
        /\ n.kind = m.kind /\ n.round = m.round /\ n.run = m.run
        /\ n.pulled = 0 /\ n.bp = 0 /\ n.tries = 0
    BY <2>4
  <2> QED BY <2>5, <2>6, <1>1, BoundsAreNat, SoundFields
<1>6. CASE done /\ m.families \in {<<"normal">>, <<"sco">>}
  <2>1. Len(m.families) = 1
    BY <1>6
  <2> DEFINE audit == [next EXCEPT !.kind = "audit"]
  <2> DEFINE closing == [audit EXCEPT !.families = <<>>]
  <2>2. n = [closing EXCEPT !.pulled = 0]
    BY <1>3, <1>6, <2>1 DEF Successor
  <2> HIDE DEF next
  <2>3. /\ audit \in Message
        /\ audit.kind = "audit" /\ audit.round = m.round /\ audit.run = m.run
        /\ audit.bp = 0 /\ audit.tries = 0
    BY <1>3 DEF Message
  <2> HIDE DEF audit
  <2>4. /\ closing \in Message
        /\ closing.kind = "audit" /\ closing.round = m.round /\ closing.run = m.run
        /\ closing.bp = 0 /\ closing.tries = 0
    BY <2>3 DEF Message, FamilyLists
  <2> HIDE DEF closing
  <2>5. /\ n \in Message
        /\ n.kind = "audit" /\ n.round = m.round /\ n.run = m.run
        /\ n.pulled = 0 /\ n.bp = 0 /\ n.tries = 0
    BY <2>2, <2>4 DEF Message
  <2> QED BY <2>5, <1>1, BoundsAreNat, SoundFields
<1> QED BY <1>2, <1>4, <1>5, <1>6

-----------------------------------------------------------------------------
(***************************************************************************)
(* Frames: what follows for the parts a step leaves alone                  *)
(***************************************************************************)
LEMMA SoundSame ==
    ASSUME status' = status
    PROVE  Sound' = Sound
BY DEF Sound, Message, Bounded, HasRun

\* A run never goes back to not having been opened, so sound messages stay so.
LEMMA SoundGrows ==
    ASSUME \A r \in Runs : status[r] # "none" => status'[r] # "none"
    PROVE  Sound \subseteq Sound'
BY DEF Sound, Message, Bounded, HasRun

LEMMA LettersGrow ==
    ASSUME NEW S, NEW T, S \subseteq T
    PROVE  Letters(S) \subseteq Letters(T)
BY DEF Letters

LEMMA WorkerGrows ==
    ASSUME NEW S, NEW T, S \subseteq T, NEW s, SoundWorker(s, S)
    PROVE  SoundWorker(s, T)
BY DEF SoundWorker

\* One worker steps.
LEMMA WorkersStep ==
    ASSUME SoundWorkers, Sound \subseteq Sound', NEW w \in Workers,
           NEW s, SoundWorker(s, Sound'), worker' = [worker EXCEPT ![w] = s]
    PROVE  SoundWorkers'
<1>1. worker' \in [Workers -> WorkerState]
  BY DEF SoundWorkers, SoundWorker
<1>2. ASSUME NEW v \in Workers PROVE SoundWorker(worker'[v], Sound')
  <2>1. CASE v = w
    <3>1. worker'[v] = s
      BY <2>1 DEF SoundWorkers
    <3> QED BY <3>1
  <2>2. CASE v # w
    <3>1. worker'[v] = worker[v] /\ SoundWorker(worker[v], Sound)
      BY <2>2 DEF SoundWorkers
    <3> QED BY <3>1, WorkerGrows, Zenon
  <2> QED BY <2>1, <2>2
<1> QED BY <1>1, <1>2 DEF SoundWorkers

LEMMA WorkersStay ==
    ASSUME SoundWorkers, Sound \subseteq Sound', worker' = worker
    PROVE  SoundWorkers'
<1>1. \A v \in Workers : SoundWorker(worker[v], Sound')
  BY WorkerGrows, Zenon DEF SoundWorkers
<1> QED BY <1>1 DEF SoundWorkers

\* The bags lose messages or gain sound ones.
LEMMA BagsStep ==
    ASSUME SoundBags, Sound \subseteq Sound',
           \/ queue' = queue
           \/ \E m \in Sound' : queue' = Put(queue, m)
           \/ \E m : queue' = Take(queue, m),
           \/ parked' = parked
           \/ \E m \in Sound' : parked' = Put(parked, m)
           \/ \E m : parked' = Take(parked, m),
           \/ dead' = dead
           \/ \E d \in Letters(Sound') : dead' = Put(dead, d)
           \/ \E d : dead' = Take(dead, d)
           \/ \E d, e : e \in Letters(Sound') /\ dead' = Put(Take(dead, d), e)
    PROVE  SoundBags'
<1>1. IsABag(queue') /\ BagToSet(queue') \subseteq Sound'
  BY PutFacts, TakeFacts DEF SoundBags
<1>2. IsABag(parked') /\ BagToSet(parked') \subseteq Sound'
  BY PutFacts, TakeFacts DEF SoundBags
<1>3. IsABag(dead) /\ BagToSet(dead) \subseteq Letters(Sound')
  BY LettersGrow DEF SoundBags
<1>4. IsABag(dead') /\ BagToSet(dead') \subseteq Letters(Sound')
  <2>1. CASE dead' = dead
    BY <1>3, <2>1
  <2>2. CASE \E d \in Letters(Sound') : dead' = Put(dead, d)
    BY <1>3, <2>2, PutFacts
  <2>3. CASE \E d : dead' = Take(dead, d)
    BY <1>3, <2>3, TakeFacts
  <2>4. CASE \E d, e : e \in Letters(Sound') /\ dead' = Put(Take(dead, d), e)
    <3>1. PICK d, e : e \in Letters(Sound') /\ dead' = Put(Take(dead, d), e)
      BY <2>4
    <3>2. IsABag(Take(dead, d)) /\ BagToSet(Take(dead, d)) \subseteq BagToSet(dead)
      BY <1>3, TakeFacts
    <3>3. /\ IsABag(dead')
          /\ BagToSet(dead') = BagToSet(Take(dead, d)) \cup {e}
      BY <3>1, <3>2, PutFacts
    <3> QED BY <1>3, <3>1, <3>2, <3>3
  <2> QED BY <2>1, <2>2, <2>3, <2>4
<1> QED BY <1>1, <1>2, <1>4 DEF SoundBags

\* A step of worker w that touches nothing but itself and the database.
LEMMA WorkerOnly ==
    ASSUME Inv, NEW w \in Workers, NEW s, SoundWorker(s, Sound),
           worker' = [worker EXCEPT ![w] = s], db' \in [Families -> Nat],
           UNCHANGED <<queue, dead, parked, ledger, budgets>>
    PROVE  Inv'
<1>1. Sound' = Sound
  BY SoundSame DEF ledger
<1>2. SoundWorkers'
  BY <1>1, WorkersStep DEF Inv
<1>3. SoundBags'
  BY <1>1 DEF Inv, SoundBags
<1>4. SoundLedger' /\ SoundCounts'
  BY DEF Inv, SoundLedger, SoundCounts, ledger, budgets
<1> QED BY <1>2, <1>3, <1>4 DEF Inv

-----------------------------------------------------------------------------
(***************************************************************************)
(* Workers                                                                 *)
(***************************************************************************)
LEMMA IdleSound == SoundWorker(IdleWorker, Sound) /\ SoundWorker(IdleWorker, Sound')
<1>1. AuditRequest \in Message /\ AuditRequest \in Sound
  BY RequestSound
<1>2. AuditRequest \in Sound'
  BY BoundsAreNat DEF AuditRequest, Sound, Message, FamilyLists, Bounded, HasRun
<1> QED
  BY <1>1, <1>2 DEF SoundWorker, IdleWorker, Blank, WorkerState, Steps

\* A worker goes on with the same message.
LEMMA MoveSound ==
    ASSUME NEW S, NEW s, SoundWorker(s, S), NEW step \in Steps,
           \/ step \in {"decide", "retry", "ack"}
           \/ step = "requeue" /\ s.msg.bp < MaxBackpressure
    PROVE  SoundWorker([s EXCEPT !.pc = step], S)
BY DEF SoundWorker, WorkerState

\* Pushing a message back never takes it over the ceiling.
LEMMA PushbackMoves ==
    ASSUME NEW m \in Sound
    PROVE  \/ Pushback(m) = "retry"
           \/ Pushback(m) = "requeue" /\ m.bp < MaxBackpressure
BY SoundFields, BoundsAreNat DEF Pushback, Message

\* A worker whose message has a run is to close it.
LEMMA CloseSound ==
    ASSUME NEW S, NEW s, SoundWorker(s, S), s.msg.run # NoRun, NEW as \in Closed
    PROVE  SoundWorker([s EXCEPT !.pc = "close", !.as = as], S)
<1> DEFINE t == [s EXCEPT !.pc = "close"]
<1>1. t \in WorkerState /\ t.msg = s.msg /\ t.out = s.out /\ t.pc = "close"
  BY DEF SoundWorker, WorkerState, Steps
<1>2. [s EXCEPT !.pc = "close", !.as = as] = [t EXCEPT !.as = as]
  OBVIOUS
<1> HIDE DEF t
<1> DEFINE u == [t EXCEPT !.as = as]
<1>3. u \in WorkerState /\ u.msg = s.msg /\ u.out = s.out /\ u.pc = "close" /\ u.as = as
  BY <1>1 DEF WorkerState
<1> HIDE DEF u
<1>4. SoundWorker(u, S)
  BY <1>3 DEF SoundWorker
<1> QED BY <1>2, <1>4 DEF u

\* A worker is to send (or, for an audit without a run, to open a run for) out.
LEMMA SendSound ==
    ASSUME NEW S, NEW s, SoundWorker(s, S), NEW out \in Message, NEW step,
           \/ step = "send" /\ out \in S /\ out.run # NoRun
           \/ step = "open" /\ s.msg.run = NoRun /\ out.kind = "delta" /\ Bounded(out)
    PROVE  SoundWorker([s EXCEPT !.pc = step, !.out = out], S)
<1> DEFINE t == [s EXCEPT !.pc = step]
<1>1. t \in WorkerState /\ t.msg = s.msg /\ t.pc = step
  BY DEF SoundWorker, WorkerState, Steps
<1>2. [s EXCEPT !.pc = step, !.out = out] = [t EXCEPT !.out = out]
  OBVIOUS
<1> HIDE DEF t
<1> DEFINE u == [t EXCEPT !.out = out]
<1>3. u \in WorkerState /\ u.msg = s.msg /\ u.out = out /\ u.pc = step
  BY <1>1 DEF WorkerState
<1> HIDE DEF u
<1>4. SoundWorker(u, S)
  BY <1>3 DEF SoundWorker
<1> QED BY <1>2, <1>4 DEF u

\* What the invariant says of the message of a worker.
LEMMA WorkerFacts ==
    ASSUME Inv, NEW w \in Workers
    PROVE  /\ SoundWorker(worker[w], Sound) /\ worker \in [Workers -> WorkerState]
           /\ worker[w].msg \in Sound /\ worker[w].msg \in Message
           /\ worker[w].pc \in Steps
           /\ status \in [Runs -> Statuses] /\ db \in [Families -> Nat] /\ Stored \in Nat
BY SoundFields DEF Inv, SoundWorkers, SoundWorker, SoundLedger, SoundCounts, WorkerState, Stored,
   Families

\* The step of a worker that only moves on.
LEMMA ContinueKeeps ==
    ASSUME Inv, NEW w \in Workers, NEW step \in Steps, Continue(w, step),
           \/ step \in {"decide", "retry", "ack"}
           \/ step = "requeue" /\ worker[w].msg.bp < MaxBackpressure,
           db' \in [Families -> Nat], UNCHANGED <<queue, dead, parked, ledger, budgets>>
    PROVE  Inv'
<1> DEFINE s == [worker[w] EXCEPT !.pc = step]
<1>1. SoundWorker(worker[w], Sound)
  BY WorkerFacts
<1>2. SoundWorker(s, Sound)
  BY <1>1, MoveSound
<1>3. worker' = [worker EXCEPT ![w] = s]
  BY DEF Continue
<1> HIDE DEF s
<1> QED BY <1>2, <1>3, WorkerOnly

LEMMA PushbackKeeps ==
    ASSUME Inv, NEW w \in Workers, Continue(w, Pushback(worker[w].msg)),
           db' \in [Families -> Nat], UNCHANGED <<queue, dead, parked, ledger, budgets>>
    PROVE  Inv'
<1>1. \/ Pushback(worker[w].msg) = "retry"
      \/ Pushback(worker[w].msg) = "requeue" /\ worker[w].msg.bp < MaxBackpressure
  BY WorkerFacts, PushbackMoves
<1>2. Pushback(worker[w].msg) \in Steps
  BY <1>1 DEF Steps
<1> QED BY <1>1, <1>2, ContinueKeeps

LEMMA ReauthenticateKeeps ==
    ASSUME Inv, NEW w \in Workers, Reauthenticate(w),
           db' \in [Families -> Nat], UNCHANGED <<queue, dead, parked, ledger, budgets>>
    PROVE  Inv'
<1>1. CASE worker[w].msg.run = NoRun
  BY <1>1, ContinueKeeps DEF Reauthenticate, Steps
<1>2. CASE worker[w].msg.run # NoRun
  <2> DEFINE s == [worker[w] EXCEPT !.pc = "close", !.as = "reauth"]
  <2>1. SoundWorker(s, Sound)
    BY <1>2, WorkerFacts, CloseSound DEF Closed
  <2>2. worker' = [worker EXCEPT ![w] = s]
    BY <1>2, WorkerFacts DEF Reauthenticate
  <2> HIDE DEF s
  <2> QED BY <2>1, <2>2, WorkerOnly
<1> QED BY <1>1, <1>2

-----------------------------------------------------------------------------
(***************************************************************************)
(* Actions                                                                 *)
(***************************************************************************)
LEMMA RequestKeeps == ASSUME Inv, Request PROVE Inv'
<1>1. Sound' = Sound
  BY SoundSame DEF Request, ledger
<1>2. SoundWorkers'
  BY <1>1, WorkersStay DEF Inv, Request
<1>3. SoundBags'
  BY <1>1, RequestSound, BagsStep DEF Inv, Request
<1>4. SoundLedger' /\ SoundCounts'
  BY DeltaAssumption DEF Inv, SoundLedger, SoundCounts, Request, ledger
<1> QED BY <1>2, <1>3, <1>4 DEF Inv

LEMMA ReceiveKeeps == ASSUME Inv, NEW w \in Workers, Receive(w) PROVE Inv'
<1>1. PICK m \in BagToSet(queue) :
         /\ queue' = Take(queue, m)
         /\ \E step \in {Pushback(m),
                         IF m.kind = "delta" THEN "pull"
                         ELSE IF m.run = NoRun THEN "guard" ELSE "decide"} :
               worker' = [worker EXCEPT ![w] = [IdleWorker EXCEPT !.pc = step, !.msg = m]]
  BY DEF Receive
<1>2. PICK step \in {Pushback(m),
                     IF m.kind = "delta" THEN "pull"
                     ELSE IF m.run = NoRun THEN "guard" ELSE "decide"} :
         worker' = [worker EXCEPT ![w] = [IdleWorker EXCEPT !.pc = step, !.msg = m]]
  BY <1>1
<1>3. m \in Sound /\ m \in Message /\ m.kind \in {"audit", "delta"}
  BY SoundFields DEF Inv, SoundBags, Message
<1>4. /\ step \in Steps
      /\ step \in {"guard", "decide", "pull", "retry", "requeue"}
      /\ step = "guard" => m.run = NoRun
      /\ step = "pull" => m.kind = "delta"
      /\ step = "requeue" => m.bp < MaxBackpressure
  BY <1>2, <1>3, PushbackMoves DEF Steps
<1>5. Sound' = Sound
  BY SoundSame DEF Receive, ledger
<1> DEFINE t == [IdleWorker EXCEPT !.pc = step]
<1> DEFINE u == [t EXCEPT !.msg = m]
<1>6. t \in WorkerState /\ t.pc = step
  BY <1>4, RequestSound DEF IdleWorker, Blank, WorkerState
<1>7. worker' = [worker EXCEPT ![w] = u]
  BY <1>2
<1> HIDE DEF t
<1>8. u \in WorkerState /\ u.pc = step /\ u.msg = m
  BY <1>3, <1>6 DEF WorkerState
<1> HIDE DEF u
<1>9. SoundWorker(u, Sound')
  BY <1>3, <1>4, <1>5, <1>8 DEF SoundWorker
<1>10. SoundWorkers'
  BY <1>5, <1>7, <1>9, WorkersStep DEF Inv
<1>11. SoundBags'
  BY <1>1, <1>5, BagsStep DEF Inv, Receive
<1>12. SoundLedger' /\ SoundCounts'
  BY DEF Inv, SoundLedger, SoundCounts, Receive, ledger, budgets
<1> QED BY <1>10, <1>11, <1>12 DEF Inv

LEMMA GuardKeeps == ASSUME Inv, NEW w \in Workers, Guard(w) PROVE Inv'
<1>1. PICK step \in {"ack", "decide", "retry"} : Continue(w, step)
  BY DEF Guard
<1>2. db' \in [Families -> Nat] /\ UNCHANGED <<queue, dead, parked, ledger, budgets>>
  BY WorkerFacts DEF Guard
<1>3. step \in Steps /\ step \in {"decide", "retry", "ack"}
  BY DEF Steps
<1> QED BY <1>1, <1>2, <1>3, ContinueKeeps

LEMMA DecideKeeps == ASSUME Inv, NEW w \in Workers, Decide(w) PROVE Inv'
<1> DEFINE m == worker[w].msg
<1>1. db' \in [Families -> Nat] /\ UNCHANGED <<queue, dead, parked, ledger, budgets>>
  BY WorkerFacts DEF Decide
<1>2. /\ SoundWorker(worker[w], Sound) /\ worker \in [Workers -> WorkerState]
      /\ m \in Sound /\ m \in Message /\ Stored \in Nat
  BY WorkerFacts
<1>3. "retry" \in Steps /\ "ack" \in Steps
  BY DEF Steps
<1>4. CASE Continue(w, "retry")
  BY <1>1, <1>3, <1>4, ContinueKeeps
<1>5. CASE Continue(w, Pushback(m))
  BY <1>1, <1>5, PushbackKeeps
<1>6. CASE Reauthenticate(w)
  BY <1>1, <1>6, ReauthenticateKeeps
<1>7. ASSUME NEW total \in [Families -> Totals], Decision(total, m) = "pull",
             worker' = [worker EXCEPT ![w].pc = IF m.run = NoRun THEN "open" ELSE "send",
                                      ![w].out = FirstPull(m, Short(total))]
      PROVE  Inv'
  <2> DEFINE p == FirstPull(m, Short(total))
  <2> DEFINE step == IF m.run = NoRun THEN "open" ELSE "send"
  <2> DEFINE s == [worker[w] EXCEPT !.pc = step, !.out = p]
  <2>1. Short(total) # {} /\ ~(m.round >= MaxRounds)
    BY <1>7 DEF Decision
  <2>2. m.round < MaxRounds
    BY <1>2, <2>1, BoundsAreNat DEF Message
  <2>3. Short(total) \in SUBSET Families
    BY DEF Short
  <2>4. worker' = [worker EXCEPT ![w] = s]
    BY <1>7
  <2> HIDE DEF p
  <2>5. p = FirstPull(m, Short(total))
    BY DEF p
  <2> HIDE DEF m
  <2>6. /\ p \in Message /\ p.kind = "delta" /\ Bounded(p)
        /\ p.run = m.run
        /\ m.run # NoRun => p \in Sound
    BY <1>2, <2>1, <2>2, <2>3, <2>5, FirstPullFacts
  <2>7. \/ step = "send" /\ p \in Sound /\ p.run # NoRun
        \/ step = "open" /\ m.run = NoRun /\ p.kind = "delta" /\ Bounded(p)
    BY <2>6
  <2> HIDE DEF step
  <2>8. SoundWorker(s, Sound)
    BY <1>2, <2>6, <2>7, SendSound DEF m
  <2> HIDE DEF s
  <2> QED BY <1>1, <2>4, <2>8, WorkerOnly
<1>8. ASSUME IF m.run = NoRun
             THEN Continue(w, "ack")
             ELSE worker' = [worker EXCEPT ![w].pc = "close", ![w].as = "completed"]
      PROVE  Inv'
  <2>1. CASE m.run = NoRun
    BY <1>1, <1>3, <1>8, <2>1, ContinueKeeps
  <2>2. CASE m.run # NoRun
    <3> DEFINE s == [worker[w] EXCEPT !.pc = "close", !.as = "completed"]
    <3>1. SoundWorker(s, Sound)
      BY <1>2, <2>2, CloseSound DEF Closed
    <3>2. worker' = [worker EXCEPT ![w] = s]
      BY <1>8, <2>2
    <3> HIDE DEF s
    <3> QED BY <1>1, <3>1, <3>2, WorkerOnly
  <2> QED BY <2>1, <2>2
<1> QED BY <1>4, <1>5, <1>6, <1>7, <1>8 DEF Decide

LEMMA PullKeeps == ASSUME Inv, NEW w \in Workers, Pull(w) PROVE Inv'
<1> DEFINE m == worker[w].msg
<1>1. UNCHANGED <<queue, dead, parked, ledger, budgets>>
  BY DEF Pull
<1>2. /\ SoundWorker(worker[w], Sound) /\ worker \in [Workers -> WorkerState]
      /\ m \in Sound /\ m \in Message /\ worker[w].pc = "pull" /\ m.kind = "delta"
  BY WorkerFacts DEF Pull, SoundWorker
<1>3. m.run # NoRun
  BY <1>2, SoundFields
<1>4. db \in [Families -> Nat]
  BY WorkerFacts
<1>5. "retry" \in Steps
  BY DEF Steps
<1>6. CASE /\ \/ Continue(w, "retry")
              \/ Continue(w, Pushback(m))
              \/ Reauthenticate(w)
           /\ UNCHANGED db
  <2>1. db' \in [Families -> Nat]
    BY <1>4, <1>6
  <2> QED BY <1>1, <1>5, <1>6, <2>1, ContinueKeeps, PushbackKeeps, ReauthenticateKeeps
<1>7. ASSUME NEW stored \in StoredAfterChunk(Head(m.families)),
             db' = [db EXCEPT ![Head(m.families)] = stored],
             \/ \E done \in BOOLEAN :
                   IF ~done /\ m.pulled + 1 >= ChunkCap
                   THEN worker' = [worker EXCEPT ![w].pc = "close", ![w].as = "failed"]
                   ELSE worker' = [worker EXCEPT ![w].pc = "send", ![w].out = Successor(m, done)]
             \/ Continue(w, "retry")
      PROVE  Inv'
  <2>1. db' \in [Families -> Nat]
    <3>1. PICK f : f = Head(m.families)
      OBVIOUS
    <3>2. db' = [db EXCEPT ![f] = stored]
      BY <1>7, <3>1
    <3>3. CASE f \in Families
      <4>1. db[f] \in Nat /\ Stock[f] \in Nat
        BY <1>4, <3>3, DeltaAssumption
      <4>2. stored \in Nat
        BY <1>7, <3>1, <4>1 DEF StoredAfterChunk
      <4> QED BY <1>4, <3>2, <4>2
    <3>4. CASE f \notin Families
      BY <1>4, <3>2, <3>4
    <3> QED BY <3>3, <3>4
  <2>2. CASE Continue(w, "retry")
    BY <1>1, <1>5, <2>1, <2>2, ContinueKeeps
  <2>3. CASE worker' = [worker EXCEPT ![w].pc = "close", ![w].as = "failed"]
    <3> DEFINE s == [worker[w] EXCEPT !.pc = "close", !.as = "failed"]
    <3>1. SoundWorker(s, Sound)
      BY <1>2, <1>3, CloseSound DEF Closed
    <3>2. worker' = [worker EXCEPT ![w] = s]
      BY <2>3
    <3> HIDE DEF s
    <3> QED BY <1>1, <2>1, <3>1, <3>2, WorkerOnly
  <2>4. ASSUME NEW done \in BOOLEAN, ~(~done /\ m.pulled + 1 >= ChunkCap),
               worker' = [worker EXCEPT ![w].pc = "send", ![w].out = Successor(m, done)]
        PROVE  Inv'
    <3> DEFINE n == Successor(m, done)
    <3> DEFINE s == [worker[w] EXCEPT !.pc = "send", !.out = n]
    <3>1. worker' = [worker EXCEPT ![w] = s]
      BY <2>4
    <3> HIDE DEF n
    <3>2. n \in Sound /\ n.run # NoRun
      BY <1>2, <2>4, SuccessorSound DEF n
    <3>3. n \in Message
      BY <3>2, SoundFields
    <3>4. SoundWorker(s, Sound)
      BY <1>2, <3>2, <3>3, SendSound
    <3> HIDE DEF s
    <3> QED BY <1>1, <2>1, <3>1, <3>4, WorkerOnly
  <2> QED BY <1>7, <2>2, <2>3, <2>4
<1> QED BY <1>6, <1>7 DEF Pull

LEMMA OpenKeeps == ASSUME Inv, NEW w \in Workers, Open(w) PROVE Inv'
<1>1. /\ SoundWorker(worker[w], Sound) /\ worker \in [Workers -> WorkerState]
      /\ status \in [Runs -> Statuses] /\ worker[w].pc = "open"
  BY WorkerFacts DEF Open
<1>2. SoundCounts'
  BY DEF Inv, SoundCounts, Open, budgets
<1>3. ASSUME NEW r \in Runs, status[r] = "none",
             status' = [status EXCEPT ![r] = "running"], fresh' = fresh \cup {r},
             worker' = [worker EXCEPT ![w].pc = "send", ![w].out.run = r], UNCHANGED numbered
      PROVE  Inv'
  <2>1. Sound \subseteq Sound'
    BY <1>1, <1>3, SoundGrows
  <2> DEFINE out == [worker[w].out EXCEPT !.run = r]
  <2> DEFINE s == [worker[w] EXCEPT !.pc = "send", !.out = out]
  <2>2. worker' = [worker EXCEPT ![w] = s]
    BY <1>1, <1>3
  <2>3. /\ worker[w].out \in Message /\ worker[w].out.kind = "delta" /\ Bounded(worker[w].out)
        /\ worker[w].msg.run = NoRun
    BY <1>1 DEF SoundWorker, WorkerState
  <2>4. /\ out \in Message /\ out.kind = "delta" /\ out.run = r
        /\ out.round = worker[w].out.round /\ out.families = worker[w].out.families
        /\ out.pulled = worker[w].out.pulled /\ out.bp = worker[w].out.bp
        /\ out.tries = worker[w].out.tries
    BY <2>3 DEF Message
  <2> HIDE DEF out
  <2>5. status'[r] = "running" /\ r # NoRun
    BY <1>1, <1>3, BoundsAreNat
  <2>6. out \in Sound' /\ out.run # NoRun
    BY <2>3, <2>4, <2>5 DEF Sound, Message, Bounded, HasRun
  <2>7. SoundWorker(worker[w], Sound')
    BY <1>1, <2>1, WorkerGrows, Zenon
  <2>8. SoundWorker(s, Sound')
    BY <2>4, <2>6, <2>7, SendSound
  <2> HIDE DEF s
  <2>9. SoundWorkers'
    BY <2>1, <2>2, <2>8, WorkersStep DEF Inv
  <2>10. SoundBags'
    BY <2>1, BagsStep DEF Inv, Open
  <2>11. SoundLedger'
    BY <1>3 DEF Inv, SoundLedger, Statuses
  <2> QED BY <1>2, <2>9, <2>10, <2>11 DEF Inv
<1>4. ASSUME worker' = [worker EXCEPT ![w].pc = "retry", ![w].out = Blank], UNCHANGED ledger
      PROVE  Inv'
  <2>1. worker[w] \in WorkerState /\ worker[w].msg \in Sound
    BY <1>1 DEF SoundWorker
  <2> DEFINE t == [worker[w] EXCEPT !.pc = "retry"]
  <2> DEFINE s == [t EXCEPT !.out = Blank]
  <2>2. worker' = [worker EXCEPT ![w] = s]
    BY <1>4
  <2>3. t \in WorkerState /\ t.pc = "retry" /\ t.msg = worker[w].msg
    BY <2>1 DEF WorkerState, Steps
  <2> HIDE DEF t
  <2>4. s \in WorkerState /\ s.pc = "retry" /\ s.msg = worker[w].msg
    BY <2>3, RequestSound DEF WorkerState, Blank
  <2> HIDE DEF s
  <2>5. SoundWorker(s, Sound)
    BY <2>1, <2>4 DEF SoundWorker
  <2>6. db' \in [Families -> Nat] /\ UNCHANGED <<queue, dead, parked, ledger, budgets>>
    BY <1>4, WorkerFacts DEF Open
  <2> QED BY <2>2, <2>5, <2>6, WorkerOnly
<1> QED BY <1>3, <1>4 DEF Open

\* After a send, or a close, the worker holds no successor any more.
LEMMA SettledSound ==
    ASSUME NEW S, NEW s, SoundWorker(s, S), NEW step \in {"retry", "ack"}
    PROVE  /\ SoundWorker([s EXCEPT !.pc = step, !.out = Blank], S)
           /\ SoundWorker([s EXCEPT !.pc = step, !.out = Blank, !.as = "none"], S)
<1> DEFINE t == [s EXCEPT !.pc = step]
<1> DEFINE u == [t EXCEPT !.out = Blank]
<1> DEFINE v == [u EXCEPT !.as = "none"]
<1>1. /\ [s EXCEPT !.pc = step, !.out = Blank] = u
      /\ [s EXCEPT !.pc = step, !.out = Blank, !.as = "none"] = v
  OBVIOUS
<1>2. s.msg \in S /\ t \in WorkerState /\ t.pc = step /\ t.msg = s.msg
  BY DEF SoundWorker, WorkerState, Steps
<1> HIDE DEF t
<1>3. u \in WorkerState /\ u.pc = step /\ u.msg = s.msg
  BY <1>2, RequestSound DEF WorkerState, Blank
<1> HIDE DEF u
<1>4. v \in WorkerState /\ v.pc = step /\ v.msg = s.msg
  BY <1>3 DEF WorkerState
<1> HIDE DEF v
<1>5. SoundWorker(u, S) /\ SoundWorker(v, S)
  BY <1>2, <1>3, <1>4 DEF SoundWorker
<1> QED BY <1>1, <1>5

\* A worker whose successor was refused keeps what it needs to close the run.
LEMMA SendFailsSound ==
    ASSUME Inv, NEW w \in Workers, worker[w].pc = "send", SendFails(w)
    PROVE  \E s : SoundWorker(s, Sound) /\ worker' = [worker EXCEPT ![w] = s]
<1>1. SoundWorker(worker[w], Sound) /\ worker[w] \in WorkerState
  BY WorkerFacts DEF SoundWorker
<1>2. CASE worker[w].msg.run = NoRun
  <2> DEFINE t == [worker[w] EXCEPT !.pc = "close"]
  <2> DEFINE s == [t EXCEPT !.as = "failed"]
  <2>1. worker' = [worker EXCEPT ![w] = s]
    BY <1>2 DEF SendFails
  <2>2. t \in WorkerState /\ t.pc = "close" /\ t.msg = worker[w].msg /\ t.out = worker[w].out
    BY <1>1 DEF WorkerState, Steps
  <2> HIDE DEF t
  <2>3. /\ s \in WorkerState /\ s.pc = "close" /\ s.as = "failed"
        /\ s.msg = worker[w].msg /\ s.out = worker[w].out
    BY <2>2 DEF WorkerState, Closed
  <2> HIDE DEF s
  <2>4. SoundWorker(s, Sound)
    BY <1>1, <2>3 DEF SoundWorker, Closed
  <2> QED BY <2>1, <2>4
<1>3. CASE worker[w].msg.run # NoRun
  <2> DEFINE s == [worker[w] EXCEPT !.pc = "retry", !.out = Blank]
  <2>1. worker' = [worker EXCEPT ![w] = s]
    BY <1>3 DEF SendFails
  <2>2. SoundWorker(s, Sound)
    BY <1>1, SettledSound
  <2> HIDE DEF s
  <2> QED BY <2>1, <2>2
<1> QED BY <1>2, <1>3

LEMMA SendKeeps == ASSUME Inv, NEW w \in Workers, Send(w) PROVE Inv'
<1>1. /\ SoundWorker(worker[w], Sound) /\ worker[w].pc = "send" /\ worker[w].out \in Sound
  BY WorkerFacts DEF Send, SoundWorker
<1>2. Sound' = Sound
  BY SoundSame DEF Send, ledger
<1>3. SoundLedger' /\ SoundCounts'
  BY DEF Inv, SoundLedger, SoundCounts, Send, ledger, budgets
<1>4. SoundBags'
  BY <1>1, <1>2, BagsStep DEF Inv, Send
<1>5. \E s : SoundWorker(s, Sound) /\ worker' = [worker EXCEPT ![w] = s]
  <2>1. CASE worker' = [worker EXCEPT ![w].pc = "ack", ![w].out = Blank]
    <3> DEFINE s == [worker[w] EXCEPT !.pc = "ack", !.out = Blank]
    <3>1. worker' = [worker EXCEPT ![w] = s]
      BY <2>1
    <3>2. SoundWorker(s, Sound)
      BY <1>1, SettledSound
    <3> HIDE DEF s
    <3> QED BY <3>1, <3>2
  <2>2. CASE SendFails(w)
    BY <1>1, <2>2, SendFailsSound
  <2> QED BY <2>1, <2>2 DEF Send
<1>6. SoundWorkers'
  BY <1>2, <1>5, WorkersStep DEF Inv
<1> QED BY <1>3, <1>4, <1>6 DEF Inv

\* Closing a run keeps the ledger's types and takes no run back.
LEMMA CloseRunKeeps ==
    ASSUME SoundLedger, NEW r \in Runs, NEW as \in Closed, CloseRun(r, as)
    PROVE  SoundLedger' /\ Sound \subseteq Sound'
<1>1. status \in [Runs -> Statuses] /\ status' = [status EXCEPT ![r] = as] /\ as # "none"
  BY DEF SoundLedger, CloseRun, Closed
<1>2. \A x \in Runs : status[x] # "none" => status'[x] # "none"
  BY <1>1
<1>3. Sound \subseteq Sound'
  BY <1>2, SoundGrows
<1>4. SoundLedger'
  BY <1>1 DEF SoundLedger, CloseRun, Statuses, Closed
<1> QED BY <1>3, <1>4

\* The run a worker closes is one that was opened.
LEMMA RunOfOpened ==
    ASSUME Inv, NEW w \in Workers, worker[w].pc = "close"
    PROVE  /\ RunOf(w) \in Runs /\ status[RunOf(w)] # "none"
           /\ worker[w].as \in Closed
<1>1. SoundWorker(worker[w], Sound)
  BY WorkerFacts
<1>2. \E m \in Sound : m.run # NoRun /\ m.run = RunOf(w)
  BY <1>1 DEF SoundWorker, RunOf
<1>3. \A m \in Sound : m.run # NoRun => m.run \in Runs /\ status[m.run] # "none"
  BY DEF Sound, Message
<1> QED BY <1>1, <1>2, <1>3 DEF SoundWorker

LEMMA CloseKeeps == ASSUME Inv, NEW w \in Workers, Close(w) PROVE Inv'
<1>1. SoundWorker(worker[w], Sound) /\ worker[w].pc = "close"
  BY WorkerFacts DEF Close
<1>2. RunOf(w) \in Runs /\ worker[w].as \in Closed
  BY <1>1, RunOfOpened
<1>3. SoundLedger' /\ Sound \subseteq Sound'
  BY <1>2, CloseRunKeeps DEF Inv, Close
<1>4. SoundBags'
  BY <1>3, BagsStep DEF Inv, Close
<1>5. SoundCounts'
  BY DEF Inv, SoundCounts, Close, budgets
<1> DEFINE step == IF worker[w].msg.run = NoRun THEN "retry" ELSE "ack"
<1> DEFINE s == [worker[w] EXCEPT !.pc = step, !.out = Blank, !.as = "none"]
<1>6. worker' = [worker EXCEPT ![w] = s]
  BY DEF Close
<1>7. step \in {"retry", "ack"}
  OBVIOUS
<1> HIDE DEF step
<1>8. SoundWorker(s, Sound')
  <2>1. SoundWorker(worker[w], Sound')
    BY <1>1, <1>3, WorkerGrows, Zenon
  <2> QED BY <1>7, <2>1, SettledSound
<1> HIDE DEF s
<1>9. SoundWorkers'
  BY <1>3, <1>6, <1>8, WorkersStep DEF Inv
<1> QED BY <1>3, <1>4, <1>5, <1>9 DEF Inv

LEMMA RequeueKeeps == ASSUME Inv, NEW w \in Workers, Requeue(w) PROVE Inv'
<1>1. /\ SoundWorker(worker[w], Sound) /\ worker[w].msg \in Sound
      /\ worker[w].msg.bp < MaxBackpressure
  BY WorkerFacts DEF Requeue, SoundWorker
<1>2. [worker[w].msg EXCEPT !.bp = @ + 1, !.tries = 0] \in Sound
  BY <1>1, CopySound
<1>3. Sound' = Sound
  BY SoundSame DEF Requeue, ledger
<1>4. SoundBags'
  BY <1>2, <1>3, BagsStep DEF Inv, Requeue
<1>5. PICK step \in {"ack", "retry"} : Continue(w, step)
  BY DEF Requeue
<1> DEFINE s == [worker[w] EXCEPT !.pc = step]
<1>6. worker' = [worker EXCEPT ![w] = s]
  BY <1>5 DEF Continue
<1>7. SoundWorker(s, Sound)
  BY <1>1, MoveSound DEF Steps
<1> HIDE DEF s
<1>8. SoundWorkers'
  BY <1>3, <1>6, <1>7, WorkersStep DEF Inv
<1>9. SoundLedger' /\ SoundCounts'
  BY DEF Inv, SoundLedger, SoundCounts, Requeue, ledger, budgets
<1> QED BY <1>4, <1>8, <1>9 DEF Inv

LEMMA AckKeeps == ASSUME Inv, NEW w \in Workers, Ack(w) PROVE Inv'
<1>1. SoundWorker(IdleWorker, Sound)
  BY IdleSound
<1>2. /\ worker' = [worker EXCEPT ![w] = IdleWorker]
      /\ db' \in [Families -> Nat] /\ UNCHANGED <<queue, dead, parked, ledger, budgets>>
  BY WorkerFacts DEF Ack
<1> QED BY <1>1, <1>2, WorkerOnly

\* A message delivered again, or given up, is sound.
LEMMA RedeliverFacts ==
    ASSUME NEW m \in Sound, Redeliver(m)
    PROVE  /\ queue' = queue \/ \E c \in Sound : queue' = Put(queue, c)
           /\ dead' = dead \/ \E d \in Letters(Sound) : dead' = Put(dead, d)
<1>1. [m EXCEPT !.tries = 0] \in Sound
  BY CopySound
<1>2. CASE m.tries >= MaxRetries
  <2> DEFINE d == [msg |-> [m EXCEPT !.tries = 0], tries |-> 0, parked |-> FALSE]
  <2>1. d \in Letters(Sound)
    BY <1>1 DEF Letters
  <2>2. dead' = Put(dead, d) /\ queue' = queue
    BY <1>2 DEF Redeliver
  <2> QED BY <2>1, <2>2
<1>3. CASE ~(m.tries >= MaxRetries)
  <2>1. m.tries < MaxRetries
    BY <1>3, SoundFields, BoundsAreNat DEF Message
  <2>2. [m EXCEPT !.tries = @ + 1] \in Sound
    BY <2>1, CopySound
  <2>3. queue' = Put(queue, [m EXCEPT !.tries = @ + 1]) /\ dead' = dead
    BY <1>3 DEF Redeliver
  <2> QED BY <2>2, <2>3
<1> QED BY <1>2, <1>3

\* A worker drops its message, which is delivered again.
LEMMA DropKeeps ==
    ASSUME Inv, NEW w \in Workers, Redeliver(worker[w].msg),
           worker' = [worker EXCEPT ![w] = IdleWorker],
           UNCHANGED <<parked, ledger, db>>, SoundCounts'
    PROVE  Inv'
<1>1. Sound' = Sound
  BY SoundSame DEF ledger
<1>2. SoundWorkers'
  BY <1>1, IdleSound, WorkersStep DEF Inv
<1>3. worker[w].msg \in Sound
  BY WorkerFacts
<1>4. SoundBags'
  BY <1>1, <1>3, RedeliverFacts, BagsStep DEF Inv
<1>5. SoundLedger'
  BY DEF Inv, SoundLedger, ledger
<1> QED BY <1>2, <1>4, <1>5 DEF Inv

LEMMA RetryKeeps == ASSUME Inv, NEW w \in Workers, Retry(w) PROVE Inv'
<1>1. SoundCounts'
  BY DEF Inv, SoundCounts, Retry, budgets
<1> QED BY <1>1, DropKeeps DEF Retry

LEMMA FaultCounts ==
    ASSUME Inv, Fault, UNCHANGED db
    PROVE  SoundCounts'
BY DeltaAssumption DEF Inv, SoundCounts, Fault

LEMMA CrashKeeps == ASSUME Inv, NEW w \in Workers, Crash(w) PROVE Inv'
BY FaultCounts, DropKeeps DEF Crash

LEMMA SendAnswerLostKeeps == ASSUME Inv, NEW w \in Workers, SendAnswerLost(w) PROVE Inv'
<1>1. worker[w].out \in Sound /\ worker[w].pc = "send"
  BY WorkerFacts DEF SendAnswerLost, SoundWorker
<1>2. Sound' = Sound
  BY SoundSame DEF SendAnswerLost, ledger
<1>3. SoundBags'
  BY <1>1, <1>2, BagsStep DEF Inv, SendAnswerLost
<1>4. SoundWorkers'
  BY <1>1, <1>2, SendFailsSound, WorkersStep DEF Inv, SendAnswerLost
<1>5. SoundLedger'
  BY DEF Inv, SoundLedger, SendAnswerLost, ledger
<1>6. SoundCounts'
  BY FaultCounts DEF SendAnswerLost
<1> QED BY <1>3, <1>4, <1>5, <1>6 DEF Inv

LEMMA CloseFailsKeeps == ASSUME Inv, NEW w \in Workers, CloseFails(w) PROVE Inv'
<1> DEFINE s == [worker[w] EXCEPT !.pc = "retry", !.out = Blank, !.as = "none"]
<1>1. Sound' = Sound
  BY SoundSame DEF CloseFails, ledger
<1>2. SoundWorker(s, Sound)
  BY WorkerFacts, SettledSound
<1>3. worker' = [worker EXCEPT ![w] = s]
  BY DEF CloseFails
<1> HIDE DEF s
<1>4. SoundWorkers'
  BY <1>1, <1>2, <1>3, WorkersStep DEF Inv
<1>5. SoundBags'
  BY <1>1 DEF Inv, SoundBags, CloseFails
<1>6. SoundLedger'
  BY DEF Inv, SoundLedger, CloseFails, ledger
<1>7. SoundCounts'
  BY FaultCounts DEF CloseFails
<1> QED BY <1>4, <1>5, <1>6, <1>7 DEF Inv

\* What the invariant says of a dead letter.
LEMMA LetterFacts ==
    ASSUME Inv, NEW d \in BagToSet(dead)
    PROVE  d \in Letters(Sound) /\ d.msg \in Sound /\ d.tries \in Nat
BY DEF Inv, SoundBags, Letters

LEMMA DlqParkKeeps == ASSUME Inv, DlqPark PROVE Inv'
<1>1. PICK d \in BagToSet(dead) :
         /\ parked' = Put(parked, d.msg)
         /\ dead' = Put(Take(dead, d), [d EXCEPT !.parked = TRUE])
  BY DEF DlqPark
<1>2. d.msg \in Sound /\ [d EXCEPT !.parked = TRUE] \in Letters(Sound)
  BY LetterFacts DEF Letters
<1>3. Sound' = Sound
  BY SoundSame DEF DlqPark, ledger
<1>4. SoundBags'
  BY <1>1, <1>2, <1>3, BagsStep DEF Inv, DlqPark
<1>5. SoundWorkers'
  BY <1>3, WorkersStay DEF Inv, DlqPark
<1>6. SoundLedger' /\ SoundCounts'
  BY DEF Inv, SoundLedger, SoundCounts, DlqPark, ledger, budgets
<1> QED BY <1>4, <1>5, <1>6 DEF Inv

LEMMA DlqCloseKeeps == ASSUME Inv, DlqClose PROVE Inv'
<1>1. PICK d \in BagToSet(dead) :
         /\ IF d.msg.run = NoRun THEN UNCHANGED ledger ELSE CloseRun(d.msg.run, "failed")
         /\ dead' = Take(dead, d)
  BY DEF DlqClose
<1>2. d.msg.run \in Runs \cup {NoRun}
  BY LetterFacts, SoundFields DEF Message
<1>3. SoundLedger' /\ Sound \subseteq Sound'
  <2>1. CASE d.msg.run = NoRun
    <3>1. UNCHANGED ledger
      BY <1>1, <2>1
    <3> QED BY <3>1, SoundSame DEF Inv, SoundLedger, ledger
  <2>2. CASE d.msg.run # NoRun
    BY <1>1, <1>2, <2>2, CloseRunKeeps DEF Inv, Closed
  <2> QED BY <2>1, <2>2
<1>4. SoundBags'
  BY <1>1, <1>3, BagsStep DEF Inv, DlqClose
<1>5. SoundWorkers'
  BY <1>3, WorkersStay DEF Inv, DlqClose
<1>6. SoundCounts'
  BY DEF Inv, SoundCounts, DlqClose, budgets
<1> QED BY <1>3, <1>4, <1>5, <1>6 DEF Inv

LEMMA ReplayKeeps == ASSUME Inv, Replay PROVE Inv'
<1>1. PICK m \in BagToSet(parked) :
         queue' = Put(queue, [m EXCEPT !.bp = 0]) /\ parked' = Take(parked, m)
  BY DEF Replay
<1>2. [m EXCEPT !.bp = 0] \in Sound
  BY CopySound DEF Inv, SoundBags
<1>3. Sound' = Sound
  BY SoundSame DEF Replay, ledger
<1>4. SoundBags'
  BY <1>1, <1>2, <1>3, BagsStep DEF Inv, Replay
<1>5. SoundWorkers'
  BY <1>3, WorkersStay DEF Inv, Replay
<1>6. SoundLedger'
  BY DEF Inv, SoundLedger, Replay, ledger
<1>7. SoundCounts'
  BY DeltaAssumption DEF Inv, SoundCounts, Replay
<1> QED BY <1>4, <1>5, <1>6, <1>7 DEF Inv

LEMMA AgeKeeps == ASSUME Inv, Age PROVE Inv'
<1>1. Sound' = Sound
  BY SoundSame DEF Age
<1>2. SoundBags'
  BY <1>1 DEF Inv, SoundBags, Age
<1>3. SoundWorkers'
  BY <1>1, WorkersStay DEF Inv, Age
<1>4. SoundLedger' /\ SoundCounts'
  BY DEF Inv, SoundLedger, SoundCounts, Age, budgets
<1> QED BY <1>2, <1>3, <1>4 DEF Inv

LEMMA StoredByOthersKeeps == ASSUME Inv, StoredByOthers PROVE Inv'
<1>1. Sound' = Sound
  BY SoundSame DEF StoredByOthers, ledger
<1>2. SoundBags'
  BY <1>1 DEF Inv, SoundBags, StoredByOthers
<1>3. SoundWorkers'
  BY <1>1, WorkersStay DEF Inv, StoredByOthers
<1>4. SoundLedger'
  BY DEF Inv, SoundLedger, StoredByOthers, ledger
<1>5. SoundCounts'
  <2>1. PICK f \in Families :
           \E stored \in StoredAfterChunk(f) : db' = [db EXCEPT ![f] = stored]
    BY DEF StoredByOthers
  <2>2. db[f] \in Nat /\ Stock[f] \in Nat /\ db \in [Families -> Nat]
    BY DeltaAssumption DEF Inv, SoundCounts
  <2>3. StoredAfterChunk(f) \subseteq Nat
    BY <2>2 DEF StoredAfterChunk
  <2>4. db' \in [Families -> Nat]
    BY <2>1, <2>2, <2>3
  <2> QED BY <2>4 DEF Inv, SoundCounts, StoredByOthers, budgets
<1> QED BY <1>2, <1>3, <1>4, <1>5 DEF Inv

LEMMA DlqFailsKeeps == ASSUME Inv, DlqFails PROVE Inv'
<1>1. PICK d \in BagToSet(dead) :
         dead' = IF d.tries >= MaxDlqRetries
                 THEN Take(dead, d)
                 ELSE Put(Take(dead, d), [d EXCEPT !.tries = @ + 1, !.parked = FALSE])
  BY DEF DlqFails
<1> DEFINE t == [d EXCEPT !.tries = @ + 1]
<1> DEFINE e == [t EXCEPT !.parked = FALSE]
<1>2. dead' = Take(dead, d) \/ dead' = Put(Take(dead, d), e)
  BY <1>1
<1>3. t \in Letters(Sound)
  BY LetterFacts DEF Letters
<1> HIDE DEF t
<1>4. e \in Letters(Sound)
  BY <1>3 DEF Letters
<1> HIDE DEF e
<1>5. Sound' = Sound
  BY SoundSame DEF DlqFails, ledger
<1>6. SoundBags'
  BY <1>2, <1>4, <1>5, BagsStep DEF Inv, DlqFails
<1>7. SoundWorkers'
  BY <1>5, WorkersStay DEF Inv, DlqFails
<1>8. SoundLedger'
  BY DEF Inv, SoundLedger, DlqFails, ledger
<1>9. SoundCounts'
  BY FaultCounts DEF DlqFails
<1> QED BY <1>6, <1>7, <1>8, <1>9 DEF Inv

LEMMA ReplayRollsBackKeeps == ASSUME Inv, ReplayRollsBack PROVE Inv'
<1>1. PICK m \in BagToSet(parked) : queue' = Put(queue, [m EXCEPT !.bp = 0])
  BY DEF ReplayRollsBack
<1>2. [m EXCEPT !.bp = 0] \in Sound
  BY CopySound DEF Inv, SoundBags
<1>3. Sound' = Sound
  BY SoundSame DEF ReplayRollsBack, ledger
<1>4. SoundBags'
  BY <1>1, <1>2, <1>3, BagsStep DEF Inv, ReplayRollsBack
<1>5. SoundWorkers'
  BY <1>3, WorkersStay DEF Inv, ReplayRollsBack
<1>6. SoundLedger'
  BY DEF Inv, SoundLedger, ReplayRollsBack, ledger
<1>7. SoundCounts'
  BY FaultCounts DEF ReplayRollsBack
<1> QED BY <1>4, <1>5, <1>6, <1>7 DEF Inv

-----------------------------------------------------------------------------
(***************************************************************************)
(* Theorems                                                                *)
(***************************************************************************)
LEMMA InitSound == Init => Inv
<1> SUFFICES ASSUME Init PROVE Inv
  OBVIOUS
<1>1. SoundBags
  BY EmptyFacts DEF Init, SoundBags
<1>2. SoundWorkers
  <2>1. IdleWorker \in WorkerState
    BY IdleSound DEF SoundWorker
  <2> QED BY <2>1, IdleSound DEF Init, SoundWorkers
<1>3. SoundLedger
  BY DEF Init, SoundLedger, Statuses
<1>4. SoundCounts
  BY DeltaAssumption DEF Init, SoundCounts
<1> QED BY <1>1, <1>2, <1>3, <1>4 DEF Inv

LEMMA NextSound == Inv /\ [Next]_vars => Inv'
<1> SUFFICES ASSUME Inv, [Next]_vars PROVE Inv'
  OBVIOUS
<1>1. CASE UNCHANGED vars
  <2>1. Sound' = Sound
    BY <1>1, SoundSame DEF vars
  <2> QED BY <1>1, <2>1
    DEF Inv, SoundBags, SoundWorkers, SoundLedger, SoundCounts, vars
<1>2. ASSUME NEW w \in Workers, Work(w) PROVE Inv'
  BY <1>2, ReceiveKeeps, GuardKeeps, DecideKeeps, OpenKeeps, PullKeeps, SendKeeps,
     CloseKeeps, RequeueKeeps, AckKeeps, RetryKeeps DEF Work
<1>3. CASE Dlq
  BY <1>3, DlqParkKeeps, DlqCloseKeeps DEF Dlq
<1>4. CASE Faults
  BY <1>4, CrashKeeps, SendAnswerLostKeeps, CloseFailsKeeps, DlqFailsKeeps,
     ReplayRollsBackKeeps DEF Faults
<1>5. CASE Request
  BY <1>5, RequestKeeps
<1>6. CASE Replay
  BY <1>6, ReplayKeeps
<1>7. CASE Age
  BY <1>7, AgeKeeps
<1>8. CASE StoredByOthers
  BY <1>8, StoredByOthersKeeps
<1> QED BY <1>1, <1>2, <1>3, <1>4, <1>5, <1>6, <1>7, <1>8 DEF Next, Rest

\* In every state every message is sound, every worker knows what its step
\* needs, and everything has its type.
THEOREM Invariance == Spec => []Inv
BY InitSound, NextSound, PTL DEF Spec

\* Everything has its type.
THEOREM TypeCorrect == Spec => []TypeOK
<1>1. Inv => TypeOK
  <2> SUFFICES ASSUME Inv PROVE TypeOK
    OBVIOUS
  <2>1. Sound \subseteq Message
    BY SoundFields
  <2>2. Letters(Sound) \subseteq [msg : Message, tries : Nat, parked : BOOLEAN]
    BY <2>1 DEF Letters
  <2> QED BY <2>1, <2>2 DEF Inv, SoundBags, SoundWorkers, SoundLedger, SoundCounts, TypeOK
<1> QED BY <1>1, Invariance, PTL

\* No message ever exceeds the ceilings on rounds, chunks, backpressure and
\* deliveries, and a delta always knows its run and what to pull.
THEOREM MessageBoundsHold == Spec => []MessageBounds
<1>1. Inv => MessageBounds
  <2> SUFFICES ASSUME Inv, NEW m \in Messages PROVE m \in Sound
    BY DEF MessageBounds, Sound
  <2>1. CASE m \in BagToSet(queue) \/ m \in BagToSet(parked)
    BY <2>1 DEF Inv, SoundBags
  <2>2. CASE m \in {d.msg : d \in BagToSet(dead)}
    BY <2>2, LetterFacts
  <2>3. CASE m \in {worker[w].msg : w \in {v \in Workers : worker[v].pc # "idle"}}
    BY <2>3, WorkerFacts
  <2>4. CASE m \in {worker[w].out : w \in {v \in Workers : worker[v].pc = "send"}}
    BY <2>4, WorkerFacts DEF SoundWorker
  <2> QED BY <2>1, <2>2, <2>3, <2>4 DEF Messages
<1> QED BY <1>1, Invariance, PTL

-----------------------------------------------------------------------------
(***************************************************************************)
(* The bound on chains                                                     *)
(***************************************************************************)
LEMMA CountsFinite ==
    ASSUME Inv
    PROVE  /\ IsFiniteSet(Workers) /\ IsFiniteSet(FreshRunning) /\ IsFiniteSet(Opening)
           /\ Cardinality(Workers) \in Nat /\ Cardinality(FreshRunning) \in Nat
           /\ Cardinality(Opening) \in Nat
<1>1. IsFiniteSet(Workers) /\ IsFiniteSet(Runs)
  BY DeltaAssumption
<1>2. FreshRunning \subseteq Runs /\ Opening \subseteq Workers
  BY DEF Inv, SoundLedger, FreshRunning, Opening
<1>3. IsFiniteSet(FreshRunning) /\ IsFiniteSet(Opening)
  BY <1>1, <1>2, FS_Subset
<1> QED BY <1>1, <1>3, FS_CardinalityType

\* Steps that neither open a run nor let a worker past the guard.
LEMMA BoundKept ==
    ASSUME Inv, ChainBound, FreshRunning' \subseteq FreshRunning, Opening' \subseteq Opening
    PROVE  ChainBound'
<1>1. /\ IsFiniteSet(FreshRunning) /\ IsFiniteSet(Opening)
      /\ Cardinality(Workers) \in Nat /\ Cardinality(FreshRunning) \in Nat
      /\ Cardinality(Opening) \in Nat
  BY CountsFinite
<1>2. /\ IsFiniteSet(FreshRunning') /\ Cardinality(FreshRunning') <= Cardinality(FreshRunning)
      /\ IsFiniteSet(Opening') /\ Cardinality(Opening') <= Cardinality(Opening)
  BY <1>1, FS_Subset
<1>3. Cardinality(FreshRunning') \in Nat /\ Cardinality(Opening') \in Nat
  BY <1>2, FS_CardinalityType
<1> QED BY <1>1, <1>2, <1>3 DEF ChainBound

\* A worker that does not go on to "decide" or "open", or was there already, or
\* whose message has a run, is no new worker past the guard.
LEMMA NotOpening ==
    ASSUME worker \in [Workers -> WorkerState], NEW w \in Workers, NEW s,
           worker' = [worker EXCEPT ![w] = s],
           w \in Opening \/ s.pc \notin {"decide", "open"} \/ s.msg.run # NoRun
    PROVE  Opening' \subseteq Opening
BY DEF Opening

LEMMA LedgerStays ==
    ASSUME UNCHANGED ledger
    PROVE  FreshRunning' = FreshRunning
BY DEF ledger, FreshRunning

LEMMA OpeningStays ==
    ASSUME UNCHANGED worker
    PROVE  Opening' = Opening
BY DEF Opening

\* Where the updates of a worker leave its step and its message.
LEMMA UpdatedFields ==
    ASSUME NEW s \in WorkerState, NEW a, NEW b, NEW c
    PROVE  /\ [s EXCEPT !.pc = a].pc = a
           /\ [s EXCEPT !.pc = a].msg = s.msg
           /\ [s EXCEPT !.pc = a, !.out = b].pc = a
           /\ [s EXCEPT !.pc = a, !.out = b].msg = s.msg
           /\ [s EXCEPT !.pc = a, !.as = b].pc = a
           /\ [s EXCEPT !.pc = a, !.as = b].msg = s.msg
           /\ [s EXCEPT !.pc = a, !.out = b, !.as = c].pc = a
BY DEF WorkerState

\* A worker that only moves on, sends or closes is not past the guard.
LEMMA MoveNotOpening ==
    ASSUME Inv, NEW w \in Workers, NEW a, a \notin {"decide", "open"}, NEW b, NEW c,
           \/ worker' = [worker EXCEPT ![w].pc = a]
           \/ worker' = [worker EXCEPT ![w].pc = a, ![w].out = b]
           \/ worker' = [worker EXCEPT ![w].pc = a, ![w].as = b]
           \/ worker' = [worker EXCEPT ![w].pc = a, ![w].out = b, ![w].as = c]
    PROVE  Opening' \subseteq Opening
<1>1. worker \in [Workers -> WorkerState] /\ worker[w] \in WorkerState
  BY WorkerFacts
<1>2. CASE worker' = [worker EXCEPT ![w].pc = a]
  <2> DEFINE s == [worker[w] EXCEPT !.pc = a]
  <2>1. worker' = [worker EXCEPT ![w] = s]
    BY <1>2
  <2>2. s.pc = a
    BY <1>1, UpdatedFields
  <2> HIDE DEF s
  <2> QED BY <1>1, <2>1, <2>2, NotOpening
<1>3. CASE worker' = [worker EXCEPT ![w].pc = a, ![w].out = b]
  <2> DEFINE s == [worker[w] EXCEPT !.pc = a, !.out = b]
  <2>1. worker' = [worker EXCEPT ![w] = s]
    BY <1>3
  <2>2. s.pc = a
    BY <1>1, UpdatedFields
  <2> HIDE DEF s
  <2> QED BY <1>1, <2>1, <2>2, NotOpening
<1>4. CASE worker' = [worker EXCEPT ![w].pc = a, ![w].as = b]
  <2> DEFINE s == [worker[w] EXCEPT !.pc = a, !.as = b]
  <2>1. worker' = [worker EXCEPT ![w] = s]
    BY <1>4
  <2>2. s.pc = a
    BY <1>1, UpdatedFields
  <2> HIDE DEF s
  <2> QED BY <1>1, <2>1, <2>2, NotOpening
<1>5. CASE worker' = [worker EXCEPT ![w].pc = a, ![w].out = b, ![w].as = c]
  <2> DEFINE s == [worker[w] EXCEPT !.pc = a, !.out = b, !.as = c]
  <2>1. worker' = [worker EXCEPT ![w] = s]
    BY <1>5
  <2>2. s.pc = a
    BY <1>1, UpdatedFields
  <2> HIDE DEF s
  <2> QED BY <1>1, <2>1, <2>2, NotOpening
<1> QED BY <1>2, <1>3, <1>4, <1>5

LEMMA IdleNotOpening ==
    ASSUME Inv, NEW w \in Workers, worker' = [worker EXCEPT ![w] = IdleWorker]
    PROVE  Opening' \subseteq Opening
<1>1. IdleWorker.pc = "idle"
  BY DEF IdleWorker
<1> QED BY <1>1, WorkerFacts, NotOpening

LEMMA ReauthenticateNotOpening ==
    ASSUME Inv, NEW w \in Workers, Reauthenticate(w)
    PROVE  Opening' \subseteq Opening
BY MoveNotOpening DEF Reauthenticate, Continue

LEMMA PushbackNotOpening ==
    ASSUME Inv, NEW w \in Workers, Continue(w, Pushback(worker[w].msg))
    PROVE  Opening' \subseteq Opening
<1>1. Pushback(worker[w].msg) \notin {"decide", "open"}
  BY DEF Pushback
<1> QED BY <1>1, MoveNotOpening DEF Continue

LEMMA SendFailsNotOpening ==
    ASSUME Inv, NEW w \in Workers, SendFails(w)
    PROVE  Opening' \subseteq Opening
BY MoveNotOpening DEF SendFails

\* Closing a run only takes it away from those that are running.
LEMMA CloseRunBound ==
    ASSUME Inv, NEW r \in Runs, NEW as \in Closed, CloseRun(r, as)
    PROVE  FreshRunning' \subseteq FreshRunning
<1>1. /\ status \in [Runs -> Statuses] /\ fresh \subseteq Runs
      /\ status' = [status EXCEPT ![r] = as] /\ fresh' = fresh /\ as # "running"
  BY DEF Inv, SoundLedger, CloseRun, Closed
<1>2. \A x \in Runs : status'[x] = "running" => status[x] = "running"
  BY <1>1
<1> QED BY <1>1, <1>2 DEF FreshRunning

LEMMA ReceiveBound == ASSUME Inv, ChainBound, NEW w \in Workers, Receive(w) PROVE ChainBound'
<1>0. PICK m \in BagToSet(queue) :
         \E step \in {Pushback(m),
                      IF m.kind = "delta" THEN "pull"
                      ELSE IF m.run = NoRun THEN "guard" ELSE "decide"} :
            worker' = [worker EXCEPT ![w] = [IdleWorker EXCEPT !.pc = step, !.msg = m]]
  BY DEF Receive
<1>1. PICK step \in {Pushback(m),
                     IF m.kind = "delta" THEN "pull"
                     ELSE IF m.run = NoRun THEN "guard" ELSE "decide"} :
         worker' = [worker EXCEPT ![w] = [IdleWorker EXCEPT !.pc = step, !.msg = m]]
  BY <1>0
<1> DEFINE s == [IdleWorker EXCEPT !.pc = step, !.msg = m]
<1>2. s.pc = step /\ s.msg = m
  BY DEF IdleWorker
<1>3. worker' = [worker EXCEPT ![w] = s]
  BY <1>1
<1> HIDE DEF s
<1>4. step \notin {"decide", "open"} \/ m.run # NoRun
  BY <1>1 DEF Pushback
<1>5. Opening' \subseteq Opening
  BY <1>2, <1>3, <1>4, WorkerFacts, NotOpening
<1>6. FreshRunning' = FreshRunning
  BY LedgerStays DEF Receive
<1> QED BY <1>5, <1>6, BoundKept

\* The guard lets a worker pass only when no young run is running: then the
\* workers past the guard are all there is to count.
LEMMA GuardBound == ASSUME Inv, ChainBound, Inv', NEW w \in Workers, Guard(w) PROVE ChainBound'
<1>1. FreshRunning' = FreshRunning
  BY LedgerStays DEF Guard
<1>2. CASE FreshRunning = {}
  <2>1. IsFiniteSet(Workers) /\ Cardinality(Workers) \in Nat
    BY CountsFinite
  <2>2. Opening' \subseteq Workers
    BY DEF Opening
  <2>3. Cardinality(Opening') <= Cardinality(Workers) /\ IsFiniteSet(Opening')
    BY <2>1, <2>2, FS_Subset
  <2>4. Cardinality(Opening') \in Nat
    BY <2>3, FS_CardinalityType
  <2>5. Cardinality(FreshRunning') = 0
    BY <1>1, <1>2, FS_EmptySet
  <2> QED BY <2>1, <2>3, <2>4, <2>5 DEF ChainBound
<1>3. CASE FreshRunning # {}
  <2>1. Continue(w, "ack") \/ Continue(w, "retry")
    BY <1>3 DEF Guard
  <2>2. Opening' \subseteq Opening
    BY <2>1, MoveNotOpening DEF Continue
  <2> QED BY <1>1, <2>2, BoundKept
<1> QED BY <1>2, <1>3

LEMMA DecideBound == ASSUME Inv, ChainBound, NEW w \in Workers, Decide(w) PROVE ChainBound'
<1> DEFINE m == worker[w].msg
<1>1. FreshRunning' = FreshRunning
  BY LedgerStays DEF Decide
<1>2. CASE Continue(w, "retry")
  BY <1>1, <1>2, MoveNotOpening, BoundKept DEF Continue
<1>3. CASE Continue(w, Pushback(m))
  BY <1>1, <1>3, PushbackNotOpening, BoundKept
<1>4. CASE Reauthenticate(w)
  BY <1>1, <1>4, ReauthenticateNotOpening, BoundKept
<1>5. ASSUME NEW p, worker' = [worker EXCEPT ![w].pc = IF m.run = NoRun THEN "open" ELSE "send",
                                             ![w].out = p]
      PROVE  ChainBound'
  <2>1. CASE m.run # NoRun
    <3>1. worker' = [worker EXCEPT ![w].pc = "send", ![w].out = p]
      BY <1>5, <2>1
    <3>2. Opening' \subseteq Opening
      BY <3>1, MoveNotOpening
    <3> QED BY <1>1, <3>2, BoundKept
  <2>2. CASE m.run = NoRun
    <3> DEFINE s == [worker[w] EXCEPT !.pc = "open", !.out = p]
    <3>1. w \in Opening
      BY <2>2 DEF Opening, Decide
    <3>2. worker' = [worker EXCEPT ![w] = s]
      BY <1>5, <2>2
    <3> HIDE DEF s
    <3>3. Opening' \subseteq Opening
      BY <3>1, <3>2, WorkerFacts, NotOpening
    <3> QED BY <1>1, <3>3, BoundKept
  <2> QED BY <2>1, <2>2
<1>6. ASSUME IF m.run = NoRun
             THEN Continue(w, "ack")
             ELSE worker' = [worker EXCEPT ![w].pc = "close", ![w].as = "completed"]
      PROVE  ChainBound'
  <2>1. Opening' \subseteq Opening
    BY <1>6, MoveNotOpening DEF Continue
  <2> QED BY <1>1, <2>1, BoundKept
<1> QED BY <1>2, <1>3, <1>4, <1>5, <1>6 DEF Decide

\* A worker that opens its run leaves the set of those about to: one for one.
LEMMA OpenBound == ASSUME Inv, ChainBound, NEW w \in Workers, Open(w) PROVE ChainBound'
<1>1. CASE UNCHANGED ledger /\ worker' = [worker EXCEPT ![w].pc = "retry", ![w].out = Blank]
  BY <1>1, LedgerStays, MoveNotOpening, BoundKept
<1>2. ASSUME NEW r \in Runs, status' = [status EXCEPT ![r] = "running"],
             fresh' = fresh \cup {r},
             worker' = [worker EXCEPT ![w].pc = "send", ![w].out.run = r]
      PROVE  ChainBound'
  <2>1. /\ status \in [Runs -> Statuses] /\ fresh \subseteq Runs
        /\ worker \in [Workers -> WorkerState] /\ worker[w] \in WorkerState
        /\ worker[w].pc = "open" /\ worker[w].msg.run = NoRun
    BY WorkerFacts DEF Open, SoundWorker, Inv, SoundLedger
  <2>2. w \in Opening
    BY <2>1 DEF Opening
  <2>3. Opening' \subseteq Opening \ {w}
    <3> DEFINE out == [worker[w].out EXCEPT !.run = r]
    <3> DEFINE s == [worker[w] EXCEPT !.pc = "send", !.out = out]
    <3>1. worker' = [worker EXCEPT ![w] = s]
      BY <1>2
    <3> HIDE DEF out
    <3>2. s.pc = "send"
      BY <2>1, UpdatedFields
    <3> HIDE DEF s
    <3>3. worker'[w].pc = "send"
      BY <2>1, <3>1, <3>2
    <3>4. w \notin Opening'
      BY <3>3 DEF Opening
    <3>5. Opening' \subseteq Opening
      BY <2>1, <3>1, <3>2, NotOpening
    <3> QED BY <3>4, <3>5
  <2>4. FreshRunning' \subseteq FreshRunning \cup {r}
    <3>1. \A x \in Runs : x # r => status'[x] = status[x]
      BY <1>2, <2>1
    <3> QED BY <1>2, <2>1, <3>1 DEF FreshRunning
  <2>5. /\ IsFiniteSet(FreshRunning) /\ IsFiniteSet(Opening)
        /\ Cardinality(Workers) \in Nat /\ Cardinality(FreshRunning) \in Nat
        /\ Cardinality(Opening) \in Nat
    BY CountsFinite
  <2>6. /\ IsFiniteSet(FreshRunning \cup {r})
        /\ Cardinality(FreshRunning \cup {r}) \in Nat
        /\ Cardinality(FreshRunning \cup {r}) <= Cardinality(FreshRunning) + 1
    <3>1. /\ IsFiniteSet(FreshRunning \cup {r})
          /\ \/ Cardinality(FreshRunning \cup {r}) = Cardinality(FreshRunning)
             \/ Cardinality(FreshRunning \cup {r}) = Cardinality(FreshRunning) + 1
      BY <2>5, FS_AddElement, Zenon
    <3> QED BY <2>5, <3>1, FS_CardinalityType
  <2>7. /\ IsFiniteSet(Opening \ {w})
        /\ Cardinality(Opening \ {w}) \in Nat
        /\ Cardinality(Opening \ {w}) = Cardinality(Opening) - 1
    BY <2>2, <2>5, FS_RemoveElement, FS_CardinalityType
  <2>8. /\ IsFiniteSet(FreshRunning')
        /\ Cardinality(FreshRunning') <= Cardinality(FreshRunning \cup {r})
    BY <2>4, <2>6, FS_Subset
  <2>9. /\ IsFiniteSet(Opening')
        /\ Cardinality(Opening') <= Cardinality(Opening \ {w})
    BY <2>3, <2>7, FS_Subset
  <2>10. Cardinality(FreshRunning') \in Nat /\ Cardinality(Opening') \in Nat
    BY <2>8, <2>9, FS_CardinalityType
  <2>11. Workers' = Workers
    OBVIOUS
  <2> QED BY <2>5, <2>6, <2>7, <2>8, <2>9, <2>10 DEF ChainBound
<1> QED BY <1>1, <1>2 DEF Open

LEMMA WorkBound == ASSUME Inv, ChainBound, Inv', NEW w \in Workers, Work(w) PROVE ChainBound'
<1>1. CASE Pull(w)
  <2>1. FreshRunning' = FreshRunning
    BY <1>1, LedgerStays DEF Pull
  <2>2. Opening' \subseteq Opening
    <3>1. CASE Reauthenticate(w)
      BY <3>1, ReauthenticateNotOpening
    <3>2. CASE Continue(w, Pushback(worker[w].msg))
      BY <3>2, PushbackNotOpening
    <3>3. CASE Continue(w, "retry")
      BY <3>3, MoveNotOpening DEF Continue
    <3>4. CASE worker' = [worker EXCEPT ![w].pc = "close", ![w].as = "failed"]
      BY <3>4, MoveNotOpening
    <3>5. ASSUME NEW n, worker' = [worker EXCEPT ![w].pc = "send", ![w].out = n]
          PROVE  Opening' \subseteq Opening
      BY <3>5, MoveNotOpening
    <3> QED BY <1>1, <3>1, <3>2, <3>3, <3>4, <3>5 DEF Pull
  <2> QED BY <2>1, <2>2, BoundKept
<1>2. CASE Send(w)
  <2>1. FreshRunning' = FreshRunning
    BY <1>2, LedgerStays DEF Send
  <2>2. Opening' \subseteq Opening
    BY <1>2, MoveNotOpening, SendFailsNotOpening DEF Send
  <2> QED BY <2>1, <2>2, BoundKept
<1>3. CASE Close(w)
  <2>1. RunOf(w) \in Runs /\ worker[w].as \in Closed
    BY <1>3, RunOfOpened DEF Close
  <2>2. FreshRunning' \subseteq FreshRunning
    BY <1>3, <2>1, CloseRunBound DEF Close
  <2>3. PICK step \in {"retry", "ack"} :
           worker' = [worker EXCEPT ![w].pc = step, ![w].out = Blank, ![w].as = "none"]
    BY <1>3 DEF Close
  <2>4. Opening' \subseteq Opening
    BY <2>3, MoveNotOpening
  <2> QED BY <2>2, <2>4, BoundKept
<1>4. CASE Requeue(w)
  <2>1. FreshRunning' = FreshRunning
    BY <1>4, LedgerStays DEF Requeue
  <2>2. Opening' \subseteq Opening
    BY <1>4, MoveNotOpening DEF Requeue, Continue
  <2> QED BY <2>1, <2>2, BoundKept
<1>5. CASE Ack(w) \/ Retry(w)
  <2>1. FreshRunning' = FreshRunning
    BY <1>5, LedgerStays DEF Ack, Retry
  <2>2. Opening' \subseteq Opening
    BY <1>5, IdleNotOpening DEF Ack, Retry
  <2> QED BY <2>1, <2>2, BoundKept
<1> QED BY <1>1, <1>2, <1>3, <1>4, <1>5, ReceiveBound, GuardBound, DecideBound, OpenBound DEF Work

LEMMA FaultsBound == ASSUME Inv, ChainBound, Faults PROVE ChainBound'
<1>1. CASE DlqFails \/ ReplayRollsBack
  BY <1>1, LedgerStays, OpeningStays, BoundKept DEF DlqFails, ReplayRollsBack
<1>2. ASSUME NEW w \in Workers, Crash(w) PROVE ChainBound'
  BY <1>2, LedgerStays, IdleNotOpening, BoundKept DEF Crash
<1>3. ASSUME NEW w \in Workers, SendAnswerLost(w) PROVE ChainBound'
  BY <1>3, LedgerStays, SendFailsNotOpening, BoundKept DEF SendAnswerLost
<1>4. ASSUME NEW w \in Workers, CloseFails(w) PROVE ChainBound'
  BY <1>4, LedgerStays, MoveNotOpening, BoundKept DEF CloseFails
<1> QED BY <1>1, <1>2, <1>3, <1>4 DEF Faults

LEMMA DlqBound == ASSUME Inv, ChainBound, Dlq PROVE ChainBound'
<1>1. Opening' = Opening
  BY OpeningStays DEF Dlq, DlqPark, DlqClose
<1>2. CASE DlqPark
  BY <1>1, <1>2, LedgerStays, BoundKept DEF DlqPark
<1>3. CASE DlqClose
  <2>1. PICK d \in BagToSet(dead) :
           IF d.msg.run = NoRun THEN UNCHANGED ledger ELSE CloseRun(d.msg.run, "failed")
    BY <1>3 DEF DlqClose
  <2>2. d.msg.run \in Runs \cup {NoRun}
    BY LetterFacts, SoundFields DEF Message
  <2>3. CASE d.msg.run = NoRun
    BY <1>1, <2>1, <2>3, LedgerStays, BoundKept
  <2>4. CASE d.msg.run # NoRun
    <3>1. FreshRunning' \subseteq FreshRunning
      BY <2>1, <2>2, <2>4, CloseRunBound DEF Closed
    <3> QED BY <1>1, <3>1, BoundKept
  <2> QED BY <2>3, <2>4
<1> QED BY <1>2, <1>3 DEF Dlq

LEMMA NextBound == Inv /\ ChainBound /\ Inv' /\ [Next]_vars => ChainBound'
<1> SUFFICES ASSUME Inv, ChainBound, Inv', [Next]_vars PROVE ChainBound'
  OBVIOUS
<1>1. CASE UNCHANGED vars
  BY <1>1, LedgerStays, OpeningStays, BoundKept DEF vars, ledger
<1>2. CASE Request \/ Replay \/ StoredByOthers
  BY <1>2, LedgerStays, OpeningStays, BoundKept DEF Request, Replay, StoredByOthers
<1>3. CASE Age
  <2>1. FreshRunning' \subseteq FreshRunning
    BY <1>3 DEF Age, FreshRunning
  <2> QED BY <1>3, <2>1, OpeningStays, BoundKept DEF Age
<1> QED BY <1>1, <1>2, <1>3, WorkBound, FaultsBound, DlqBound DEF Next, Rest

LEMMA InitBound == Init => ChainBound
<1> SUFFICES ASSUME Init PROVE ChainBound
  OBVIOUS
<1>1. FreshRunning = {} /\ Opening = {}
  BY DEF Init, FreshRunning, Opening, IdleWorker
<1>2. Cardinality(FreshRunning) = 0 /\ Cardinality(Opening) = 0
  BY <1>1, FS_EmptySet
<1>3. Cardinality(Workers) \in Nat
  BY InitSound, CountsFinite
<1> QED BY <1>2, <1>3 DEF ChainBound

\* However often synchronisation is asked for and whatever fails, the young
\* running runs and those about to be opened are never more than the queue
\* has consumers.
THEOREM ChainBoundHolds == Spec => []ChainBound
BY InitBound, NextBound, Invariance, PTL DEF Spec

-----------------------------------------------------------------------------
(***************************************************************************)
(* The ledger of runs                                                      *)
(***************************************************************************)
LEMMA InitLedger == Init => Ledger!Init
BY DEF Init, Ledger!Init

\* The only step that uses the bound on chains.
LEMMA OpenImplements ==
    ASSUME Inv, ChainBound, NEW w \in Workers, Open(w)
    PROVE  [Ledger!Next]_Ledger!vars
<1>1. CASE UNCHANGED ledger
  BY <1>1 DEF ledger, Ledger!vars
<1>2. ASSUME NEW r \in Runs, status[r] = "none", status' = [status EXCEPT ![r] = "running"],
             fresh' = fresh \cup {r}, UNCHANGED numbered
      PROVE  Ledger!Next
  <2>1. worker[w].pc = "open" /\ worker[w].msg.run = NoRun
    BY WorkerFacts DEF Open, SoundWorker
  <2>2. w \in Opening
    BY <2>1 DEF Opening
  <2>3. /\ IsFiniteSet(Opening)
        /\ Cardinality(Workers) \in Nat /\ Cardinality(FreshRunning) \in Nat
        /\ Cardinality(Opening) \in Nat
    BY CountsFinite
  <2>4. Cardinality(Opening) # 0
    BY <2>2, <2>3, FS_EmptySet
  <2>5. Cardinality(FreshRunning) < Cardinality(Workers)
    BY <2>3, <2>4 DEF ChainBound
  <2>6. Ledger!Running = FreshRunning
    BY DEF Ledger!Running, FreshRunning
  <2>7. Ledger!Open(r)
    <3>1. Ledger!Cardinality(FreshRunning) = Cardinality(FreshRunning)
      BY DEF Cardinality, Ledger!Cardinality
    <3>2. Ledger!Cardinality(Ledger!Running) < Cardinality(Workers)
      BY <2>5, <2>6, <3>1
    <3> QED BY <1>2, <3>2 DEF Ledger!Open
  <2> QED BY <2>7 DEF Ledger!Next
<1> QED BY <1>1, <1>2 DEF Open

LEMMA CloseImplements ==
    ASSUME NEW r \in Runs, status[r] # "none", NEW as \in Closed, CloseRun(r, as)
    PROVE  Ledger!Next
<1>1. Ledger!Close(r, as)
  BY DEF CloseRun, Ledger!Close
<1>2. as \in Ledger!Closed
  BY DEF Closed, Ledger!Closed
<1> QED BY <1>1, <1>2 DEF Ledger!Next

LEMMA NextImplements ==
    ASSUME Inv, ChainBound, [Next]_vars
    PROVE  [Ledger!Next]_Ledger!vars
<1>1. CASE UNCHANGED ledger
  BY <1>1 DEF ledger, Ledger!vars
<1>2. ASSUME NEW w \in Workers, Work(w) PROVE [Ledger!Next]_Ledger!vars
  <2>1. CASE Open(w)
    BY <2>1, OpenImplements
  <2>2. CASE Close(w)
    <3>1. /\ RunOf(w) \in Runs /\ status[RunOf(w)] # "none"
          /\ worker[w].as \in Closed
      BY <2>2, RunOfOpened DEF Close
    <3> QED BY <2>2, <3>1, CloseImplements DEF Close
  <2>3. CASE ~Open(w) /\ ~Close(w)
    <3>1. UNCHANGED ledger
      BY <1>2, <2>3 DEF Work, Receive, Guard, Decide, Pull, Send, Requeue, Ack, Retry
    <3> QED BY <1>1, <3>1
  <2> QED BY <2>1, <2>2, <2>3
<1>3. CASE DlqClose
  <2>1. PICK d \in BagToSet(dead) :
           IF d.msg.run = NoRun THEN UNCHANGED ledger ELSE CloseRun(d.msg.run, "failed")
    BY <1>3 DEF DlqClose
  <2>2. /\ d.msg.run \in Runs \cup {NoRun}
        /\ d.msg.run # NoRun => status[d.msg.run] # "none"
    BY LetterFacts, SoundFields DEF Message
  <2>3. CASE d.msg.run = NoRun
    BY <1>1, <2>1, <2>3
  <2>4. CASE d.msg.run # NoRun
    BY <2>1, <2>2, <2>4, CloseImplements DEF Closed
  <2> QED BY <2>3, <2>4
<1>4. CASE Age
  <2>1. PICK r \in FreshRunning : fresh' = fresh \ {r}
    BY <1>4 DEF Age
  <2>2. r \in Runs
    BY DEF Inv, SoundLedger, FreshRunning
  <2>3. Ledger!GrowOld(r)
    BY <1>4, <2>1 DEF Age, Ledger!GrowOld
  <2> QED BY <2>2, <2>3 DEF Ledger!Next
<1>5. CASE Request \/ Replay \/ StoredByOthers \/ DlqPark \/ Faults \/ UNCHANGED vars
  <2>1. UNCHANGED ledger
    BY <1>5 DEF Request, Replay, StoredByOthers, DlqPark, Faults, Crash, SendAnswerLost, CloseFails, DlqFails,
       ReplayRollsBack, vars, ledger
  <2> QED BY <1>1, <2>1
<1> QED BY <1>2, <1>3, <1>4, <1>5 DEF Next, Dlq, Rest

\* Every behaviour of queue, workers, dead letters and failures is one of the
\* ledger of runs.
THEOREM LedgerImplemented == Spec => LedgerSpec
BY InitLedger, NextImplements, Invariance, ChainBoundHolds, PTL
   DEF Spec, LedgerSpec, Ledger!Spec

-----------------------------------------------------------------------------
(***************************************************************************)
(* Counting copies                                                         *)
(***************************************************************************)
FiniteBag(b) == IsABag(b) /\ IsFiniteSet(BagToSet(b))

\* Only the messages that are in the bag matter.
LEMMA CopiesOfThoseThere ==
    ASSUME NEW b, NEW S, NEW T, S \cap BagToSet(b) = T \cap BagToSet(b)
    PROVE  Copies(b, S) = Copies(b, T)
BY DEF Copies

LEMMA CopiesFinite ==
    ASSUME NEW b, FiniteBag(b), NEW S
    PROVE  IsFiniteSet(Copies(b, S)) /\ Cardinality(Copies(b, S)) \in Nat
<1> DEFINE T == BagToSet(b) \cap S
<1> DEFINE f == [m \in T |-> {m} \X (1..b[m])]
<1>1. IsFiniteSet(T)
  BY FS_Intersection DEF FiniteBag
<1>2. \A m \in T : IsFiniteSet({m} \X (1..b[m]))
  <2> TAKE m \in T
  <2>1. b[m] \in Nat
    BY DEF FiniteBag, IsABag, BagToSet
  <2> DEFINE k == b[m]
  <2>2. k \in Int /\ 1 \in Int
    BY <2>1
  <2> HIDE DEF k
  <2>3. IsFiniteSet({m})
    BY FS_Singleton
  <2>4. IsFiniteSet(1..k)
    BY <2>2, FS_Interval
  <2>5. IsFiniteSet({m} \X (1..k))
    BY <2>3, <2>4, FS_Product
  <2> QED BY <2>5 DEF k
<1>3. f \in Surjection(T, {f[m] : m \in T})
  BY DEF Surjection
<1>4. IsFiniteSet({f[m] : m \in T})
  BY <1>1, <1>3, FS_Surjection
<1>5. \A X \in {f[m] : m \in T} : IsFiniteSet(X)
  BY <1>2
<1>6. IsFiniteSet(UNION {f[m] : m \in T})
  BY <1>4, <1>5, FS_UNION
<1>7. Copies(b, S) = UNION {f[m] : m \in T}
  BY DEF Copies
<1> QED BY <1>6, <1>7, FS_CardinalityType

\* One copy more of a message of S, and only of it.
LEMMA PutCounts ==
    ASSUME NEW b, FiniteBag(b), NEW m, NEW S
    PROVE  /\ FiniteBag(Put(b, m))
           /\ Cardinality(Copies(Put(b, m), S))
              = Cardinality(Copies(b, S)) + (IF m \in S THEN 1 ELSE 0)
<1> DEFINE c == Put(b, m)
<1>1. IsABag(c) /\ BagToSet(c) = BagToSet(b) \cup {m}
  BY PutFacts DEF FiniteBag
<1>2. FiniteBag(c)
  BY <1>1, FS_AddElement DEF FiniteBag
<1> DEFINE n == (IF m \in BagToSet(b) THEN b[m] ELSE 0) + 1
<1>3. /\ \A x \in BagToSet(b) : b[x] \in Nat /\ b[x] > 0
      /\ \A x \in BagToSet(b) : x # m => c[x] = b[x]
      /\ c[m] = n /\ n \in Nat
  BY DEF Put, FiniteBag, IsABag, BagToSet, SetToBag, (+)
<1> HIDE DEF c
<1>4. CASE m \notin S
  <2>1. Copies(c, S) = Copies(b, S)
    BY <1>1, <1>3, <1>4 DEF Copies
  <2> QED BY <1>2, <1>4, <2>1, CopiesFinite DEF c
<1>5. CASE m \in S
  <2>1. <<m, n>> \notin Copies(b, S)
    BY <1>3 DEF Copies
  <2>2. Copies(c, S) = Copies(b, S) \cup {<<m, n>>}
    <3>1. ASSUME NEW z \in Copies(c, S) PROVE z \in Copies(b, S) \cup {<<m, n>>}
      <4>1. PICK x \in BagToSet(c) \cap S : z \in {x} \X (1..c[x])
        BY DEF Copies
      <4>2. PICK k \in 1..c[x] : z = <<x, k>>
        BY <4>1
      <4>3. CASE x # m
        BY <1>1, <1>3, <4>1, <4>2, <4>3 DEF Copies
      <4>4. CASE x = m /\ k = n
        BY <4>2, <4>4
      <4>5. CASE x = m /\ k # n
        <5>1. m \in BagToSet(b) /\ k \in 1..b[m]
          BY <1>3, <4>2, <4>5
        <5> QED BY <1>5, <4>2, <4>5, <5>1 DEF Copies
      <4> QED BY <4>3, <4>4, <4>5
    <3>2. ASSUME NEW z \in Copies(b, S) PROVE z \in Copies(c, S)
      <4>1. PICK x \in BagToSet(b) \cap S : z \in {x} \X (1..b[x])
        BY DEF Copies
      <4>2. PICK k \in 1..b[x] : z = <<x, k>>
        BY <4>1
      <4>3. k \in 1..c[x]
        BY <1>3, <4>2
      <4> QED BY <1>1, <4>2, <4>3 DEF Copies
    <3>3. <<m, n>> \in Copies(c, S)
      <4>1. n \in 1..c[m]
        BY <1>3
      <4> QED BY <1>1, <1>5, <4>1 DEF Copies
    <3> QED BY <3>1, <3>2, <3>3
  <2>3. Cardinality(Copies(c, S)) = Cardinality(Copies(b, S)) + 1
    BY <2>1, <2>2, CopiesFinite, FS_AddElement
  <2> QED BY <1>2, <1>5, <2>3 DEF c
<1> QED BY <1>4, <1>5

\* One copy less, of a message that is there.
LEMMA TakeCounts ==
    ASSUME NEW b, FiniteBag(b), NEW m \in BagToSet(b), NEW S
    PROVE  /\ FiniteBag(Take(b, m))
           /\ Cardinality(Copies(Take(b, m), S))
              = Cardinality(Copies(b, S)) - (IF m \in S THEN 1 ELSE 0)
<1> DEFINE c == Take(b, m)
<1>1. IsABag(c) /\ BagToSet(c) \subseteq BagToSet(b)
  BY TakeFacts DEF FiniteBag
<1>2. FiniteBag(c)
  BY <1>1, FS_Subset DEF FiniteBag
<1>3. Put(c, m) = b
  <2>1. \A x \in BagToSet(b) : b[x] \in Nat /\ b[x] > 0
    BY DEF FiniteBag, IsABag, BagToSet
  <2>2. b = [x \in DOMAIN b |-> b[x]]
    BY DEF FiniteBag, IsABag
  <2>3. /\ DOMAIN c = {x \in DOMAIN b : x # m \/ b[m] > 1}
        /\ \A x \in DOMAIN c : c[x] = IF x = m THEN b[m] - 1 ELSE b[x]
    BY <2>1 DEF Take, BagToSet, SetToBag, (-)
  <2> HIDE DEF c
  <2>4. DOMAIN Put(c, m) = DOMAIN b
    BY <2>3 DEF Put, SetToBag, (+), BagToSet
  <2>5. ASSUME NEW x \in DOMAIN b PROVE Put(c, m)[x] = b[x]
    BY <2>1, <2>3 DEF Put, SetToBag, (+), BagToSet
  <2>6. Put(c, m) = [x \in DOMAIN Put(c, m) |-> Put(c, m)[x]]
    BY DEF Put, (+)
  <2> QED BY <2>2, <2>4, <2>5, <2>6
<1> HIDE DEF c
<1>4. Cardinality(Copies(b, S)) = Cardinality(Copies(c, S)) + (IF m \in S THEN 1 ELSE 0)
  BY <1>2, <1>3, PutCounts
<1>5. Cardinality(Copies(c, S)) \in Nat
  BY <1>2, CopiesFinite
<1> QED BY <1>2, <1>4, <1>5 DEF c

-----------------------------------------------------------------------------
(***************************************************************************)
(* What a message, a dead letter and a worker carry of run r               *)
(***************************************************************************)
Queued(b, r) == Cardinality(Copies(b, {m \in BagToSet(b) : m.run = r}))
Buried(b, r) == Cardinality(Copies(b, {d \in BagToSet(b) : d.msg.run = r}))

Of(m, r) == IF m.run = r THEN 1 ELSE 0

Owed(s, r) ==
    IF /\ s.pc \notin {"idle", "ack"}
       /\ (IF s.msg.run = NoRun THEN s.out.run ELSE s.msg.run) = r
    THEN 1 ELSE 0

LEMMA CountsAreNat ==
    ASSUME NEW b, FiniteBag(b), NEW r
    PROVE  Queued(b, r) \in Nat /\ Buried(b, r) \in Nat
BY CopiesFinite DEF Queued, Buried

LEMMA QueuedPut ==
    ASSUME NEW b, FiniteBag(b), NEW m, NEW r
    PROVE  FiniteBag(Put(b, m)) /\ Queued(Put(b, m), r) = Queued(b, r) + Of(m, r)
<1> DEFINE S == {x \in BagToSet(b) \cup {m} : x.run = r}
<1>1. BagToSet(Put(b, m)) = BagToSet(b) \cup {m}
  BY PutFacts DEF FiniteBag
<1>2. Copies(b, S) = Copies(b, {x \in BagToSet(b) : x.run = r})
  <2>1. S \cap BagToSet(b) = {x \in BagToSet(b) : x.run = r} \cap BagToSet(b)
    OBVIOUS
  <2> QED BY <2>1, CopiesOfThoseThere
<1>3. FiniteBag(Put(b, m))
      /\ Cardinality(Copies(Put(b, m), S))
         = Cardinality(Copies(b, S)) + (IF m \in S THEN 1 ELSE 0)
  BY PutCounts
<1>4. m \in S <=> m.run = r
  OBVIOUS
<1> QED BY <1>1, <1>2, <1>3, <1>4 DEF Queued, Of

LEMMA BuriedPut ==
    ASSUME NEW b, FiniteBag(b), NEW m, NEW r
    PROVE  FiniteBag(Put(b, m)) /\ Buried(Put(b, m), r) = Buried(b, r) + Of(m.msg, r)
<1> DEFINE S == {x \in BagToSet(b) \cup {m} : x.msg.run = r}
<1>1. BagToSet(Put(b, m)) = BagToSet(b) \cup {m}
  BY PutFacts DEF FiniteBag
<1>2. Copies(b, S) = Copies(b, {x \in BagToSet(b) : x.msg.run = r})
  <2>1. S \cap BagToSet(b) = {x \in BagToSet(b) : x.msg.run = r} \cap BagToSet(b)
    OBVIOUS
  <2> QED BY <2>1, CopiesOfThoseThere
<1>3. FiniteBag(Put(b, m))
      /\ Cardinality(Copies(Put(b, m), S))
         = Cardinality(Copies(b, S)) + (IF m \in S THEN 1 ELSE 0)
  BY PutCounts
<1>4. m \in S <=> m.msg.run = r
  OBVIOUS
<1> QED BY <1>1, <1>2, <1>3, <1>4 DEF Buried, Of

LEMMA QueuedTake ==
    ASSUME NEW b, FiniteBag(b), NEW m \in BagToSet(b), NEW r
    PROVE  FiniteBag(Take(b, m)) /\ Queued(Take(b, m), r) = Queued(b, r) - Of(m, r)
<1> DEFINE S == {x \in BagToSet(b) : x.run = r}
<1> DEFINE T == {x \in BagToSet(Take(b, m)) : x.run = r}
<1>1. BagToSet(Take(b, m)) \subseteq BagToSet(b)
  BY TakeFacts DEF FiniteBag
<1>2. Copies(Take(b, m), S) = Copies(Take(b, m), T)
  <2>1. S \cap BagToSet(Take(b, m)) = T \cap BagToSet(Take(b, m))
    BY <1>1
  <2> QED BY <2>1, CopiesOfThoseThere
<1>3. FiniteBag(Take(b, m))
      /\ Cardinality(Copies(Take(b, m), S))
         = Cardinality(Copies(b, S)) - (IF m \in S THEN 1 ELSE 0)
  BY TakeCounts
<1>4. m \in S <=> m.run = r
  OBVIOUS
<1> QED BY <1>2, <1>3, <1>4 DEF Queued, Of

LEMMA BuriedTake ==
    ASSUME NEW b, FiniteBag(b), NEW m \in BagToSet(b), NEW r
    PROVE  FiniteBag(Take(b, m)) /\ Buried(Take(b, m), r) = Buried(b, r) - Of(m.msg, r)
<1> DEFINE S == {x \in BagToSet(b) : x.msg.run = r}
<1> DEFINE T == {x \in BagToSet(Take(b, m)) : x.msg.run = r}
<1>1. BagToSet(Take(b, m)) \subseteq BagToSet(b)
  BY TakeFacts DEF FiniteBag
<1>2. Copies(Take(b, m), S) = Copies(Take(b, m), T)
  <2>1. S \cap BagToSet(Take(b, m)) = T \cap BagToSet(Take(b, m))
    BY <1>1
  <2> QED BY <2>1, CopiesOfThoseThere
<1>3. FiniteBag(Take(b, m))
      /\ Cardinality(Copies(Take(b, m), S))
         = Cardinality(Copies(b, S)) - (IF m \in S THEN 1 ELSE 0)
  BY TakeCounts
<1>4. m \in S <=> m.msg.run = r
  OBVIOUS
<1> QED BY <1>2, <1>3, <1>4 DEF Buried, Of

\* One worker steps: what it owed is replaced by what it owes now.
LEMMA HoldersStep ==
    ASSUME worker \in [Workers -> WorkerState], NEW w \in Workers, NEW s,
           worker' = [worker EXCEPT ![w] = s], NEW r
    PROVE  /\ Cardinality(Holders(r)) \in Nat /\ Cardinality(Holders(r)') \in Nat
           /\ Cardinality(Holders(r)')
              = Cardinality(Holders(r)) - Owed(worker[w], r) + Owed(s, r)
<1>1. IsFiniteSet(Workers) /\ Holders(r) \subseteq Workers /\ Holders(r)' \subseteq Workers
  BY DeltaAssumption DEF Holders
<1>2. IsFiniteSet(Holders(r)) /\ IsFiniteSet(Holders(r)')
  BY <1>1, FS_Subset
<1>3. Cardinality(Holders(r)) \in Nat /\ Cardinality(Holders(r)') \in Nat
  BY <1>2, FS_CardinalityType
<1>4. worker'[w] = s /\ \A v \in Workers : v # w => worker'[v] = worker[v]
  OBVIOUS
<1>5. /\ w \in Holders(r) <=> Owed(worker[w], r) = 1
      /\ w \in Holders(r)' <=> Owed(s, r) = 1
      /\ Owed(worker[w], r) \in {0, 1} /\ Owed(s, r) \in {0, 1}
  BY <1>4 DEF Holders, RunOf, Owed
<1>6. \A v \in Workers : v # w => (v \in Holders(r) <=> v \in Holders(r)')
  BY <1>4 DEF Holders, RunOf
<1>7. CASE w \in Holders(r) <=> w \in Holders(r)'
  <2>1. Holders(r)' = Holders(r)
    BY <1>1, <1>6, <1>7
  <2> QED BY <1>3, <1>5, <1>7, <2>1
<1>8. CASE w \in Holders(r) /\ w \notin Holders(r)'
  <2>1. Holders(r)' = Holders(r) \ {w}
    BY <1>1, <1>6, <1>8
  <2>2. Cardinality(Holders(r)') = Cardinality(Holders(r)) - 1
    BY <1>2, <1>8, <2>1, FS_RemoveElement
  <2> QED BY <1>3, <1>5, <1>8, <2>2
<1>9. CASE w \notin Holders(r) /\ w \in Holders(r)'
  <2>1. Holders(r)' = Holders(r) \cup {w}
    BY <1>1, <1>6, <1>9
  <2>2. Cardinality(Holders(r)') = Cardinality(Holders(r)) + 1
    BY <1>2, <1>9, <2>1, FS_AddElement
  <2> QED BY <1>3, <1>5, <1>9, <2>2
<1> QED BY <1>7, <1>8, <1>9

LEMMA HoldersStay ==
    ASSUME worker' = worker, NEW r
    PROVE  Holders(r)' = Holders(r) /\ Cardinality(Holders(r)) \in Nat
<1>1. IsFiniteSet(Workers) /\ Holders(r) \subseteq Workers
  BY DeltaAssumption DEF Holders
<1>2. IsFiniteSet(Holders(r))
  BY <1>1, FS_Subset
<1> QED BY <1>2, FS_CardinalityType DEF Holders, RunOf

-----------------------------------------------------------------------------
(***************************************************************************)
(* The invariant, and what a step may do to the number of carriers         *)
(***************************************************************************)
\* A worker's successor carries its message's run; only an audit that has
\* opened a run holds a successor with another one, and only until it is sent
\* or the run is closed again.
Linked(s) ==
    /\ s.pc \notin {"send", "close"} /\ s.msg.run = NoRun => s.out.run = NoRun
    /\ s.pc = "send" /\ s.msg.run # NoRun => s.out.run = s.msg.run

Chain ==
    /\ FiniteBag(queue) /\ FiniteBag(dead)
    /\ \A w \in Workers : Linked(worker[w])

\* The chain goes on: every run has as many carriers as before.
Kept == status' = status /\ \A r \in Runs : InFlight(r)' = InFlight(r)

\* A chain begins: an unused run is running and has one carrier more.
Begun ==
    \E s \in Runs :
        /\ status[s] = "none" /\ status' = [status EXCEPT ![s] = "running"]
        /\ \A r \in Runs : InFlight(r)' = InFlight(r) + (IF r = s THEN 1 ELSE 0)

\* A chain ends: its run is closed and has one carrier less.
Ended ==
    \E s \in Runs, as \in Closed :
        /\ status' = [status EXCEPT ![s] = as]
        /\ \A r \in Runs : InFlight(r)' = InFlight(r) - (IF r = s THEN 1 ELSE 0)

\* A message is played back: no run has fewer carriers.
Doubled ==
    /\ status' = status /\ replays' = replays + 1
    /\ \A r \in Runs : InFlight(r)' >= InFlight(r)

\* A fault: one run at most has fewer carriers.
Broken ==
    /\ status' = status /\ faults' = faults + 1
    /\ \E s \in Runs \cup {NoRun} : \A r \in Runs : r # s => InFlight(r)' >= InFlight(r)

LEMMA WorkersLinked ==
    ASSUME Inv, Chain, NEW w \in Workers, NEW s, Linked(s), worker' = [worker EXCEPT ![w] = s]
    PROVE  \A v \in Workers : Linked(worker'[v])
<1>1. worker \in [Workers -> WorkerState]
  BY WorkerFacts
<1>2. worker'[w] = s /\ \A v \in Workers : v # w => worker'[v] = worker[v]
  BY <1>1
<1> QED BY <1>2 DEF Chain

\* The sum, when one worker steps and when none does.
LEMMA StepCounts ==
    ASSUME Inv, Chain, NEW w \in Workers, NEW s, Linked(s), worker' = [worker EXCEPT ![w] = s],
           FiniteBag(queue'), FiniteBag(dead'), NEW r
    PROVE  /\ Chain'
           /\ InFlight(r) \in Nat /\ InFlight(r)' \in Nat
           /\ Owed(worker[w], r) \in {0, 1} /\ Owed(s, r) \in {0, 1}
           /\ InFlight(r)' = InFlight(r) + (Owed(s, r) - Owed(worker[w], r))
                             + (Queued(queue', r) - Queued(queue, r))
                             + (Buried(dead', r) - Buried(dead, r))
<1>1. Chain'
  BY WorkersLinked DEF Chain
<1>2. /\ Queued(queue, r) \in Nat /\ Buried(dead, r) \in Nat
      /\ Queued(queue', r) \in Nat /\ Buried(dead', r) \in Nat
  BY CountsAreNat DEF Chain
<1>3. worker \in [Workers -> WorkerState]
  BY WorkerFacts
<1>4. /\ Cardinality(Holders(r)) \in Nat /\ Cardinality(Holders(r)') \in Nat
      /\ Cardinality(Holders(r)') = Cardinality(Holders(r)) - Owed(worker[w], r) + Owed(s, r)
  BY <1>3, HoldersStep
<1>5. Owed(worker[w], r) \in {0, 1} /\ Owed(s, r) \in {0, 1}
  BY DEF Owed
<1>6. /\ InFlight(r) = Queued(queue, r) + Buried(dead, r) + Cardinality(Holders(r))
      /\ InFlight(r)' = Queued(queue', r) + Buried(dead', r) + Cardinality(Holders(r)')
  BY DEF InFlight, Queued, Buried
<1> QED BY <1>1, <1>2, <1>4, <1>5, <1>6

LEMMA RestCounts ==
    ASSUME Inv, Chain, worker' = worker, FiniteBag(queue'), FiniteBag(dead'), NEW r
    PROVE  /\ Chain'
           /\ InFlight(r) \in Nat /\ InFlight(r)' \in Nat
           /\ InFlight(r)' = InFlight(r) + (Queued(queue', r) - Queued(queue, r))
                             + (Buried(dead', r) - Buried(dead, r))
<1>1. Chain'
  BY DEF Chain
<1>2. /\ Queued(queue, r) \in Nat /\ Buried(dead, r) \in Nat
      /\ Queued(queue', r) \in Nat /\ Buried(dead', r) \in Nat
  BY CountsAreNat DEF Chain
<1>3. Holders(r)' = Holders(r) /\ Cardinality(Holders(r)) \in Nat
  BY HoldersStay
<1>4. /\ InFlight(r) = Queued(queue, r) + Buried(dead, r) + Cardinality(Holders(r))
      /\ InFlight(r)' = Queued(queue', r) + Buried(dead', r) + Cardinality(Holders(r)')
  BY DEF InFlight, Queued, Buried
<1> QED BY <1>1, <1>2, <1>3, <1>4

\* A step of one worker that leaves the queues alone.
LEMMA WorkerCounts ==
    ASSUME Inv, Chain, NEW w \in Workers, NEW s, Linked(s), worker' = [worker EXCEPT ![w] = s],
           UNCHANGED <<queue, dead>>, NEW r
    PROVE  /\ Chain'
           /\ InFlight(r) \in Nat /\ InFlight(r)' \in Nat
           /\ Owed(worker[w], r) \in {0, 1} /\ Owed(s, r) \in {0, 1}
           /\ InFlight(r)' = InFlight(r) + (Owed(s, r) - Owed(worker[w], r))
<1>1. FiniteBag(queue') /\ FiniteBag(dead')
  BY DEF Chain
<1>2. Queued(queue', r) = Queued(queue, r) /\ Buried(dead', r) = Buried(dead, r)
  OBVIOUS
<1>3. Queued(queue, r) \in Nat /\ Buried(dead, r) \in Nat
  BY CountsAreNat DEF Chain
<1>4. /\ Chain'
      /\ InFlight(r) \in Nat /\ InFlight(r)' \in Nat
      /\ Owed(worker[w], r) \in {0, 1} /\ Owed(s, r) \in {0, 1}
      /\ InFlight(r)' = InFlight(r) + (Owed(s, r) - Owed(worker[w], r))
                        + (Queued(queue', r) - Queued(queue, r))
                        + (Buried(dead', r) - Buried(dead, r))
  BY <1>1, StepCounts
<1> QED BY <1>2, <1>3, <1>4

LEMMA WorkerKeeps ==
    ASSUME Inv, Chain, NEW w \in Workers, NEW s, Linked(s), worker' = [worker EXCEPT ![w] = s],
           UNCHANGED <<queue, dead, status>>,
           \A r \in Runs : Owed(s, r) = Owed(worker[w], r)
    PROVE  Chain' /\ Kept
<1>1. Chain'
  BY WorkerCounts
<1>2. ASSUME NEW r \in Runs PROVE InFlight(r)' = InFlight(r)
  <2>1. /\ InFlight(r) \in Nat /\ InFlight(r)' \in Nat
        /\ Owed(worker[w], r) \in {0, 1} /\ Owed(s, r) \in {0, 1}
        /\ InFlight(r)' = InFlight(r) + (Owed(s, r) - Owed(worker[w], r))
    BY WorkerCounts
  <2> QED BY <2>1
<1> QED BY <1>1, <1>2 DEF Kept

-----------------------------------------------------------------------------
(***************************************************************************)
(* The moves of a worker                                                   *)
(***************************************************************************)
LEMMA UpdatedOut ==
    ASSUME NEW s \in WorkerState, NEW a, NEW b, NEW c
    PROVE  /\ [s EXCEPT !.pc = a].out = s.out
           /\ [s EXCEPT !.pc = a, !.as = b].out = s.out
           /\ [s EXCEPT !.pc = a, !.out = b].out = b
           /\ [s EXCEPT !.pc = a, !.out = b, !.as = c].out = b
           /\ [s EXCEPT !.pc = a, !.out = b, !.as = c].msg = s.msg
BY DEF WorkerState

\* It goes on with the same message and owes what it owed.
LEMMA GoesOn ==
    ASSUME Inv, Chain, NEW w \in Workers, NEW a, NEW b,
           worker[w].pc \notin {"idle", "ack", "send", "close"},
           a \notin {"idle", "ack", "send"},
           \/ worker' = [worker EXCEPT ![w].pc = a]
           \/ worker' = [worker EXCEPT ![w].pc = a, ![w].as = b],
           UNCHANGED <<queue, dead, status>>
    PROVE  Chain' /\ Kept
<1> DEFINE o == worker[w]
<1>1. worker \in [Workers -> WorkerState] /\ o \in WorkerState
  BY WorkerFacts
<1>2. Linked(o)
  BY DEF Chain
<1>3. \E s : s.pc = a /\ s.msg = o.msg /\ s.out = o.out /\ worker' = [worker EXCEPT ![w] = s]
  <2>1. CASE worker' = [worker EXCEPT ![w].pc = a]
    <3> DEFINE s == [o EXCEPT !.pc = a]
    <3>1. s.pc = a /\ s.msg = o.msg /\ s.out = o.out
      BY <1>1, UpdatedFields, UpdatedOut
    <3>2. worker' = [worker EXCEPT ![w] = s]
      BY <2>1
    <3> QED BY <3>1, <3>2
  <2>2. CASE worker' = [worker EXCEPT ![w].pc = a, ![w].as = b]
    <3> DEFINE s == [o EXCEPT !.pc = a, !.as = b]
    <3>1. s.pc = a /\ s.msg = o.msg /\ s.out = o.out
      BY <1>1, UpdatedFields, UpdatedOut
    <3>2. worker' = [worker EXCEPT ![w] = s]
      BY <2>2
    <3> QED BY <3>1, <3>2
  <2> QED BY <2>1, <2>2
<1>4. PICK s : s.pc = a /\ s.msg = o.msg /\ s.out = o.out /\ worker' = [worker EXCEPT ![w] = s]
  BY <1>3
<1>5. Linked(s)
  BY <1>2, <1>4 DEF Linked
<1>6. \A r \in Runs : Owed(s, r) = Owed(o, r)
  BY <1>4 DEF Owed
<1> QED BY <1>4, <1>5, <1>6, WorkerKeeps

\* A worker that carries no run may let go of its message.
LEMMA LetsGo ==
    ASSUME Inv, Chain, NEW w \in Workers,
           worker[w].pc \notin {"send", "close"}, worker[w].msg.run = NoRun,
           Continue(w, "ack"), UNCHANGED <<queue, dead, status>>
    PROVE  Chain' /\ Kept
<1> DEFINE o == worker[w]
<1> DEFINE s == [o EXCEPT !.pc = "ack"]
<1>1. worker \in [Workers -> WorkerState] /\ o \in WorkerState
  BY WorkerFacts
<1>2. s.pc = "ack" /\ s.msg = o.msg /\ s.out = o.out
  BY <1>1, UpdatedFields, UpdatedOut
<1>3. worker' = [worker EXCEPT ![w] = s]
  BY DEF Continue
<1>4. Linked(o) /\ o.out.run = NoRun
  BY DEF Chain, Linked
<1> HIDE DEF s
<1>5. Linked(s)
  BY <1>2, <1>4 DEF Linked
<1>6. \A r \in Runs : Owed(s, r) = Owed(o, r)
  BY <1>2, <1>4, BoundsAreNat DEF Owed
<1> QED BY <1>3, <1>5, <1>6, WorkerKeeps

LEMMA ReauthenticateChain ==
    ASSUME Inv, Chain, NEW w \in Workers,
           worker[w].pc \notin {"idle", "ack", "send", "close"},
           Reauthenticate(w), UNCHANGED <<queue, dead, status>>
    PROVE  Chain' /\ Kept
<1>1. CASE worker[w].msg.run = NoRun
  BY <1>1, LetsGo DEF Reauthenticate
<1>2. CASE worker[w].msg.run # NoRun
  BY <1>2, GoesOn DEF Reauthenticate
<1> QED BY <1>1, <1>2

LEMMA PushbackChain ==
    ASSUME Inv, Chain, NEW w \in Workers,
           worker[w].pc \notin {"idle", "ack", "send", "close"},
           Continue(w, Pushback(worker[w].msg)), UNCHANGED <<queue, dead, status>>
    PROVE  Chain' /\ Kept
<1>1. Pushback(worker[w].msg) \notin {"idle", "ack", "send"}
  BY DEF Pushback
<1> QED BY <1>1, GoesOn DEF Continue

LEMMA RetryChain ==
    ASSUME Inv, Chain, NEW w \in Workers,
           worker[w].pc \notin {"idle", "ack", "send", "close"},
           Continue(w, "retry"), UNCHANGED <<queue, dead, status>>
    PROVE  Chain' /\ Kept
<1>1. "retry" \notin {"idle", "ack", "send"}
  OBVIOUS
<1> QED BY <1>1, GoesOn DEF Continue

-----------------------------------------------------------------------------
(***************************************************************************)
(* What each action does to a chain                                        *)
(***************************************************************************)
LEMMA RequestChain == ASSUME Inv, Chain, Request PROVE Chain' /\ Kept
<1>1. /\ queue' = Put(queue, AuditRequest) /\ dead' = dead /\ worker' = worker
      /\ status' = status
  BY DEF Request, ledger
<1>2. FiniteBag(queue') /\ FiniteBag(dead')
  BY <1>1, QueuedPut DEF Chain
<1>3. Chain'
  BY <1>1, <1>2, RestCounts
<1>4. ASSUME NEW r \in Runs PROVE InFlight(r)' = InFlight(r)
  <2>1. Of(AuditRequest, r) = 0
    BY RequestSound, BoundsAreNat DEF Of
  <2>2. Queued(queue', r) = Queued(queue, r) + Of(AuditRequest, r)
    BY <1>1, QueuedPut DEF Chain
  <2>3. Queued(queue, r) \in Nat /\ Buried(dead, r) \in Nat /\ Buried(dead', r) = Buried(dead, r)
    BY <1>1, CountsAreNat DEF Chain
  <2>4. /\ InFlight(r) \in Nat
        /\ InFlight(r)' = InFlight(r) + (Queued(queue', r) - Queued(queue, r))
                          + (Buried(dead', r) - Buried(dead, r))
    BY <1>1, <1>2, RestCounts
  <2> QED BY <2>1, <2>2, <2>3, <2>4
<1> QED BY <1>1, <1>3, <1>4 DEF Kept

LEMMA ReceiveChain == ASSUME Inv, Chain, NEW w \in Workers, Receive(w) PROVE Chain' /\ Kept
<1>1. PICK m \in BagToSet(queue) :
        /\ queue' = Take(queue, m)
        /\ \E step \in {Pushback(m),
                        IF m.kind = "delta" THEN "pull"
                        ELSE IF m.run = NoRun THEN "guard" ELSE "decide"} :
              worker' = [worker EXCEPT ![w] = [IdleWorker EXCEPT !.pc = step, !.msg = m]]
  BY DEF Receive
<1>2. PICK step \in {"retry", "requeue", "pull", "guard", "decide"} :
              worker' = [worker EXCEPT ![w] = [IdleWorker EXCEPT !.pc = step, !.msg = m]]
  BY <1>1 DEF Pushback
<1> DEFINE s == [IdleWorker EXCEPT !.pc = step, !.msg = m]
<1>3. s.pc = step /\ s.msg = m /\ s.out.run = NoRun
  BY DEF IdleWorker, Blank, AuditRequest
<1>4. worker' = [worker EXCEPT ![w] = s]
  BY <1>2
<1> HIDE DEF s
<1>5. Linked(s)
  BY <1>2, <1>3 DEF Linked
<1>6. dead' = dead /\ status' = status /\ worker[w].pc = "idle"
  BY DEF Receive, ledger
<1>7. FiniteBag(queue') /\ FiniteBag(dead')
  BY <1>1, <1>6, QueuedTake DEF Chain
<1>8. Chain'
  BY <1>4, <1>5, <1>7, StepCounts
<1>9. ASSUME NEW r \in Runs PROVE InFlight(r)' = InFlight(r)
  <2>1. Owed(worker[w], r) = 0 /\ Owed(s, r) = Of(m, r) /\ Of(m, r) \in {0, 1}
    BY <1>2, <1>3, <1>6, BoundsAreNat DEF Owed, Of
  <2>2. Queued(queue', r) = Queued(queue, r) - Of(m, r)
    BY <1>1, QueuedTake DEF Chain
  <2>3. Queued(queue, r) \in Nat /\ Buried(dead, r) \in Nat /\ Buried(dead', r) = Buried(dead, r)
    BY <1>6, CountsAreNat DEF Chain
  <2>4. /\ InFlight(r) \in Nat
        /\ InFlight(r)' = InFlight(r) + (Owed(s, r) - Owed(worker[w], r))
                          + (Queued(queue', r) - Queued(queue, r))
                          + (Buried(dead', r) - Buried(dead, r))
    BY <1>4, <1>5, <1>7, StepCounts
  <2> QED BY <2>1, <2>2, <2>3, <2>4
<1> QED BY <1>6, <1>8, <1>9 DEF Kept

LEMMA GuardChain == ASSUME Inv, Chain, NEW w \in Workers, Guard(w) PROVE Chain' /\ Kept
<1>1. worker[w].pc = "guard" /\ worker[w].msg.run = NoRun
  BY WorkerFacts DEF Guard, SoundWorker
<1>2. UNCHANGED <<queue, dead, status>>
  BY DEF Guard, ledger
<1>3. CASE Continue(w, "ack")
  BY <1>1, <1>2, <1>3, LetsGo
<1>4. CASE Continue(w, "retry")
  BY <1>1, <1>2, <1>4, RetryChain
<1>5. CASE Continue(w, "decide")
  <2>1. "decide" \notin {"idle", "ack", "send"}
    OBVIOUS
  <2> QED BY <1>1, <1>2, <1>5, <2>1, GoesOn DEF Continue
<1> QED BY <1>3, <1>4, <1>5 DEF Guard

LEMMA DecideChain == ASSUME Inv, Chain, NEW w \in Workers, Decide(w) PROVE Chain' /\ Kept
<1> DEFINE o == worker[w]
<1> DEFINE m == o.msg
<1>1. worker[w].pc = "decide" /\ worker \in [Workers -> WorkerState] /\ o \in WorkerState
  BY WorkerFacts DEF Decide
<1>2. UNCHANGED <<queue, dead, status>>
  BY DEF Decide, ledger
<1>3. CASE Continue(w, "retry")
  BY <1>1, <1>2, <1>3, RetryChain
<1>4. CASE Continue(w, Pushback(m))
  BY <1>1, <1>2, <1>4, PushbackChain
<1>5. CASE Reauthenticate(w)
  BY <1>1, <1>2, <1>5, ReauthenticateChain
<1>6. ASSUME NEW families,
             worker' = [worker EXCEPT ![w].pc = IF m.run = NoRun THEN "open" ELSE "send",
                                      ![w].out = FirstPull(m, families)]
      PROVE  Chain' /\ Kept
  <2> DEFINE a == IF m.run = NoRun THEN "open" ELSE "send"
  <2> DEFINE p == FirstPull(m, families)
  <2> DEFINE s == [o EXCEPT !.pc = a, !.out = p]
  <2>1. s.pc = a /\ s.msg = m /\ s.out = p
    BY <1>1, UpdatedFields, UpdatedOut
  <2>2. worker' = [worker EXCEPT ![w] = s]
    BY <1>6
  <2>3. p.run = m.run
    BY DEF FirstPull, AuditRequest
  <2> HIDE DEF s, p
  <2>4. Linked(s)
    BY <2>1, <2>3 DEF Linked
  <2>5. Linked(o)
    BY DEF Chain
  <2>6. \A r \in Runs : Owed(s, r) = Owed(o, r)
    BY <1>1, <2>1, <2>3, <2>5, BoundsAreNat DEF Owed, Linked
  <2> QED BY <1>2, <2>2, <2>4, <2>6, WorkerKeeps
<1>7. ASSUME IF m.run = NoRun
             THEN Continue(w, "ack")
             ELSE worker' = [worker EXCEPT ![w].pc = "close", ![w].as = "completed"]
      PROVE  Chain' /\ Kept
  <2>1. CASE m.run = NoRun
    BY <1>1, <1>2, <1>7, <2>1, LetsGo
  <2>2. CASE m.run # NoRun
    BY <1>1, <1>2, <1>7, <2>2, GoesOn
  <2> QED BY <2>1, <2>2
<1> QED BY <1>3, <1>4, <1>5, <1>6, <1>7 DEF Decide

\* The only step that begins a chain.
LEMMA OpenChain ==
    ASSUME Inv, Chain, NEW w \in Workers, Open(w)
    PROVE  Chain' /\ (Kept \/ Begun)
<1> DEFINE o == worker[w]
<1>1. /\ o.pc = "open" /\ o.msg.run = NoRun
      /\ worker \in [Workers -> WorkerState] /\ o \in WorkerState
  BY WorkerFacts DEF Open, SoundWorker
<1>2. Linked(o) /\ o.out.run = NoRun
  BY <1>1 DEF Chain, Linked
<1>3. UNCHANGED <<queue, dead>>
  BY DEF Open
<1>4. \A r \in Runs : Owed(o, r) = 0
  BY <1>1, <1>2, BoundsAreNat DEF Owed
<1>5. CASE worker' = [worker EXCEPT ![w].pc = "retry", ![w].out = Blank] /\ UNCHANGED ledger
  <2> DEFINE s == [o EXCEPT !.pc = "retry", !.out = Blank]
  <2>1. s.pc = "retry" /\ s.msg = o.msg /\ s.out = Blank
    BY <1>1, UpdatedFields, UpdatedOut
  <2>2. worker' = [worker EXCEPT ![w] = s]
    BY <1>5
  <2> HIDE DEF s
  <2>3. Blank.run = NoRun
    BY RequestSound DEF Blank
  <2>4. Linked(s) /\ \A r \in Runs : Owed(s, r) = Owed(o, r)
    BY <1>1, <1>4, <2>1, <2>3, BoundsAreNat DEF Owed, Linked
  <2>5. status' = status
    BY <1>5 DEF ledger
  <2> QED BY <1>3, <2>2, <2>4, <2>5, WorkerKeeps
<1>6. ASSUME NEW q \in Runs, status[q] = "none", status' = [status EXCEPT ![q] = "running"],
             worker' = [worker EXCEPT ![w].pc = "send", ![w].out.run = q]
      PROVE  Chain' /\ Begun
  <2> DEFINE out == [o.out EXCEPT !.run = q]
  <2> DEFINE s == [o EXCEPT !.pc = "send", !.out = out]
  <2>1. out.run = q
    BY <1>1 DEF WorkerState, Message
  <2>2. worker' = [worker EXCEPT ![w] = s]
    BY <1>6
  <2> HIDE DEF out
  <2>3. s.pc = "send" /\ s.msg = o.msg /\ s.out = out
    BY <1>1, UpdatedFields, UpdatedOut
  <2> HIDE DEF s
  <2>4. Linked(s)
    BY <1>1, <2>3 DEF Linked
  <2>5. Chain'
    BY <1>3, <2>2, <2>4, WorkerCounts
  <2>6. ASSUME NEW r \in Runs
        PROVE  InFlight(r)' = InFlight(r) + (IF r = q THEN 1 ELSE 0)
    <3>1. Owed(s, r) = IF r = q THEN 1 ELSE 0
      BY <1>1, <2>1, <2>3 DEF Owed
    <3>2. /\ InFlight(r) \in Nat
          /\ InFlight(r)' = InFlight(r) + (Owed(s, r) - Owed(o, r))
      BY <1>3, <2>2, <2>4, WorkerCounts
    <3> QED BY <1>4, <3>1, <3>2
  <2> QED BY <1>6, <2>5, <2>6 DEF Begun
<1> QED BY <1>5, <1>6 DEF Open

\* A successor carries the run of the message it comes after.
LEMMA SuccessorRun ==
    ASSUME NEW m \in Sound, m.kind = "delta", NEW done \in BOOLEAN
    PROVE  Successor(m, done).run = m.run
<1> DEFINE next == [m EXCEPT !.bp = 0, !.tries = 0]
<1>1. /\ m \in Message /\ m.families \in FamilyLists /\ m.families # <<>>
  BY SoundFields DEF Message
<1>2. Len(m.families) = 1 \/ Len(m.families) = 2
  BY <1>1 DEF FamilyLists
<1>3. next \in Message /\ next.run = m.run
  BY <1>1 DEF Message
<1> HIDE DEF next
<1>4. ASSUME NEW a, NEW b, NEW c
      PROVE  /\ [next EXCEPT !.pulled = a].run = m.run
             /\ [next EXCEPT !.families = a, !.pulled = b].run = m.run
             /\ [next EXCEPT !.kind = a, !.families = b, !.pulled = c].run = m.run
  BY <1>3 DEF Message
<1>5. /\ [next EXCEPT !.pulled = @ + 1].run = m.run
      /\ [next EXCEPT !.families = Tail(@), !.pulled = 0].run = m.run
      /\ [next EXCEPT !.kind = "audit", !.families = <<>>, !.pulled = 0].run = m.run
  BY <1>4
<1>6. CASE ~done
  BY <1>5, <1>6 DEF Successor, next
<1>7. CASE done /\ Len(m.families) > 1
  BY <1>5, <1>7 DEF Successor, next
<1>8. CASE done /\ Len(m.families) = 1
  BY <1>5, <1>8 DEF Successor, next
<1>9. Len(m.families) > 1 \/ Len(m.families) = 1
  BY <1>2
<1> QED BY <1>6, <1>7, <1>8, <1>9, Zenon

LEMMA PullChain == ASSUME Inv, Chain, NEW w \in Workers, Pull(w) PROVE Chain' /\ Kept
<1> DEFINE o == worker[w]
<1> DEFINE m == o.msg
<1>1. /\ o.pc = "pull" /\ m.kind = "delta" /\ m.run # NoRun /\ m \in Message
      /\ worker \in [Workers -> WorkerState] /\ o \in WorkerState
  BY WorkerFacts, SoundFields DEF Pull, SoundWorker
<1>2. UNCHANGED <<queue, dead, status>>
  BY DEF Pull, ledger
<1>3. CASE Continue(w, "retry")
  BY <1>1, <1>2, <1>3, RetryChain
<1>4. CASE Continue(w, Pushback(m))
  BY <1>1, <1>2, <1>4, PushbackChain
<1>5. CASE Reauthenticate(w)
  BY <1>1, <1>2, <1>5, ReauthenticateChain
<1>6. CASE worker' = [worker EXCEPT ![w].pc = "close", ![w].as = "failed"]
  <2>1. "close" \notin {"idle", "ack", "send"}
    OBVIOUS
  <2> QED BY <1>1, <1>2, <1>6, <2>1, GoesOn
<1>7. ASSUME NEW n, n.run = m.run,
             worker' = [worker EXCEPT ![w].pc = "send", ![w].out = n]
      PROVE  Chain' /\ Kept
  <2> DEFINE s == [o EXCEPT !.pc = "send", !.out = n]
  <2>1. s.pc = "send" /\ s.msg = m /\ s.out = n
    BY <1>1, UpdatedFields, UpdatedOut
  <2>2. worker' = [worker EXCEPT ![w] = s]
    BY <1>7
  <2> HIDE DEF s
  <2>3. Linked(s) /\ \A r \in Runs : Owed(s, r) = Owed(o, r)
    BY <1>1, <1>7, <2>1 DEF Linked, Owed
  <2> QED BY <1>2, <2>2, <2>3, WorkerKeeps
<1>8. ASSUME NEW done \in BOOLEAN,
             worker' = [worker EXCEPT ![w].pc = "send", ![w].out = Successor(m, done)],
             ~(~done /\ m.pulled + 1 >= ChunkCap)
      PROVE  Chain' /\ Kept
  <2>1. Successor(m, done).run = m.run
    BY <1>1, <1>8, WorkerFacts, SuccessorRun
  <2> QED BY <1>7, <1>8, <2>1
<1> QED BY <1>3, <1>4, <1>5, <1>6, <1>8 DEF Pull

\* A successor the queue does not take, or of which that is not known: the
\* worker goes on owing what it owed.
LEMMA SendFailsOwes ==
    ASSUME Inv, Chain, NEW w \in Workers, worker[w].pc = "send", SendFails(w)
    PROVE  \E s : /\ worker' = [worker EXCEPT ![w] = s] /\ Linked(s)
                  /\ \A r : Owed(s, r) = Owed(worker[w], r)
<1> DEFINE o == worker[w]
<1>1. worker \in [Workers -> WorkerState] /\ o \in WorkerState
  BY WorkerFacts
<1>2. CASE o.msg.run = NoRun
  <2> DEFINE s == [o EXCEPT !.pc = "close", !.as = "failed"]
  <2>1. s.pc = "close" /\ s.msg = o.msg /\ s.out = o.out
    BY <1>1, UpdatedFields, UpdatedOut
  <2>2. worker' = [worker EXCEPT ![w] = s]
    BY <1>2 DEF SendFails
  <2> HIDE DEF s
  <2>3. Linked(s) /\ \A r : Owed(s, r) = Owed(o, r)
    BY <2>1 DEF Linked, Owed
  <2> QED BY <2>2, <2>3
<1>3. CASE o.msg.run # NoRun
  <2> DEFINE s == [o EXCEPT !.pc = "retry", !.out = Blank]
  <2>1. s.pc = "retry" /\ s.msg = o.msg /\ s.out = Blank
    BY <1>1, UpdatedFields, UpdatedOut
  <2>2. worker' = [worker EXCEPT ![w] = s]
    BY <1>3 DEF SendFails
  <2> HIDE DEF s
  <2>3. Linked(s) /\ \A r : Owed(s, r) = Owed(o, r)
    BY <1>3, <2>1 DEF Linked, Owed
  <2> QED BY <2>2, <2>3
<1> QED BY <1>2, <1>3

\* What a worker in state o owed, a worker in state s and message m owe together.
Passes(o, s, m) == \A r \in Runs : Owed(o, r) = Owed(s, r) + Of(m, r)

\* A worker moves on and one message comes into the queue: if it carries what
\* the worker stops owing, the chain goes on.
LEMMA HandsOver ==
    ASSUME Inv, Chain, NEW w \in Workers, NEW s, Linked(s), worker' = [worker EXCEPT ![w] = s],
           NEW m, queue' = Put(queue, m), UNCHANGED <<dead, status>>,
           Passes(worker[w], s, m)
    PROVE  Chain' /\ Kept
<1>1. FiniteBag(queue') /\ FiniteBag(dead')
  BY QueuedPut DEF Chain
<1>2. Chain'
  BY <1>1, StepCounts
<1>3. ASSUME NEW r \in Runs PROVE InFlight(r)' = InFlight(r)
  <2>1. Queued(queue', r) = Queued(queue, r) + Of(m, r) /\ Of(m, r) \in {0, 1}
    BY QueuedPut DEF Chain, Of
  <2>2. Queued(queue, r) \in Nat /\ Buried(dead, r) \in Nat /\ Buried(dead', r) = Buried(dead, r)
    BY CountsAreNat DEF Chain
  <2>3. /\ InFlight(r) \in Nat
        /\ Owed(worker[w], r) \in {0, 1} /\ Owed(s, r) \in {0, 1}
        /\ InFlight(r)' = InFlight(r) + (Owed(s, r) - Owed(worker[w], r))
                          + (Queued(queue', r) - Queued(queue, r))
                          + (Buried(dead', r) - Buried(dead, r))
    BY <1>1, StepCounts
  <2> QED BY <2>1, <2>2, <2>3 DEF Passes
<1> QED BY <1>2, <1>3 DEF Kept

\* The same, for a dead letter.
LEMMA GivesUp ==
    ASSUME Inv, Chain, NEW w \in Workers, NEW s, Linked(s), worker' = [worker EXCEPT ![w] = s],
           NEW d, dead' = Put(dead, d), UNCHANGED <<queue, status>>,
           Passes(worker[w], s, d.msg)
    PROVE  Chain' /\ Kept
<1>1. FiniteBag(queue') /\ FiniteBag(dead')
  BY BuriedPut DEF Chain
<1>2. Chain'
  BY <1>1, StepCounts
<1>3. ASSUME NEW r \in Runs PROVE InFlight(r)' = InFlight(r)
  <2>1. Buried(dead', r) = Buried(dead, r) + Of(d.msg, r) /\ Of(d.msg, r) \in {0, 1}
    BY BuriedPut DEF Chain, Of
  <2>2. Queued(queue, r) \in Nat /\ Buried(dead, r) \in Nat /\ Queued(queue', r) = Queued(queue, r)
    BY CountsAreNat DEF Chain
  <2>3. /\ InFlight(r) \in Nat
        /\ Owed(worker[w], r) \in {0, 1} /\ Owed(s, r) \in {0, 1}
        /\ InFlight(r)' = InFlight(r) + (Owed(s, r) - Owed(worker[w], r))
                          + (Queued(queue', r) - Queued(queue, r))
                          + (Buried(dead', r) - Buried(dead, r))
    BY <1>1, StepCounts
  <2> QED BY <2>1, <2>2, <2>3 DEF Passes
<1> QED BY <1>2, <1>3 DEF Kept

LEMMA SendChain == ASSUME Inv, Chain, NEW w \in Workers, Send(w) PROVE Chain' /\ Kept
<1> DEFINE o == worker[w]
<1>1. /\ o.pc = "send" /\ o.out.run # NoRun
      /\ worker \in [Workers -> WorkerState] /\ o \in WorkerState
  BY WorkerFacts DEF Send, SoundWorker
<1>2. UNCHANGED <<dead, status>>
  BY DEF Send, ledger
<1>3. CASE queue' = Put(queue, o.out) /\ worker' = [worker EXCEPT ![w].pc = "ack", ![w].out = Blank]
  <2> DEFINE s == [o EXCEPT !.pc = "ack", !.out = Blank]
  <2>1. s.pc = "ack" /\ s.msg = o.msg /\ s.out = Blank
    BY <1>1, UpdatedFields, UpdatedOut
  <2>2. worker' = [worker EXCEPT ![w] = s]
    BY <1>3
  <2> HIDE DEF s
  <2>3. Linked(s)
    BY <2>1, RequestSound DEF Linked, Blank
  <2>4. Passes(o, s, o.out)
    <3>1. Linked(o)
      BY DEF Chain
    <3> QED BY <1>1, <2>1, <3>1 DEF Linked, Owed, Of, Passes
  <2> QED BY <1>2, <1>3, <2>2, <2>3, <2>4, HandsOver
<1>4. CASE SendFails(w) /\ queue' = queue
  BY <1>1, <1>2, <1>4, SendFailsOwes, WorkerKeeps
<1> QED BY <1>3, <1>4 DEF Send

LEMMA CloseChain == ASSUME Inv, Chain, NEW w \in Workers, Close(w) PROVE Chain' /\ Ended
<1> DEFINE o == worker[w]
<1> DEFINE q == RunOf(w)
<1>1. /\ o.pc = "close" /\ q \in Runs /\ o.as \in Closed
      /\ worker \in [Workers -> WorkerState] /\ o \in WorkerState
  BY WorkerFacts, RunOfOpened DEF Close
<1>2. UNCHANGED <<queue, dead>> /\ status' = [status EXCEPT ![q] = o.as]
  BY DEF Close, CloseRun
<1> DEFINE a == IF o.msg.run = NoRun THEN "retry" ELSE "ack"
<1> DEFINE s == [o EXCEPT !.pc = a, !.out = Blank, !.as = "none"]
<1>3. s.pc = a /\ s.msg = o.msg /\ s.out = Blank
  BY <1>1, UpdatedFields, UpdatedOut
<1>4. worker' = [worker EXCEPT ![w] = s]
  BY DEF Close
<1> HIDE DEF s
<1>5. Linked(s)
  BY <1>3, RequestSound DEF Linked, Blank
<1>6. Chain'
  BY <1>2, <1>4, <1>5, WorkerCounts
<1>7. ASSUME NEW r \in Runs
      PROVE  InFlight(r)' = InFlight(r) - (IF r = q THEN 1 ELSE 0)
  <2>1. Owed(o, r) = IF r = q THEN 1 ELSE 0
    BY <1>1 DEF Owed, RunOf
  <2>2. Owed(s, r) = 0
    BY <1>3, RequestSound, BoundsAreNat DEF Owed, Blank
  <2>3. /\ InFlight(r) \in Nat
        /\ InFlight(r)' = InFlight(r) + (Owed(s, r) - Owed(o, r))
    BY <1>2, <1>4, <1>5, WorkerCounts
  <2> QED BY <2>1, <2>2, <2>3
<1> QED BY <1>1, <1>2, <1>6, <1>7 DEF Ended

LEMMA RequeueChain == ASSUME Inv, Chain, NEW w \in Workers, Requeue(w) PROVE Chain' /\ Kept
<1> DEFINE o == worker[w]
<1>1. /\ o.pc = "requeue" /\ o.msg \in Message
      /\ worker \in [Workers -> WorkerState] /\ o \in WorkerState
  BY WorkerFacts DEF Requeue
<1>2. UNCHANGED <<dead, status>>
  BY DEF Requeue, ledger
<1>3. CASE queue' = Put(queue, [o.msg EXCEPT !.bp = @ + 1, !.tries = 0]) /\ Continue(w, "ack")
  <2> DEFINE s == [o EXCEPT !.pc = "ack"]
  <2> DEFINE c == [o.msg EXCEPT !.bp = @ + 1, !.tries = 0]
  <2>1. s.pc = "ack" /\ s.msg = o.msg /\ s.out = o.out /\ c.run = o.msg.run
    BY <1>1, UpdatedFields, UpdatedOut DEF Message
  <2>2. worker' = [worker EXCEPT ![w] = s]
    BY <1>3 DEF Continue
  <2> HIDE DEF s, c
  <2>3. Linked(o)
    BY DEF Chain
  <2>4. Linked(s)
    BY <1>1, <2>1, <2>3 DEF Linked
  <2>5. Passes(o, s, c)
    BY <1>1, <2>1, <2>3, BoundsAreNat DEF Linked, Owed, Of, Passes
  <2>6. queue' = Put(queue, c)
    BY <1>3 DEF c
  <2> QED BY <1>2, <2>2, <2>4, <2>5, <2>6, HandsOver
<1>4. CASE Continue(w, "retry") /\ queue' = queue
  BY <1>1, <1>2, <1>4, RetryChain
<1> QED BY <1>3, <1>4 DEF Requeue

LEMMA IdleOwes ==
    Linked(IdleWorker) /\ \A r \in Runs : Owed(IdleWorker, r) = 0
BY RequestSound DEF IdleWorker, Blank, Linked, Owed

LEMMA AckChain == ASSUME Inv, Chain, NEW w \in Workers, Ack(w) PROVE Chain' /\ Kept
<1>1. UNCHANGED <<queue, dead, status>> /\ worker' = [worker EXCEPT ![w] = IdleWorker]
  BY DEF Ack, ledger
<1>2. \A r \in Runs : Owed(worker[w], r) = 0
  BY DEF Ack, Owed
<1> QED BY <1>1, <1>2, IdleOwes, WorkerKeeps

\* A message that comes back, to the queue or to the dead letters, carries its
\* run.
LEMMA RedeliverChain ==
    ASSUME Inv, Chain, NEW w \in Workers, NEW s, Linked(s), worker' = [worker EXCEPT ![w] = s],
           NEW m \in Message, Redeliver(m), status' = status,
           Passes(worker[w], s, m)
    PROVE  Chain' /\ Kept
<1>1. CASE m.tries >= MaxRetries
  <2> DEFINE c == [m EXCEPT !.tries = 0]
  <2> DEFINE d == [msg |-> c, tries |-> 0, parked |-> FALSE]
  <2>1. d.msg = c /\ c.run = m.run
    BY DEF Message
  <2>2. dead' = Put(dead, d) /\ queue' = queue
    BY <1>1 DEF Redeliver
  <2> HIDE DEF d, c
  <2>3. Passes(worker[w], s, d.msg)
    BY <2>1 DEF Of, Passes
  <2>4. UNCHANGED <<queue, status>>
    BY <2>2
  <2> QED BY <2>2, <2>3, <2>4, GivesUp
<1>2. CASE ~(m.tries >= MaxRetries)
  <2> DEFINE c == [m EXCEPT !.tries = @ + 1]
  <2>1. c.run = m.run
    BY DEF Message
  <2>2. queue' = Put(queue, c) /\ dead' = dead
    BY <1>2 DEF Redeliver
  <2> HIDE DEF c
  <2>3. Passes(worker[w], s, c)
    BY <2>1 DEF Of, Passes
  <2>4. UNCHANGED <<dead, status>>
    BY <2>2
  <2> QED BY <2>2, <2>3, <2>4, HandsOver
<1> QED BY <1>1, <1>2

LEMMA RetryStepChain == ASSUME Inv, Chain, NEW w \in Workers, Retry(w) PROVE Chain' /\ Kept
<1> DEFINE o == worker[w]
<1>1. o.pc = "retry" /\ o.msg \in Message /\ Linked(o)
  BY WorkerFacts DEF Retry, Chain
<1>2. Redeliver(o.msg) /\ status' = status /\ worker' = [worker EXCEPT ![w] = IdleWorker]
  BY DEF Retry, ledger
<1>3. Passes(o, IdleWorker, o.msg)
  BY <1>1, IdleOwes, BoundsAreNat DEF Linked, Owed, Of, Passes
<1> QED BY <1>1, <1>2, <1>3, IdleOwes, RedeliverChain

\* A dead letter whose message is parked stays one, with the same message.
LEMMA DlqParkChain == ASSUME Inv, Chain, DlqPark PROVE Chain' /\ Kept
<1>1. PICK d \in BagToSet(dead) : dead' = Put(Take(dead, d), [d EXCEPT !.parked = TRUE])
  BY DEF DlqPark
<1> DEFINE e == [d EXCEPT !.parked = TRUE]
<1>2. e.msg = d.msg
  BY LetterFacts DEF Letters
<1>3. dead' = Put(Take(dead, d), e)
  BY <1>1
<1> HIDE DEF e
<1>4. queue' = queue /\ worker' = worker /\ status' = status
  BY DEF DlqPark, ledger
<1>5. FiniteBag(Take(dead, d))
  BY BuriedTake DEF Chain
<1>6. FiniteBag(queue') /\ FiniteBag(dead')
  BY <1>3, <1>4, <1>5, BuriedPut DEF Chain
<1>7. Chain'
  BY <1>4, <1>6, RestCounts
<1>8. ASSUME NEW r \in Runs PROVE InFlight(r)' = InFlight(r)
  <2>1. /\ Buried(Take(dead, d), r) = Buried(dead, r) - Of(d.msg, r)
        /\ Buried(dead', r) = Buried(Take(dead, d), r) + Of(e.msg, r)
        /\ Of(d.msg, r) \in {0, 1} /\ Of(e.msg, r) = Of(d.msg, r)
    BY <1>2, <1>3, <1>5, BuriedTake, BuriedPut DEF Chain, Of
  <2>2. Queued(queue, r) \in Nat /\ Buried(dead, r) \in Nat /\ Queued(queue', r) = Queued(queue, r)
    BY <1>4, CountsAreNat DEF Chain
  <2>3. /\ InFlight(r) \in Nat
        /\ InFlight(r)' = InFlight(r) + (Queued(queue', r) - Queued(queue, r))
                          + (Buried(dead', r) - Buried(dead, r))
    BY <1>4, <1>6, RestCounts
  <2> QED BY <2>1, <2>2, <2>3
<1> QED BY <1>4, <1>7, <1>8 DEF Kept

\* A dead letter that is digested takes its chain with it, and its run is
\* closed in the same step.
LEMMA DlqCloseChain == ASSUME Inv, Chain, DlqClose PROVE Chain' /\ (Kept \/ Ended)
<1>1. PICK d \in BagToSet(dead) :
         /\ IF d.msg.run = NoRun THEN UNCHANGED ledger ELSE CloseRun(d.msg.run, "failed")
         /\ dead' = Take(dead, d)
  BY DEF DlqClose
<1>2. queue' = queue /\ worker' = worker
  BY DEF DlqClose
<1>3. FiniteBag(queue') /\ FiniteBag(dead')
  BY <1>1, <1>2, BuriedTake DEF Chain
<1>4. Chain'
  BY <1>2, <1>3, RestCounts
<1>5. d.msg.run \in Runs \cup {NoRun}
  BY LetterFacts, SoundFields DEF Message
<1>6. ASSUME NEW r \in Runs PROVE InFlight(r)' = InFlight(r) - Of(d.msg, r) /\ InFlight(r) \in Nat
  <2>1. Buried(dead', r) = Buried(dead, r) - Of(d.msg, r) /\ Of(d.msg, r) \in {0, 1}
    BY <1>1, BuriedTake DEF Chain, Of
  <2>2. Queued(queue, r) \in Nat /\ Buried(dead, r) \in Nat /\ Queued(queue', r) = Queued(queue, r)
    BY <1>2, CountsAreNat DEF Chain
  <2>3. /\ InFlight(r) \in Nat
        /\ InFlight(r)' = InFlight(r) + (Queued(queue', r) - Queued(queue, r))
                          + (Buried(dead', r) - Buried(dead, r))
    BY <1>2, <1>3, RestCounts
  <2> QED BY <2>1, <2>2, <2>3
<1>7. CASE d.msg.run = NoRun
  <2>1. status' = status
    BY <1>1, <1>7 DEF ledger
  <2>2. \A r \in Runs : Of(d.msg, r) = 0
    BY <1>7, BoundsAreNat DEF Of
  <2> QED BY <1>4, <1>6, <2>1, <2>2 DEF Kept
<1>8. CASE d.msg.run # NoRun
  <2>1. status' = [status EXCEPT ![d.msg.run] = "failed"] /\ d.msg.run \in Runs
    BY <1>1, <1>5, <1>8 DEF CloseRun
  <2>2. \A r \in Runs : InFlight(r)' = InFlight(r) - (IF r = d.msg.run THEN 1 ELSE 0)
    BY <1>6 DEF Of
  <2>3. "failed" \in Closed
    BY DEF Closed
  <2> QED BY <1>4, <2>1, <2>2, <2>3 DEF Ended
<1> QED BY <1>7, <1>8

\* A message comes into the queue from outside a worker: no chain loses by it.
LEMMA ComesIn ==
    ASSUME Inv, Chain, NEW m, queue' = Put(queue, m), dead' = dead, worker' = worker
    PROVE  Chain' /\ \A r \in Runs : InFlight(r)' >= InFlight(r)
<1>1. FiniteBag(queue') /\ FiniteBag(dead')
  BY QueuedPut DEF Chain
<1>2. Chain'
  BY <1>1, RestCounts
<1>3. ASSUME NEW r \in Runs PROVE InFlight(r)' >= InFlight(r)
  <2>1. Queued(queue', r) = Queued(queue, r) + Of(m, r) /\ Of(m, r) \in {0, 1}
    BY QueuedPut DEF Chain, Of
  <2>2. Queued(queue, r) \in Nat /\ Buried(dead, r) \in Nat /\ Buried(dead', r) = Buried(dead, r)
    BY CountsAreNat DEF Chain
  <2>3. /\ InFlight(r) \in Nat
        /\ InFlight(r)' = InFlight(r) + (Queued(queue', r) - Queued(queue, r))
                          + (Buried(dead', r) - Buried(dead, r))
    BY <1>1, RestCounts
  <2> QED BY <2>1, <2>2, <2>3
<1> QED BY <1>2, <1>3

LEMMA ReplayChain == ASSUME Inv, Chain, Replay PROVE Chain' /\ Doubled
<1>1. PICK m \in BagToSet(parked) : queue' = Put(queue, [m EXCEPT !.bp = 0])
  BY DEF Replay
<1>2. dead' = dead /\ worker' = worker /\ status' = status /\ replays' = replays + 1
  BY DEF Replay, ledger
<1> QED BY <1>1, <1>2, ComesIn DEF Doubled

LEMMA SameChain ==
    ASSUME Inv, Chain, UNCHANGED <<queue, dead, worker, status>>
    PROVE  Chain' /\ Kept
<1>1. Chain'
  BY DEF Chain
<1>2. \A r : InFlight(r)' = InFlight(r)
  BY DEF InFlight, Holders, RunOf
<1> QED BY <1>1, <1>2 DEF Kept

-----------------------------------------------------------------------------
(***************************************************************************)
(* What each fault does to a chain                                         *)
(***************************************************************************)
\* An invocation that dies leaves the run behind that its worker had opened and
\* not handed on, and no other.
LEMMA CrashChain == ASSUME Inv, Chain, NEW w \in Workers, Crash(w) PROVE Chain' /\ Broken
<1> DEFINE o == worker[w]
<1> DEFINE m == o.msg
<1>1. /\ m \in Message /\ status' = status /\ faults' = faults + 1
      /\ Redeliver(m) /\ worker' = [worker EXCEPT ![w] = IdleWorker]
  BY WorkerFacts DEF Crash, Fault, ledger
<1>2. \E d, c : /\ d.msg.run = m.run /\ c.run = m.run
                /\ \/ dead' = Put(dead, d) /\ queue' = queue
                   \/ queue' = Put(queue, c) /\ dead' = dead
  <2> DEFINE c1 == [m EXCEPT !.tries = 0]
  <2> DEFINE c2 == [m EXCEPT !.tries = @ + 1]
  <2> DEFINE d == [msg |-> c1, tries |-> 0, parked |-> FALSE]
  <2>1. c1.run = m.run /\ c2.run = m.run /\ d.msg = c1
    BY <1>1 DEF Message
  <2>2. \/ dead' = Put(dead, d) /\ queue' = queue
        \/ queue' = Put(queue, c2) /\ dead' = dead
    BY <1>1 DEF Redeliver
  <2> HIDE DEF c1, c2, d
  <2> QED BY <2>1, <2>2
<1>3. PICK d, c : /\ d.msg.run = m.run /\ c.run = m.run
                  /\ \/ dead' = Put(dead, d) /\ queue' = queue
                     \/ queue' = Put(queue, c) /\ dead' = dead
  BY <1>2
<1>4. FiniteBag(queue') /\ FiniteBag(dead')
  BY <1>3, QueuedPut, BuriedPut DEF Chain
<1>5. Chain'
  BY <1>1, <1>4, IdleOwes, StepCounts
<1>6. ASSUME NEW r \in Runs, r # RunOf(w) \/ r = m.run
      PROVE  InFlight(r)' >= InFlight(r)
  <2>1. Owed(o, r) \in {0, 1} /\ Owed(IdleWorker, r) = 0 /\ Owed(o, r) <= Of(m, r)
        /\ Of(m, r) \in {0, 1}
    BY <1>6, IdleOwes DEF Owed, Of, RunOf
  <2>2. Of(d.msg, r) = Of(m, r) /\ Of(c, r) = Of(m, r)
    BY <1>3 DEF Of
  <2>3. /\ \/ Buried(dead', r) = Buried(dead, r) + Of(m, r) /\ Queued(queue', r) = Queued(queue, r)
           \/ Queued(queue', r) = Queued(queue, r) + Of(m, r) /\ Buried(dead', r) = Buried(dead, r)
    BY <1>3, <2>2, QueuedPut, BuriedPut DEF Chain
  <2>4. Queued(queue, r) \in Nat /\ Buried(dead, r) \in Nat
    BY CountsAreNat DEF Chain
  <2>5. /\ InFlight(r) \in Nat
        /\ InFlight(r)' = InFlight(r) + (Owed(IdleWorker, r) - Owed(o, r))
                          + (Queued(queue', r) - Queued(queue, r))
                          + (Buried(dead', r) - Buried(dead, r))
    BY <1>1, <1>4, IdleOwes, StepCounts
  <2> QED BY <2>1, <2>3, <2>4, <2>5
<1>7. \E s \in Runs \cup {NoRun} : \A r \in Runs : r # s => InFlight(r)' >= InFlight(r)
  <2>1. RunOf(w) \in Runs \cup {NoRun}
    BY WorkerFacts DEF RunOf, WorkerState, Message, SoundWorker
  <2> QED BY <1>6, <2>1
<1> QED BY <1>1, <1>5, <1>7 DEF Broken

LEMMA SendAnswerLostChain ==
    ASSUME Inv, Chain, NEW w \in Workers, SendAnswerLost(w)
    PROVE  Chain' /\ Broken
<1>1. /\ worker[w].pc = "send" /\ SendFails(w) /\ queue' = Put(queue, worker[w].out)
      /\ dead' = dead /\ status' = status /\ faults' = faults + 1
  BY DEF SendAnswerLost, Fault, ledger
<1>2. PICK s : /\ worker' = [worker EXCEPT ![w] = s] /\ Linked(s)
               /\ \A r : Owed(s, r) = Owed(worker[w], r)
  BY <1>1, SendFailsOwes
<1> DEFINE m == worker[w].out
<1>3. FiniteBag(queue') /\ FiniteBag(dead')
  BY <1>1, QueuedPut DEF Chain
<1>4. Chain'
  BY <1>2, <1>3, StepCounts
<1>5. ASSUME NEW r \in Runs PROVE InFlight(r)' >= InFlight(r)
  <2>1. Queued(queue', r) = Queued(queue, r) + Of(m, r) /\ Of(m, r) \in {0, 1}
    BY <1>1, QueuedPut DEF Chain, Of
  <2>2. Queued(queue, r) \in Nat /\ Buried(dead, r) \in Nat /\ Buried(dead', r) = Buried(dead, r)
    BY <1>1, CountsAreNat DEF Chain
  <2>3. /\ InFlight(r) \in Nat
        /\ Owed(worker[w], r) \in {0, 1} /\ Owed(s, r) = Owed(worker[w], r)
        /\ InFlight(r)' = InFlight(r) + (Owed(s, r) - Owed(worker[w], r))
                          + (Queued(queue', r) - Queued(queue, r))
                          + (Buried(dead', r) - Buried(dead, r))
    BY <1>2, <1>3, StepCounts
  <2> QED BY <2>1, <2>2, <2>3
<1> QED BY <1>1, <1>4, <1>5 DEF Broken

LEMMA CloseFailsChain ==
    ASSUME Inv, Chain, NEW w \in Workers, CloseFails(w)
    PROVE  Chain' /\ Broken
<1> DEFINE o == worker[w]
<1> DEFINE q == RunOf(w)
<1>1. /\ o.pc = "close" /\ q \in Runs
      /\ worker \in [Workers -> WorkerState] /\ o \in WorkerState
  BY WorkerFacts, RunOfOpened DEF CloseFails
<1>2. UNCHANGED <<queue, dead>> /\ status' = status /\ faults' = faults + 1
  BY DEF CloseFails, Fault, ledger
<1> DEFINE s == [o EXCEPT !.pc = "retry", !.out = Blank, !.as = "none"]
<1>3. s.pc = "retry" /\ s.msg = o.msg /\ s.out = Blank
  BY <1>1, UpdatedFields, UpdatedOut
<1>4. worker' = [worker EXCEPT ![w] = s]
  BY DEF CloseFails
<1> HIDE DEF s
<1>5. Linked(s)
  BY <1>3, RequestSound DEF Linked, Blank
<1>6. Chain'
  BY <1>2, <1>4, <1>5, WorkerCounts
<1>7. ASSUME NEW r \in Runs, r # q PROVE InFlight(r)' >= InFlight(r)
  <2>1. Owed(o, r) = 0
    BY <1>7 DEF Owed, RunOf
  <2>2. /\ InFlight(r) \in Nat /\ Owed(s, r) \in {0, 1}
        /\ InFlight(r)' = InFlight(r) + (Owed(s, r) - Owed(o, r))
    BY <1>2, <1>4, <1>5, WorkerCounts
  <2> QED BY <2>1, <2>2
<1> QED BY <1>1, <1>2, <1>6, <1>7 DEF Broken

LEMMA DlqFailsChain == ASSUME Inv, Chain, DlqFails PROVE Chain' /\ Broken
<1>1. PICK d \in BagToSet(dead) :
         dead' = IF d.tries >= MaxDlqRetries
                 THEN Take(dead, d)
                 ELSE Put(Take(dead, d), [d EXCEPT !.tries = @ + 1, !.parked = FALSE])
  BY DEF DlqFails
<1> DEFINE e == [d EXCEPT !.tries = @ + 1, !.parked = FALSE]
<1>2. queue' = queue /\ worker' = worker /\ status' = status /\ faults' = faults + 1
  BY DEF DlqFails, Fault, ledger
<1>3. FiniteBag(Take(dead, d))
  BY BuriedTake DEF Chain
<1>4. dead' = Take(dead, d) \/ dead' = Put(Take(dead, d), e)
  BY <1>1
<1> HIDE DEF e
<1>5. FiniteBag(queue') /\ FiniteBag(dead')
  BY <1>2, <1>3, <1>4, BuriedPut DEF Chain
<1>6. Chain'
  BY <1>2, <1>5, RestCounts
<1>7. ASSUME NEW r \in Runs, r # d.msg.run PROVE InFlight(r)' >= InFlight(r)
  <2>1. /\ Buried(Take(dead, d), r) = Buried(dead, r) - Of(d.msg, r)
        /\ \/ Buried(dead', r) = Buried(Take(dead, d), r)
           \/ Buried(dead', r) = Buried(Take(dead, d), r) + Of(e.msg, r)
        /\ Of(d.msg, r) = 0 /\ Of(e.msg, r) \in {0, 1}
    BY <1>3, <1>4, <1>7, BuriedTake, BuriedPut DEF Chain, Of
  <2>2. Queued(queue, r) \in Nat /\ Buried(dead, r) \in Nat /\ Queued(queue', r) = Queued(queue, r)
    BY <1>2, CountsAreNat DEF Chain
  <2>3. /\ InFlight(r) \in Nat
        /\ InFlight(r)' = InFlight(r) + (Queued(queue', r) - Queued(queue, r))
                          + (Buried(dead', r) - Buried(dead, r))
    BY <1>2, <1>5, RestCounts
  <2> QED BY <2>1, <2>2, <2>3
<1>8. d.msg.run \in Runs \cup {NoRun}
  BY LetterFacts, SoundFields DEF Message
<1> QED BY <1>2, <1>6, <1>7, <1>8 DEF Broken

LEMMA ReplayRollsBackChain == ASSUME Inv, Chain, ReplayRollsBack PROVE Chain' /\ Broken
<1>1. PICK m \in BagToSet(parked) : queue' = Put(queue, [m EXCEPT !.bp = 0])
  BY DEF ReplayRollsBack
<1>2. dead' = dead /\ worker' = worker /\ status' = status /\ faults' = faults + 1
  BY DEF ReplayRollsBack, Fault, ledger
<1> QED BY <1>1, <1>2, ComesIn DEF Broken

-----------------------------------------------------------------------------
(***************************************************************************)
(* Every step                                                              *)
(***************************************************************************)
LEMMA NextChain ==
    ASSUME Inv, Chain, [Next]_vars
    PROVE  /\ Chain'
           /\ Kept \/ Begun \/ Ended \/ Doubled \/ Broken
           /\ faults' # faults => Broken
           /\ replays' # replays => Doubled
<1>1. CASE UNCHANGED vars
  BY <1>1, SameChain DEF vars, ledger
<1>2. CASE Request
  BY <1>2, RequestChain DEF Request
<1>3. CASE Replay
  BY <1>3, ReplayChain DEF Replay
<1>4. CASE Age \/ StoredByOthers
  BY <1>4, SameChain DEF Age, StoredByOthers, ledger, budgets
<1>5. ASSUME NEW w \in Workers, Work(w) PROVE Chain' /\ (Kept \/ Begun \/ Ended) /\ UNCHANGED budgets
  <2>1. UNCHANGED budgets
    BY <1>5 DEF Work, Receive, Guard, Decide, Open, Pull, Send, Close, Requeue, Ack, Retry
  <2> QED
    BY <1>5, <2>1, ReceiveChain, GuardChain, DecideChain, OpenChain, PullChain, SendChain,
       CloseChain, RequeueChain, AckChain, RetryStepChain DEF Work
<1>6. CASE Dlq
  BY <1>6, DlqParkChain, DlqCloseChain DEF Dlq, DlqPark, DlqClose, budgets
<1>7. CASE Faults
  <2>1. Chain' /\ Broken
    BY <1>7, CrashChain, SendAnswerLostChain, CloseFailsChain, DlqFailsChain, ReplayRollsBackChain
       DEF Faults
  <2>2. replays' = replays
    BY <1>7 DEF Faults, Crash, SendAnswerLost, CloseFails, DlqFails, ReplayRollsBack, Fault
  <2> QED BY <2>1, <2>2
<1> QED BY <1>1, <1>2, <1>3, <1>4, <1>5, <1>6, <1>7 DEF Next, Rest, budgets

LEMMA InitChain == Init => Chain
<1> SUFFICES ASSUME Init PROVE Chain
  OBVIOUS
<1>1. FiniteBag(EmptyBag)
  BY EmptyFacts, FS_EmptySet DEF FiniteBag
<1>2. \A w \in Workers : worker[w] = IdleWorker
  BY DEF Init
<1> QED BY <1>1, <1>2, IdleOwes DEF Init, Chain

LEMMA CountOfRun ==
    ASSUME Chain, NEW r
    PROVE  InFlight(r) \in Nat
<1>1. IsFiniteSet(Workers) /\ Holders(r) \subseteq Workers
  BY DeltaAssumption DEF Holders
<1>2. Cardinality(Holders(r)) \in Nat
  BY <1>1, FS_Subset, FS_CardinalityType
<1>3. Queued(queue, r) \in Nat /\ Buried(dead, r) \in Nat
  BY CountsAreNat DEF Chain
<1> QED BY <1>2, <1>3 DEF InFlight, Queued, Buried

LEMMA CountOfRunNext ==
    ASSUME Chain', NEW r
    PROVE  InFlight(r)' \in Nat
<1>1. IsFiniteSet(Workers) /\ Holders(r)' \subseteq Workers
  BY DeltaAssumption DEF Holders
<1>2. Cardinality(Holders(r)') \in Nat
  BY <1>1, FS_Subset, FS_CardinalityType
<1>3. Queued(queue', r) \in Nat /\ Buried(dead', r) \in Nat
  BY CountsAreNat DEF Chain
<1> QED BY <1>2, <1>3 DEF InFlight, Queued, Buried

\* As long as nothing fails and nothing is played back, a chain goes on, begins
\* or ends.
LEMMA NextOneChain ==
    Inv /\ Inv' /\ Chain /\ OneChainPerRun /\ [Next]_vars => OneChainPerRun'
<1> SUFFICES ASSUME Inv, Inv', Chain, OneChainPerRun, [Next]_vars, faults' = 0, replays' = 0,
                    NEW r \in Runs
             PROVE  InFlight(r)' = IF status'[r] = "running" THEN 1 ELSE 0
  BY DEF OneChainPerRun
<1>1. /\ Chain'
      /\ Kept \/ Begun \/ Ended \/ Doubled \/ Broken
  BY NextChain
<1>2. faults \in Nat /\ replays \in Nat /\ status \in [Runs -> Statuses]
  BY BoundsAreNat DEF Inv, SoundCounts, SoundLedger
<1>3. ~Broken /\ ~Doubled
  BY <1>2 DEF Broken, Doubled
<1>4. faults = 0 /\ replays = 0
  BY <1>2, <1>3, NextChain
<1>5. InFlight(r) = IF status[r] = "running" THEN 1 ELSE 0
  BY <1>4 DEF OneChainPerRun
<1>6. InFlight(r)' \in Nat
  BY <1>1, CountOfRunNext
<1>7. CASE Kept
  BY <1>5, <1>7 DEF Kept
<1>8. CASE Begun
  <2>1. PICK s \in Runs :
          /\ status[s] = "none" /\ status' = [status EXCEPT ![s] = "running"]
          /\ InFlight(r)' = InFlight(r) + (IF r = s THEN 1 ELSE 0)
    BY <1>8 DEF Begun
  <2> QED BY <1>2, <1>5, <2>1
<1>9. CASE Ended
  <2>1. PICK s \in Runs, as \in Closed :
          /\ status' = [status EXCEPT ![s] = as]
          /\ InFlight(r)' = InFlight(r) - (IF r = s THEN 1 ELSE 0)
    BY <1>9 DEF Ended
  <2>2. as # "running"
    BY DEF Closed
  <2>3. status'[r] = IF r = s THEN as ELSE status[r]
    BY <1>2, <2>1
  <2> DEFINE before == InFlight(r)
  <2> DEFINE after == InFlight(r)'
  <2>4. before \in Nat /\ after \in Nat /\ after = before - (IF r = s THEN 1 ELSE 0)
    BY <1>5, <1>6, <2>1
  <2> HIDE DEF after
  <2>5. CASE r = s
    <3>1. after = 0
      BY <1>5, <2>4, <2>5
    <3> QED BY <2>2, <2>3, <2>5, <3>1 DEF after
  <2>6. CASE r # s
    BY <1>5, <2>3, <2>4, <2>6 DEF after
  <2> QED BY <2>5, <2>6
<1> QED BY <1>1, <1>3, <1>7, <1>8, <1>9

\* The runs there are, counted and finite.
LEMMA OrphansFinite ==
    /\ IsFiniteSet(Orphans) /\ Cardinality(Orphans) \in Nat
    /\ IsFiniteSet(Orphans') /\ Cardinality(Orphans') \in Nat
<1>1. IsFiniteSet(Runs) /\ Orphans \subseteq Runs /\ Orphans' \subseteq Runs
  BY DeltaAssumption DEF Orphans
<1>2. IsFiniteSet(Orphans) /\ IsFiniteSet(Orphans')
  BY <1>1, FS_Subset
<1> QED BY <1>2, FS_CardinalityType

\* A step without a fault makes no orphan, a fault makes one at most.
LEMMA NextOrphans ==
    ASSUME Inv, Inv', Chain, [Next]_vars
    PROVE  \/ Orphans' \subseteq Orphans /\ faults' = faults
           \/ faults' = faults + 1 /\ \E s : Orphans' \subseteq Orphans \cup {s}
<1>1. /\ Chain'
      /\ Kept \/ Begun \/ Ended \/ Doubled \/ Broken
      /\ faults' # faults => Broken
  BY NextChain
<1>2. /\ faults \in Nat /\ faults' \in Nat
      /\ status \in [Runs -> Statuses] /\ status' \in [Runs -> Statuses]
  BY BoundsAreNat DEF Inv, SoundCounts, SoundLedger
<1>3. \A r : InFlight(r) \in Nat /\ InFlight(r)' \in Nat
  BY <1>1, CountOfRun, CountOfRunNext
<1>4. CASE Broken
  <2>1. PICK s : \A r \in Runs : r # s => InFlight(r)' >= InFlight(r)
    BY <1>4 DEF Broken
  <2>2. \A r \in Runs : r # s /\ InFlight(r)' = 0 => InFlight(r) = 0
    BY <1>3, <2>1
  <2>3. Orphans' \subseteq Orphans \cup {s}
    BY <1>4, <2>2 DEF Orphans, Broken
  <2> QED BY <1>4, <2>3 DEF Broken
<1>5. CASE ~Broken
  <2>1. faults' = faults
    BY <1>1, <1>5
  <2>2. ASSUME NEW r \in Orphans' PROVE r \in Orphans
    <3>1. r \in Runs /\ status'[r] = "running" /\ InFlight(r)' = 0
      BY DEF Orphans
    <3>2. CASE Kept \/ Doubled
      <4>1. InFlight(r)' >= InFlight(r) /\ status' = status
        BY <1>3, <3>1, <3>2 DEF Kept, Doubled
      <4> QED BY <1>3, <3>1, <4>1 DEF Orphans
    <3>3. CASE Begun
      <4>1. PICK s \in Runs :
              /\ status' = [status EXCEPT ![s] = "running"]
              /\ InFlight(r)' = InFlight(r) + (IF r = s THEN 1 ELSE 0)
        BY <3>1, <3>3 DEF Begun
      <4>2. r # s /\ InFlight(r) = 0
        BY <1>3, <3>1, <4>1
      <4> QED BY <1>2, <3>1, <4>1, <4>2 DEF Orphans
    <3>4. CASE Ended
      <4>1. PICK s \in Runs, as \in Closed :
              /\ status' = [status EXCEPT ![s] = as]
              /\ InFlight(r)' = InFlight(r) - (IF r = s THEN 1 ELSE 0)
        BY <3>1, <3>4 DEF Ended
      <4>2. as # "running"
        BY DEF Closed
      <4>3. r # s
        BY <1>2, <3>1, <4>1, <4>2
      <4>4. InFlight(r) = 0
        BY <1>3, <3>1, <4>1, <4>3
      <4> QED BY <1>2, <3>1, <4>1, <4>3, <4>4 DEF Orphans
    <3> QED BY <1>1, <1>5, <3>2, <3>3, <3>4
  <2> QED BY <2>1, <2>2
<1> QED BY <1>4, <1>5

LEMMA NextOrphanBound ==
    Inv /\ Inv' /\ Chain /\ OrphanBound /\ [Next]_vars => OrphanBound'
<1> SUFFICES ASSUME Inv, Inv', Chain, OrphanBound, [Next]_vars PROVE OrphanBound'
  OBVIOUS
<1>1. faults \in Nat /\ Cardinality(Orphans) <= faults
  BY BoundsAreNat DEF Inv, SoundCounts, OrphanBound
<1>2. CASE Orphans' \subseteq Orphans /\ faults' = faults
  <2>1. Cardinality(Orphans') <= Cardinality(Orphans)
    BY <1>2, OrphansFinite, FS_Subset
  <2> QED BY <1>1, <1>2, <2>1, OrphansFinite DEF OrphanBound
<1>3. CASE faults' = faults + 1 /\ \E s : Orphans' \subseteq Orphans \cup {s}
  <2>1. PICK s : Orphans' \subseteq Orphans \cup {s}
    BY <1>3
  <2>2. /\ IsFiniteSet(Orphans \cup {s})
        /\ \/ Cardinality(Orphans \cup {s}) = Cardinality(Orphans)
           \/ Cardinality(Orphans \cup {s}) = Cardinality(Orphans) + 1
    BY OrphansFinite, FS_AddElement, Zenon
  <2>3. Cardinality(Orphans') <= Cardinality(Orphans \cup {s})
    BY <2>1, <2>2, FS_Subset
  <2> QED BY <1>1, <1>3, <2>2, <2>3, OrphansFinite DEF OrphanBound
<1> QED BY <1>2, <1>3, NextOrphans

LEMMA InitCounts == Init => OneChainPerRun /\ OrphanBound
<1> SUFFICES ASSUME Init PROVE OneChainPerRun /\ OrphanBound
  OBVIOUS
<1>1. \A r \in Runs : status[r] = "none" /\ Holders(r) = {}
  BY DEF Init, Holders, IdleWorker
<1>2. \A S : Copies(EmptyBag, S) = {}
  BY EmptyFacts DEF Copies
<1>3. Cardinality({}) = 0
  BY FS_EmptySet
<1>4. \A r \in Runs : InFlight(r) = 0
  BY <1>1, <1>2, <1>3 DEF InFlight, Init
<1>5. Orphans = {} /\ faults = 0
  BY <1>1 DEF Orphans, Init
<1> QED BY <1>1, <1>3, <1>4, <1>5 DEF OneChainPerRun, OrphanBound

\* Chains and carriers are accounted for in every state.
LEMMA ChainInvariance == Spec => []Chain
<1>1. Inv /\ Chain /\ [Next]_vars => Chain'
  BY NextChain
<1> QED BY <1>1, InitChain, Invariance, PTL DEF Spec

\* As long as no invocation dies, no answer is lost and nothing is played back,
\* a running run has exactly one carrier and a closed one none.
THEOREM OneChain == Spec => []OneChainPerRun
BY InitCounts, NextOneChain, Invariance, ChainInvariance, PTL DEF Spec

\* However many carriers fail: the runs left "running" with nobody to close them
\* are never more than the faults there were.
THEOREM OrphansAreCounted == Spec => []OrphanBound
BY InitCounts, NextOrphanBound, Invariance, ChainInvariance, PTL DEF Spec
=============================================================================
