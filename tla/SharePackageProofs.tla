------------------------- MODULE SharePackageProofs -------------------------
(***************************************************************************)
(* What SharePackage promises of archives, links and waiting packages      *)
(* holds for every number of packages, invoices, requests, consumers and   *)
(* faults, and whatever the invoices are called.                           *)
(*                                                                         *)
(* The invariant has a part for the files, one for the requests that pack  *)
(* and one for those that revoke, and one for the messages.  A package     *)
(* never returns to preparation: hence one packer, and none after a        *)
(* revocation that found the link published.                               *)
(***************************************************************************)
EXTENDS SharePackage, FiniteSetTheorems, TLAPS

\* The documents GDT has are fetched, the others known to be absent, and a job
\* records a document when its files are there.
FilesOK ==
  /\ RowsHaveFiles
  /\ \A i \in Invoices : /\ tep[i] = "da_tai" => i \in source
                         /\ tep[i] = "khong_co_ho_so_goc" => i \notin source
  /\ \A w \in Workers :
       /\ worker[w].pc \in {"xml", "html", "save"} => Inv(w) \in source
       /\ worker[w].pc = "absent" => Inv(w) \notin source
       /\ worker[w].pc = "html" => "xml" \in raw[Inv(w)]
       /\ worker[w].pc = "save" => raw[Inv(w)] = TepHoaDon

\* What a packer has counted, and what it has put.
Counted(c) ==
  /\ call[c].kho = call[c].hoaDons \cap source
  /\ \A i \in call[c].kho : tep[i] = "da_tai"

Stored(c) == bucket[call[c].pkg] \in {NoFile, call[c].hoaDons \cap source}

PackingOK ==
  /\ \A p \in Packages, c, d \in Calls : Packing(c, p) /\ Packing(d, p) => c = d
  /\ \A p \in Packages, c \in Calls :
       Packing(c, p) => trangThai[p] \notin {"none", "dang_tao", "san_sang"}
  /\ \A c \in Calls :
       /\ call[c].pc \in {"elect", "put", "publish"} => Counted(c)
       /\ call[c].pc = "publish" => Stored(c)

\* Nobody packs, or will pack, the package p again.
PackedForGood(p) ==
  /\ trangThai[p] \notin {"none", "dang_tao", "dang_dong_goi"}
  /\ \A c \in Calls : ~Packing(c, p)

RevokedForGood(p) ==
  /\ PackedForGood(p)
  /\ trangThai[p] # "san_sang"
  /\ bucket[p] = NoFile

RevokingOK ==
  /\ \A p \in Packages : promised[p] = "published" => RevokedForGood(p)
  /\ \A c \in Calls :
       call[c].pc \in {"delete", "mark"} /\ call[c].found = "published" =>
         /\ PackedForGood(call[c].pkg)
         /\ call[c].pc = "mark" => bucket[call[c].pkg] = NoFile

\* Messages are about stored invoices, and a job that is done has left a trace.
MessagesOK ==
  /\ IsABag(queue)
  /\ \A c \in Calls : call[c].pc = "enqueue" => call[c].left \subseteq stored
  /\ \A w \in Workers :
       worker[w].pc = "ack" => tep[Inv(w)] # "none" \/ Inv(w) \in lost
  /\ WaitingIsServed

WorkerStates == {Idle} \cup [pc : JobStates, msg : Message]

ShapesOK == call \in [Calls -> CallStates] /\ worker \in [Workers -> WorkerStates]

IInv == TypeOK /\ ShapesOK /\ FilesOK /\ PackingOK /\ RevokingOK /\ MessagesOK

-----------------------------------------------------------------------------
(***************************************************************************)
(* Names in an archive                                                     *)
(***************************************************************************)
\* The three forms of a name tell apart what they were given to.
LEMMA NameForms ==
    ASSUME NEW S, NEW i \in S
    PROVE  LET same == {j \in S : KyHieu[j] = KyHieu[i]} IN
           \/ same = {i} /\ TenTep(i, S) = <<KyHieu[i]>>
           \/ /\ \A j \in same \ {i} : NguoiBan[j] # NguoiBan[i]
              /\ TenTep(i, S) = <<NguoiBan[i], KyHieu[i]>>
           \/ TenTep(i, S) = <<NguoiBan[i], KyHieu[i], i>>
<1> DEFINE same == {j \in S : KyHieu[j] = KyHieu[i]}
<1>1. CASE same = {i}
  <2>1. TenTep(i, S) = <<KyHieu[i]>>
    BY <1>1 DEF TenTep
  <2> QED BY <1>1, <2>1
<1>2. CASE same # {i} /\ \A j \in same \ {i} : NguoiBan[j] # NguoiBan[i]
  <2>1. TenTep(i, S) = <<NguoiBan[i], KyHieu[i]>>
    BY <1>2 DEF TenTep
  <2> QED BY <1>2, <2>1
<1>3. CASE same # {i} /\ ~\A j \in same \ {i} : NguoiBan[j] # NguoiBan[i]
  <2>1. TenTep(i, S) = <<NguoiBan[i], KyHieu[i], i>>
    BY <1>3 DEF TenTep
  <2> QED BY <2>1
<1> QED BY <1>1, <1>2, <1>3

LEMMA NamesDiffer ==
    ASSUME NEW S, NEW i \in S, NEW j \in S, TenTep(i, S) = TenTep(j, S)
    PROVE  i = j
<1>1. \A a, b, c, d, e : <<a>> # <<b, c>> /\ <<a>> # <<b, c, d>> /\ <<a, e>> # <<b, c, d>>
  OBVIOUS
<1>2. \/ KyHieu[i] = KyHieu[j] /\ {k \in S : KyHieu[k] = KyHieu[i]} = {i}
      \/ /\ KyHieu[i] = KyHieu[j] /\ NguoiBan[i] = NguoiBan[j]
         /\ \A k \in {k \in S : KyHieu[k] = KyHieu[i]} \ {i} : NguoiBan[k] # NguoiBan[i]
      \/ i = j
  BY <1>1, NameForms
<1> QED BY <1>2

\* No document's files take the place of another's.
LEMMA ZipKeepsAll ==
    ASSUME NEW S
    PROVE  DungGoiZip(S) = S
<1>1. ASSUME NEW i \in S
      PROVE  (CHOOSE j \in S : TenTep(j, S) = TenTep(i, S)) = i
  BY NamesDiffer
<1>2. DungGoiZip(S) \subseteq S
  BY DEF DungGoiZip
<1>3. ASSUME NEW i \in S
      PROVE  i \in DungGoiZip(S)
  BY <1>1 DEF DungGoiZip
<1> QED BY <1>2, <1>3

-----------------------------------------------------------------------------
(***************************************************************************)
(* Messages                                                                *)
(***************************************************************************)
LEMMA PutFacts ==
    ASSUME IsABag(queue), NEW m, queue' = queue (+) SetToBag({m})
    PROVE  IsABag(queue') /\ BagToSet(queue') = BagToSet(queue) \cup {m}
BY DEF IsABag, BagToSet, SetToBag, (+)

LEMMA TakeFacts ==
    ASSUME IsABag(queue), NEW m, queue' = queue (-) SetToBag({m})
    PROVE  /\ IsABag(queue') /\ BagToSet(queue') \subseteq BagToSet(queue)
           /\ BagToSet(queue) \subseteq BagToSet(queue') \cup {m}
BY DEF IsABag, BagToSet, SetToBag, (-)

LEMMA EmptyFacts == IsABag(EmptyBag) /\ BagToSet(EmptyBag) = {}
BY DEF EmptyBag, IsABag, BagToSet, SetToBag

-----------------------------------------------------------------------------
(***************************************************************************)
(* Requests                                                                *)
(***************************************************************************)
LEMMA CallFields ==
    ASSUME NEW v \in CallStates
    PROVE  /\ v = Idle <=> v.pc = "idle"
           /\ v.pc # "idle" => v.pkg \in Packages
           /\ v.pc = "enqueue" => v.left \in (SUBSET Invoices) \ {{}}
           /\ v.pc \in {"elect", "put", "publish"} =>
                /\ v.hoaDons \in SUBSET Invoices /\ v.kho \in SUBSET Invoices
                /\ [v EXCEPT !.pc = "put"] \in CallStates
                /\ [v EXCEPT !.pc = "publish"] \in CallStates
           /\ v.pc \in {"delete", "mark"} =>
                /\ v.found \in {"early", "published"}
                /\ [v EXCEPT !.pc = "mark"] \in CallStates
           /\ v.pc = "get" =>
                /\ [v EXCEPT !.pc = "tally"] \in CallStates
                /\ [v EXCEPT !.pc = "tally"].pc = "tally"
BY DEF CallStates, Idle

LEMMA NoCall == Idle \in CallStates /\ Idle.pc = "idle"
BY DEF CallStates, Idle

LEMMA OneLess ==
    ASSUME NEW v \in CallStates, v.pc = "enqueue", NEW i \in v.left, v.left # {i},
           NEW u, u = [v EXCEPT !.left = @ \ {i}]
    PROVE  u \in CallStates /\ u.pc = "enqueue" /\ u.left = v.left \ {i}
<1>1. v \in [pc : {"enqueue"}, pkg : Packages, left : (SUBSET Invoices) \ {{}}]
  BY DEF CallStates, Idle
<1>2. v.left \ {i} \in (SUBSET Invoices) \ {{}}
  BY <1>1
<1>3. u \in [pc : {"enqueue"}, pkg : Packages, left : (SUBSET Invoices) \ {{}}]
  BY <1>1, <1>2
<1> QED BY <1>1, <1>3 DEF CallStates

LEMMA CallForms ==
    ASSUME NEW p \in Packages
    PROVE  /\ Idle \in CallStates
           /\ \A S \in (SUBSET Invoices) \ {{}} :
                [pc |-> "enqueue", pkg |-> p, left |-> S] \in CallStates
           /\ \A pc \in {"count", "get"} : [pc |-> pc, pkg |-> p] \in CallStates
           /\ \A pc \in {"fail", "elect"}, S, K \in SUBSET Invoices :
                [pc |-> pc, pkg |-> p, hoaDons |-> S, kho |-> K] \in CallStates
           /\ \A f \in {"early", "published"} :
                [pc |-> "delete", pkg |-> p, found |-> f] \in CallStates
BY DEF CallStates

LEMMA CallTypes ==
    ASSUME ShapesOK, NEW c \in Calls
    PROVE  call[c] \in CallStates
BY DEF ShapesOK

\* One request goes on.
LEMMA CallChanges ==
    ASSUME ShapesOK, NEW c \in Calls, NEW v \in CallStates, Become(c, v), worker' = worker
    PROVE  /\ ShapesOK'
           /\ call'[c] = v
           /\ \A d \in Calls : call'[d] = IF d = c THEN v ELSE call[d]
           /\ \A d \in Calls : call'[d] \in CallStates
BY DEF ShapesOK, Become

LEMMA FilesFrame ==
    ASSUME FilesOK, raw' = raw, tep' = tep, source' = source, worker' = worker
    PROVE  FilesOK'
BY DEF FilesOK, RowsHaveFiles, Inv

LEMMA MessagesFrame ==
    ASSUME MessagesOK, ShapesOK, NEW c \in Calls, NEW v \in CallStates, Become(c, v),
           v.pc = "enqueue" => v.left \subseteq stored,
           stored' = stored, tep' = tep, lost' = lost, worker' = worker,
           queue' = queue, sent' = sent
    PROVE  MessagesOK'
<1>1. \A d \in Calls : call'[d] = IF d = c THEN v ELSE call[d]
  BY CallChanges
<1>2. \A d \in Calls : call'[d].pc = "enqueue" => call'[d].left \subseteq stored'
  BY <1>1 DEF MessagesOK
<1>3. WaitingIsServed'
  BY DEF MessagesOK, WaitingIsServed, Inv
<1> QED BY <1>2, <1>3 DEF MessagesOK, Inv

\* A request that neither packs nor revokes, nor will but after a look at the
\* row.
LEMMA QuietCall ==
    ASSUME ShapesOK, PackingOK, RevokingOK,
           NEW c \in Calls, NEW v \in CallStates, Become(c, v), worker' = worker,
           trangThai' = trangThai, bucket' = bucket, promised' = promised,
           tep' = tep, source' = source, v.pc \notin {"put", "publish", "mark"},
           v.pc = "elect" => /\ v.kho = v.hoaDons \cap source
                             /\ \A i \in v.kho : tep[i] = "da_tai",
           v.pc = "delete" /\ v.found = "published" => PackedForGood(v.pkg)
    PROVE  PackingOK' /\ RevokingOK'
<1>1. \A d \in Calls : call'[d] = IF d = c THEN v ELSE call[d]
  BY CallChanges
<1>2. \A p \in Packages, d \in Calls : Packing(d, p)' => d # c /\ Packing(d, p)
  BY <1>1 DEF Packing
<1>3. \A p \in Packages : PackedForGood(p) => PackedForGood(p)'
  BY <1>2 DEF PackedForGood
<1>4. ASSUME NEW d \in Calls
      PROVE  /\ call'[d].pc \in {"elect", "put", "publish"} => Counted(d)'
             /\ call'[d].pc = "publish" => Stored(d)'
  <2>1. CASE d = c
    BY <1>1, <2>1 DEF Counted
  <2>2. CASE d # c
    BY <1>1, <2>2 DEF PackingOK, Counted, Stored
  <2> QED BY <2>1, <2>2
<1>5. PackingOK'
  BY <1>2, <1>4 DEF PackingOK
<1>6. \A p \in Packages : promised'[p] = "published" => RevokedForGood(p)'
  BY <1>3 DEF RevokingOK, RevokedForGood
<1>7. ASSUME NEW d \in Calls, call'[d].pc \in {"delete", "mark"}, call'[d].found = "published"
      PROVE  /\ PackedForGood(call[d].pkg)'
             /\ call'[d].pc = "mark" => bucket'[call'[d].pkg] = NoFile
  <2>1. call'[d] \in CallStates /\ call'[d].pkg \in Packages
    BY <1>7, CallChanges, CallFields
  <2>2. CASE d = c
    BY <1>1, <1>3, <1>7, <2>1, <2>2 DEF PackedForGood
  <2>3. CASE d # c
    BY <1>1, <1>3, <1>7, <2>1, <2>3 DEF RevokingOK, PackedForGood
  <2> QED BY <2>2, <2>3
<1>8. RevokingOK'
  BY <1>6, <1>7 DEF RevokingOK
<1> QED BY <1>5, <1>8

LEMMA FaultFacts ==
    ASSUME TypeOK
    PROVE  /\ faults \in 0..MaxFaults
           /\ Fault => faults' \in 0..MaxFaults
BY ShareAssumption DEF TypeOK, Fault

LEMMA CallTypesKept ==
    ASSUME TypeOK, ShapesOK, NEW c \in Calls, NEW v \in CallStates, Become(c, v),
           UNCHANGED unchangedByCalls,
           trangThai' \in [Packages -> GoiStates],
           bucket' \in [Packages -> {NoFile} \cup SUBSET Invoices],
           old' \subseteq Packages,
           soLuotTai' \in [Packages -> 0..MaxDownloads],
           BagToSet(queue') \subseteq Message,
           faults' \in 0..MaxFaults,
           sent' \in [Packages -> SUBSET stored],
           promised' \in [Packages -> {"nothing", "early", "published"}]
    PROVE  TypeOK' /\ ShapesOK'
<1>1. worker' = worker
  BY DEF unchangedByCalls
<1>2. ShapesOK' /\ \A d \in Calls : call'[d] \in CallStates
  BY <1>1, CallChanges
<1> QED BY <1>2 DEF TypeOK, unchangedByCalls

\* Steps of requests that write nothing but a download.
LEMMA QuietCallKeeps ==
    ASSUME IInv, NEW c \in Calls, NEW v \in CallStates, Become(c, v),
           UNCHANGED <<unchangedByCalls, trangThai, bucket, old, queue, sent, promised>>,
           faults' \in 0..MaxFaults, soLuotTai' \in [Packages -> 0..MaxDownloads],
           v.pc \notin {"enqueue", "put", "publish", "mark"},
           v.pc = "elect" => /\ v.kho = v.hoaDons \cap source
                             /\ \A i \in v.kho : tep[i] = "da_tai",
           v.pc = "delete" /\ v.found = "published" => PackedForGood(v.pkg)
    PROVE  IInv'
<1>1. /\ stored' = stored /\ source' = source /\ raw' = raw /\ tep' = tep /\ token' = token
      /\ worker' = worker /\ lost' = lost /\ trangThai' = trangThai /\ bucket' = bucket
      /\ old' = old /\ queue' = queue /\ sent' = sent /\ promised' = promised
  BY DEF unchangedByCalls
<1>2. TypeOK' /\ ShapesOK'
  BY <1>1, CallTypesKept DEF IInv, TypeOK
<1>3. FilesOK' /\ MessagesOK'
  BY <1>1, FilesFrame, MessagesFrame DEF IInv
<1>4. PackingOK' /\ RevokingOK'
  BY <1>1, QuietCall DEF IInv
<1> QED BY <1>2, <1>3, <1>4 DEF IInv

LEMMA AskKeeps ==
    ASSUME IInv, NEW c \in Calls, NEW p \in Packages, PackAsk(c, p) \/ TaiAsk(c, p)
    PROVE  IInv'
<1>1. \A pc \in {"count", "get"} : [pc |-> pc, pkg |-> p] \in CallStates
  BY CallForms
<1>2. PICK pc \in {"count", "get"} : Become(c, [pc |-> pc, pkg |-> p])
  BY DEF PackAsk, TaiAsk
<1>3. faults' \in 0..MaxFaults /\ soLuotTai' \in [Packages -> 0..MaxDownloads]
  BY DEF IInv, TypeOK, PackAsk, TaiAsk
<1>4. UNCHANGED <<unchangedByCalls, trangThai, bucket, old, queue, sent, promised>>
  BY DEF PackAsk, TaiAsk
<1> DEFINE v == [pc |-> pc, pkg |-> p]
<1>5. v \in CallStates /\ v.pc \in {"count", "get"} /\ Become(c, v)
  BY <1>1, <1>2
<1> HIDE DEF v
<1> QED BY <1>3, <1>4, <1>5, QuietCallKeeps

\* A counted package awaits nothing: what is fetched of it is what GDT has.
LEMMA PackCountKeeps ==
    ASSUME IInv, NEW c \in Calls, PackCount(c)
    PROVE  IInv'
<1> DEFINE p == call[c].pkg
           v == [pc |-> IF Fetched(p) = {} THEN "fail" ELSE "elect", pkg |-> p,
                 hoaDons |-> HoaDons(p), kho |-> Fetched(p)]
<1>1. p \in Packages
  BY CallTypes, CallFields DEF IInv, PackCount, At
<1>2. faults' \in 0..MaxFaults /\ soLuotTai' \in [Packages -> 0..MaxDownloads]
  BY DEF IInv, TypeOK, PackCount
<1>3. UNCHANGED <<unchangedByCalls, trangThai, bucket, old, queue, sent, promised>>
  BY DEF PackCount
<1>4. CASE Waiting(p) # {}
  <2>1. Become(c, Idle)
    BY <1>4 DEF PackCount, Answer
  <2>2. Idle \in CallStates /\ Idle.pc = "idle"
    BY <1>1, CallForms DEF Idle
  <2> QED BY <1>2, <1>3, <2>1, <2>2, QuietCallKeeps
<1>5. CASE Waiting(p) = {}
  <2>1. Become(c, v)
    BY <1>5 DEF PackCount
  <2>2. HoaDons(p) \in SUBSET Invoices /\ Fetched(p) \in SUBSET Invoices
    BY DEF HoaDons, Fetched, Progress, IInv, TypeOK
  <2>3. /\ v \in CallStates /\ v.pc \in {"fail", "elect"}
        /\ v.hoaDons = HoaDons(p) /\ v.kho = Fetched(p)
    BY <1>1, <2>2, CallForms
  <2>4. \A i \in HoaDons(p) : tep[i] # "none" /\ tep[i] \in TepStates /\ i \in Invoices
    BY <1>5, <2>2 DEF Waiting, Progress, IInv, TypeOK
  <2>5. \A i \in HoaDons(p) : tep[i] = "da_tai" <=> i \in source
    BY <2>4 DEF IInv, FilesOK, TepStates
  <2>6. Fetched(p) = HoaDons(p) \cap source /\ \A i \in Fetched(p) : tep[i] = "da_tai"
    BY <2>5 DEF Fetched, Progress
  <2> HIDE DEF v
  <2> QED BY <1>2, <1>3, <2>1, <2>3, <2>6, QuietCallKeeps
<1> QED BY <1>4, <1>5

\* A link that is shown belongs to a package nobody packs any more.
LEMMA RevokeAskKeeps ==
    ASSUME IInv, NEW c \in Calls, NEW p \in Packages, RevokeAsk(c, p)
    PROVE  IInv'
<1> DEFINE v == [pc |-> "delete", pkg |-> p,
                 found |-> IF Linked(p) THEN "published" ELSE "early"]
<1>1. v \in CallStates /\ v.pc = "delete" /\ v.pkg = p /\ Become(c, v)
  BY CallForms DEF RevokeAsk
<1>2. v.found = "published" => PackedForGood(p)
  BY DEF Linked, PackedForGood, IInv, PackingOK
<1>3. faults' \in 0..MaxFaults /\ soLuotTai' \in [Packages -> 0..MaxDownloads]
  BY DEF IInv, TypeOK, RevokeAsk
<1>4. UNCHANGED <<unchangedByCalls, trangThai, bucket, old, queue, sent, promised>>
  BY DEF RevokeAsk
<1> HIDE DEF v
<1> QED BY <1>1, <1>2, <1>3, <1>4, QuietCallKeeps

LEMMA TaiGetKeeps ==
    ASSUME IInv, NEW c \in Calls, TaiGet(c)
    PROVE  IInv'
<1>1. call[c] \in CallStates /\ call[c].pc = "get" /\ call[c].pkg \in Packages
  BY CallTypes, CallFields DEF IInv, TaiGet, At
<1>2. PICK v \in {Idle, [call[c] EXCEPT !.pc = "tally"]} : Become(c, v)
  BY DEF TaiGet, Answer
<1>3. v \in CallStates /\ v.pc \in {"idle", "tally"}
  <2> DEFINE u == [call[c] EXCEPT !.pc = "tally"]
  <2>1. u \in CallStates /\ u.pc = "tally"
    BY <1>1, CallFields
  <2>2. v = Idle \/ v = u
    BY <1>2
  <2> HIDE DEF u
  <2> QED BY <2>1, <2>2, NoCall
<1>4. faults' \in 0..MaxFaults /\ soLuotTai' \in [Packages -> 0..MaxDownloads]
  BY DEF IInv, TypeOK, TaiGet
<1>5. UNCHANGED <<unchangedByCalls, trangThai, bucket, old, queue, sent, promised>>
  BY DEF TaiGet
<1> QED BY <1>2, <1>3, <1>4, <1>5, QuietCallKeeps

LEMMA TaiTallyKeeps ==
    ASSUME IInv, NEW c \in Calls, TaiTally(c)
    PROVE  IInv'
<1>1. call[c].pkg \in Packages
  BY CallTypes, CallFields DEF IInv, TaiTally, At
<1>2. Idle \in CallStates /\ Idle.pc = "idle" /\ Become(c, Idle)
  BY <1>1, CallForms DEF Idle, TaiTally, Answer
<1>3. soLuotTai' \in [Packages -> 0..MaxDownloads]
  BY <1>1, ShareAssumption DEF IInv, TypeOK, TaiTally
<1>4. UNCHANGED <<unchangedByCalls, trangThai, bucket, old, queue, sent, promised>>
  BY DEF TaiTally
<1>5. faults' \in 0..MaxFaults
  BY DEF IInv, TypeOK, TaiTally
<1> QED BY <1>2, <1>3, <1>4, <1>5, QuietCallKeeps

LEMMA CallDiesKeeps ==
    ASSUME IInv, NEW c \in Calls, CallDies(c)
    PROVE  IInv'
<1>1. Idle \in CallStates /\ Idle.pc = "idle" /\ Become(c, Idle)
  BY DEF Idle, CallStates, CallDies, Answer
<1>2. soLuotTai' \in [Packages -> 0..MaxDownloads]
  BY DEF IInv, TypeOK, CallDies
<1>3. UNCHANGED <<unchangedByCalls, trangThai, bucket, old, queue, sent, promised>>
  BY DEF CallDies
<1>4. faults' \in 0..MaxFaults
  BY FaultFacts DEF IInv, CallDies
<1> QED BY <1>1, <1>2, <1>3, <1>4, QuietCallKeeps

\* Each of a package's messages is asked for once by its creator.
LEMMA EnqueueKeeps ==
    ASSUME IInv, NEW c \in Calls, Enqueue(c)
    PROVE  IInv'
<1>1. PICK i \in call[c].left :
        /\ queue' = queue (+) SetToBag({[inv |-> i, tries |-> 0]})
        /\ sent' = [sent EXCEPT ![call[c].pkg] = @ \cup {i}]
        /\ IF call[c].left = {i} THEN Answer(c)
           ELSE Become(c, [call[c] EXCEPT !.left = @ \ {i}])
  BY DEF Enqueue
<1>2. /\ stored' = stored /\ source' = source /\ raw' = raw /\ tep' = tep /\ token' = token
      /\ worker' = worker /\ lost' = lost /\ trangThai' = trangThai /\ bucket' = bucket
      /\ old' = old /\ promised' = promised /\ soLuotTai' = soLuotTai /\ faults' = faults
      /\ UNCHANGED unchangedByCalls
  BY DEF Enqueue, unchangedByCalls
<1>3. /\ call[c] \in CallStates /\ call[c].pc = "enqueue" /\ call[c].pkg \in Packages
      /\ call[c].left \in (SUBSET Invoices) \ {{}} /\ call[c].left \subseteq stored
      /\ i \in Invoices /\ i \in stored
  BY <1>1, CallTypes, CallFields DEF IInv, Enqueue, At, MessagesOK
<1>4. PICK v \in CallStates : /\ Become(c, v) /\ v.pc \in {"idle", "enqueue"}
                              /\ v.pc = "enqueue" => v.left \subseteq stored
  <2>1. CASE call[c].left = {i}
    BY <1>1, <2>1, NoCall DEF Answer
  <2>2. CASE call[c].left # {i}
    <3> DEFINE u == [call[c] EXCEPT !.left = @ \ {i}]
    <3>1. u \in CallStates /\ u.pc = "enqueue" /\ u.left \subseteq stored
      BY <1>1, <1>3, <2>2, OneLess
    <3> QED BY <1>1, <2>2, <3>1
  <2> QED BY <2>1, <2>2
<1> DEFINE m == [inv |-> i, tries |-> 0]
<1>5. m \in Message /\ m.inv = i
  BY <1>3, ShareAssumption DEF Message
<1> HIDE DEF m
<1>6. IsABag(queue') /\ BagToSet(queue') = BagToSet(queue) \cup {m}
  BY <1>1, PutFacts DEF m, IInv, MessagesOK
<1>7. /\ sent' \in [Packages -> SUBSET stored]
      /\ \A p \in Packages : sent'[p] \subseteq sent[p] \cup {i}
  BY <1>1, <1>3 DEF IInv, TypeOK
<1>8. BagToSet(queue') \subseteq Message
  BY <1>5, <1>6 DEF IInv, TypeOK
<1>9. TypeOK' /\ ShapesOK'
  BY <1>2, <1>4, <1>7, <1>8, CallTypesKept DEF IInv, TypeOK
<1>10. FilesOK' /\ PackingOK' /\ RevokingOK'
  BY <1>2, <1>4, FilesFrame, QuietCall DEF IInv
<1>11. MessagesOK'
  <2>1. \A d \in Calls : call'[d].pc = "enqueue" => call'[d].left \subseteq stored'
    BY <1>2, <1>4, CallChanges DEF IInv, MessagesOK
  <2>2. ASSUME NEW p \in Packages, NEW k \in sent'[p]
        PROVE  \/ tep[k] # "none" \/ k \in lost
               \/ \E n \in BagToSet(queue') : n.inv = k
               \/ \E w \in Workers : worker[w] # Idle /\ Inv(w) = k
    <3>1. CASE k = i
      BY <1>5, <1>6, <3>1
    <3>2. CASE k # i
      BY <1>6, <1>7, <3>2 DEF IInv, MessagesOK, WaitingIsServed
    <3> QED BY <3>1, <3>2
  <2>3. WaitingIsServed'
    BY <1>2, <2>2 DEF WaitingIsServed, Inv
  <2> QED BY <1>2, <1>6, <2>1, <2>3 DEF IInv, MessagesOK, Inv
<1> QED BY <1>9, <1>10, <1>11 DEF IInv

\* A request moves the row of the package p to the state s, as no request that
\* packs it; it may promise that the link is dead.
LEMMA RowMoves ==
    ASSUME TypeOK, ShapesOK, PackingOK, RevokingOK,
           NEW c \in Calls, NEW v \in CallStates, Become(c, v), worker' = worker,
           v.pc \in {"idle", "enqueue"},
           NEW p \in Packages, NEW s, trangThai' = [trangThai EXCEPT ![p] = s],
           PackedForGood(p) => s \notin {"none", "dang_tao", "dang_dong_goi"},
           \A d \in Calls : d # c /\ Packing(d, p) => s \notin {"none", "dang_tao", "san_sang"},
           RevokedForGood(p) => s # "san_sang",
           bucket' = bucket, tep' = tep, source' = source,
           \A q \in Packages : q # p => promised'[q] = promised[q],
           promised'[p] = "published" =>
             \/ promised[p] = "published"
             \/ PackedForGood(p) /\ s # "san_sang" /\ bucket[p] = NoFile
    PROVE  PackingOK' /\ RevokingOK'
<1>1. \A d \in Calls : call'[d] = IF d = c THEN v ELSE call[d]
  BY CallChanges
<1>2. \A q \in Packages, d \in Calls : Packing(d, q)' => d # c /\ Packing(d, q)
  BY <1>1 DEF Packing
<1>3. \A q \in Packages : trangThai'[q] = IF q = p THEN s ELSE trangThai[q]
  BY DEF TypeOK
<1>4. \A q \in Packages : PackedForGood(q) => PackedForGood(q)'
  BY <1>2, <1>3 DEF PackedForGood
<1>5. ASSUME NEW d \in Calls
      PROVE  /\ call'[d].pc \in {"elect", "put", "publish"} => Counted(d)'
             /\ call'[d].pc = "publish" => Stored(d)'
  <2>1. CASE d = c
    BY <1>1, <2>1
  <2>2. CASE d # c
    BY <1>1, <2>2 DEF PackingOK, Counted, Stored
  <2> QED BY <2>1, <2>2
<1>6. PackingOK'
  BY <1>2, <1>3, <1>5 DEF PackingOK
<1>7. ASSUME NEW q \in Packages, promised'[q] = "published"
      PROVE  RevokedForGood(q)'
  <2>1. PackedForGood(q) /\ bucket[q] = NoFile
    BY <1>7 DEF RevokingOK, RevokedForGood
  <2>2. trangThai'[q] # "san_sang"
    BY <1>3, <1>7 DEF RevokingOK, RevokedForGood
  <2> QED BY <1>4, <2>1, <2>2 DEF RevokedForGood
<1>8. ASSUME NEW d \in Calls, call'[d].pc \in {"delete", "mark"}, call'[d].found = "published"
      PROVE  /\ PackedForGood(call[d].pkg)'
             /\ call'[d].pc = "mark" => bucket'[call'[d].pkg] = NoFile
  <2>1. d # c /\ call'[d] = call[d] /\ call[d].pkg \in Packages
    BY <1>1, <1>8, CallTypes, CallFields
  <2> QED BY <1>4, <1>8, <2>1 DEF RevokingOK, PackedForGood
<1>9. RevokingOK'
  BY <1>7, <1>8 DEF RevokingOK
<1> QED BY <1>6, <1>9

LEMMA CreateKeeps ==
    ASSUME IInv, NEW c \in Calls, NEW p \in Packages, Create(c, p)
    PROVE  IInv'
<1> DEFINE v == [pc |-> "enqueue", pkg |-> p, left |-> HoaDons(p)]
<1>1. /\ stored' = stored /\ source' = source /\ raw' = raw /\ tep' = tep /\ token' = token
      /\ worker' = worker /\ lost' = lost /\ bucket' = bucket /\ old' = old
      /\ promised' = promised /\ soLuotTai' = soLuotTai /\ faults' = faults
      /\ queue' = queue /\ sent' = sent /\ UNCHANGED unchangedByCalls
  BY DEF Create, unchangedByCalls
<1>2. /\ trangThai[p] = "none" /\ trangThai' = [trangThai EXCEPT ![p] = "dang_tao"]
      /\ Become(c, v)
  BY DEF Create, Active, Set
<1>3. HoaDons(p) \in (SUBSET Invoices) \ {{}} /\ HoaDons(p) \subseteq stored
  BY DEF Create, HoaDons, IInv, TypeOK
<1>4. v \in CallStates /\ v.pc = "enqueue" /\ v.left \subseteq stored
  BY <1>3, CallForms
<1> HIDE DEF v
<1>5. TypeOK' /\ ShapesOK'
  <2>1. trangThai' \in [Packages -> GoiStates]
    BY <1>2 DEF IInv, TypeOK, GoiStates
  <2> QED BY <1>1, <1>2, <1>4, <2>1, CallTypesKept DEF IInv, TypeOK
<1>6. FilesOK' /\ MessagesOK'
  BY <1>1, <1>2, <1>4, FilesFrame, MessagesFrame DEF IInv
<1>7. PackingOK' /\ RevokingOK'
  <2>1. ~PackedForGood(p) /\ \A d \in Calls : ~Packing(d, p)
    BY <1>2 DEF PackedForGood, IInv, PackingOK
  <2> QED BY <1>1, <1>2, <1>4, <2>1, RowMoves DEF IInv, RevokedForGood
<1> QED BY <1>5, <1>6, <1>7 DEF IInv

\* The ends of requests that pack, and of those that revoke.
LEMMA LastWrite ==
    ASSUME IInv, NEW c \in Calls, Become(c, Idle),
           NEW p \in Packages, NEW s \in GoiStates, trangThai' = [trangThai EXCEPT ![p] = s],
           UNCHANGED <<unchangedByCalls, bucket, old, soLuotTai, queue, faults, sent>>,
           promised' \in [Packages -> {"nothing", "early", "published"}],
           PackedForGood(p) => s \notin {"none", "dang_tao", "dang_dong_goi"},
           \A d \in Calls : d # c /\ Packing(d, p) => s \notin {"none", "dang_tao", "san_sang"},
           RevokedForGood(p) => s # "san_sang",
           \A q \in Packages : q # p => promised'[q] = promised[q],
           promised'[p] = "published" =>
             \/ promised[p] = "published"
             \/ PackedForGood(p) /\ s # "san_sang" /\ bucket[p] = NoFile
    PROVE  IInv'
<1>1. /\ stored' = stored /\ source' = source /\ raw' = raw /\ tep' = tep /\ token' = token
      /\ worker' = worker /\ lost' = lost /\ bucket' = bucket /\ old' = old
      /\ soLuotTai' = soLuotTai /\ faults' = faults /\ queue' = queue /\ sent' = sent
  BY DEF unchangedByCalls
<1>2. trangThai' \in [Packages -> GoiStates]
  BY DEF IInv, TypeOK
<1>3. TypeOK' /\ ShapesOK'
  BY <1>1, <1>2, NoCall, CallTypesKept DEF IInv, TypeOK
<1>4. FilesOK' /\ MessagesOK'
  BY <1>1, NoCall, FilesFrame, MessagesFrame DEF IInv
<1>5. PackingOK' /\ RevokingOK'
  BY <1>1, NoCall, RowMoves DEF IInv
<1> QED BY <1>3, <1>4, <1>5 DEF IInv

LEMMA PackFailKeeps ==
    ASSUME IInv, NEW c \in Calls, PackFail(c)
    PROVE  IInv'
<1>1. call[c].pkg \in Packages
  BY CallTypes, CallFields DEF IInv, PackFail, At
<1>2. "loi" \in GoiStates /\ promised \in [Packages -> {"nothing", "early", "published"}]
  BY DEF GoiStates, IInv, TypeOK
<1> QED BY <1>1, <1>2, LastWrite DEF PackFail, Set, Answer

LEMMA PublishKeeps ==
    ASSUME IInv, NEW c \in Calls, Publish(c)
    PROVE  IInv'
<1> DEFINE p == call[c].pkg
<1>1. p \in Packages /\ call[c] # Idle /\ call[c].pc = "publish"
  BY CallTypes, CallFields DEF IInv, Publish, At
<1>2. Packing(c, p)
  BY <1>1 DEF Packing
<1>3. ~PackedForGood(p) /\ \A d \in Calls : d # c => ~Packing(d, p)
  BY <1>1, <1>2 DEF PackedForGood, IInv, PackingOK
<1>4. "san_sang" \in GoiStates /\ promised \in [Packages -> {"nothing", "early", "published"}]
  BY DEF GoiStates, IInv, TypeOK
<1>5. /\ trangThai' = [trangThai EXCEPT ![p] = "san_sang"] /\ Become(c, Idle)
      /\ UNCHANGED <<unchangedByCalls, bucket, old, soLuotTai, queue, faults, sent>>
      /\ promised' = promised
  BY DEF Publish, Set, Answer
<1> HIDE DEF p
<1> QED BY <1>1, <1>3, <1>4, <1>5, LastWrite DEF RevokedForGood

LEMMA RevokeMarkKeeps ==
    ASSUME IInv, NEW c \in Calls, RevokeMark(c)
    PROVE  IInv'
<1> DEFINE p == call[c].pkg
<1>1. /\ p \in Packages /\ call[c].pc = "mark" /\ call[c].found \in {"early", "published"}
  BY CallTypes, CallFields DEF IInv, RevokeMark, At
<1>2. promised \in [Packages -> {"nothing", "early", "published"}]
  BY DEF IInv, TypeOK
<1>3. promised' = [promised EXCEPT ![p] = IF @ = "published" THEN @ ELSE call[c].found]
  BY DEF RevokeMark, Promise
<1>4. /\ promised' \in [Packages -> {"nothing", "early", "published"}]
      /\ \A q \in Packages : q # p => promised'[q] = promised[q]
      /\ promised'[p] = "published" => promised[p] = "published" \/ call[c].found = "published"
  BY <1>1, <1>2, <1>3
<1>5. call[c].found = "published" => PackedForGood(p) /\ bucket[p] = NoFile
  BY <1>1 DEF IInv, RevokingOK
<1>6. /\ trangThai' = [trangThai EXCEPT ![p] = "da_thu_hoi"] /\ Become(c, Idle)
      /\ UNCHANGED <<unchangedByCalls, bucket, old, soLuotTai, queue, faults, sent>>
      /\ "da_thu_hoi" \in GoiStates
  BY DEF RevokeMark, Set, Answer, GoiStates
<1> HIDE DEF p
<1> QED BY <1>1, <1>4, <1>5, <1>6, LastWrite

\* The winner finds the package in preparation, where nobody packs it.
LEMMA ElectKeeps ==
    ASSUME IInv, NEW c \in Calls, Elect(c)
    PROVE  IInv'
<1> DEFINE p == call[c].pkg
           v == [call[c] EXCEPT !.pc = "put"]
<1>1. /\ stored' = stored /\ source' = source /\ raw' = raw /\ tep' = tep /\ token' = token
      /\ worker' = worker /\ lost' = lost /\ bucket' = bucket /\ old' = old
      /\ promised' = promised /\ soLuotTai' = soLuotTai /\ faults' = faults
      /\ queue' = queue /\ sent' = sent /\ UNCHANGED unchangedByCalls
  BY DEF Elect, unchangedByCalls
<1>2. call[c] \in CallStates /\ call[c].pc = "elect" /\ p \in Packages
  BY CallTypes, CallFields DEF IInv, Elect, At
<1>3. v \in CallStates /\ v.pc = "put" /\ v.pkg = p
      /\ v.kho = call[c].kho /\ v.hoaDons = call[c].hoaDons
  BY <1>2, CallFields DEF CallStates, Idle
<1>4. CASE trangThai[p] # "dang_tao"
  <2>1. Become(c, Idle) /\ trangThai' = trangThai
    BY <1>4 DEF Elect, Answer
  <2>2. faults' \in 0..MaxFaults /\ soLuotTai' \in [Packages -> 0..MaxDownloads]
    BY <1>1 DEF IInv, TypeOK
  <2> QED BY <1>1, <2>1, <2>2, NoCall, QuietCallKeeps
<1>5. CASE trangThai[p] = "dang_tao"
  <2>1. Become(c, v) /\ trangThai' = [trangThai EXCEPT ![p] = "dang_dong_goi"]
    BY <1>5 DEF Elect, Set
  <2> HIDE DEF v, p
  <2>2. \A d \in Calls : call'[d] = IF d = c THEN v ELSE call[d]
    BY <1>1, <1>3, <2>1, CallChanges DEF IInv
  <2>3. \A q \in Packages : trangThai'[q] = IF q = p THEN "dang_dong_goi" ELSE trangThai[q]
    BY <2>1 DEF IInv, TypeOK
  <2>4. ~PackedForGood(p) /\ \A d \in Calls : ~Packing(d, p)
    BY <1>2, <1>5 DEF PackedForGood, IInv, PackingOK
  <2>5. \A q \in Packages, d \in Calls : Packing(d, q)' => (d = c /\ q = p) \/ (d # c /\ Packing(d, q))
    BY <1>3, <2>2 DEF Packing
  <2>6. \A q \in Packages : PackedForGood(q) => PackedForGood(q)'
    BY <2>3, <2>4, <2>5 DEF PackedForGood
  <2>7. TypeOK' /\ ShapesOK'
    <3>1. trangThai' \in [Packages -> GoiStates]
      BY <2>1 DEF IInv, TypeOK, GoiStates
    <3> QED BY <1>1, <1>3, <2>1, <3>1, CallTypesKept DEF IInv, TypeOK
  <2>8. FilesOK' /\ MessagesOK'
    BY <1>1, <1>3, <2>1, FilesFrame, MessagesFrame DEF IInv
  <2>9. PackingOK'
    <3>1. ASSUME NEW d \in Calls
          PROVE  /\ call'[d].pc \in {"elect", "put", "publish"} => Counted(d)'
                 /\ call'[d].pc = "publish" => Stored(d)'
      <4>1. CASE d = c
        BY <1>1, <1>2, <1>3, <2>2, <4>1 DEF IInv, PackingOK, Counted
      <4>2. CASE d # c
        BY <1>1, <2>2, <4>2 DEF IInv, PackingOK, Counted, Stored
      <4> QED BY <4>1, <4>2
    <3>2. \A q \in Packages, d, e \in Calls : Packing(d, q)' /\ Packing(e, q)' => d = e
      BY <2>4, <2>5 DEF IInv, PackingOK
    <3>3. \A q \in Packages, d \in Calls :
            Packing(d, q)' => trangThai'[q] \notin {"none", "dang_tao", "san_sang"}
      BY <2>3, <2>5 DEF IInv, PackingOK
    <3> QED BY <3>1, <3>2, <3>3 DEF PackingOK
  <2>10. RevokingOK'
    <3>1. \A q \in Packages : promised'[q] = "published" => RevokedForGood(q)'
      BY <1>1, <2>3, <2>6 DEF IInv, RevokingOK, RevokedForGood
    <3>2. ASSUME NEW d \in Calls, call'[d].pc \in {"delete", "mark"},
                 call'[d].found = "published"
          PROVE  /\ PackedForGood(call[d].pkg)'
                 /\ call'[d].pc = "mark" => bucket'[call'[d].pkg] = NoFile
      <4>1. d # c /\ call'[d] = call[d] /\ call[d].pkg \in Packages
        BY <1>3, <2>2, <3>2, CallTypes, CallFields DEF IInv
      <4> QED BY <1>1, <2>6, <3>2, <4>1 DEF IInv, RevokingOK, PackedForGood
    <3> QED BY <3>1, <3>2 DEF RevokingOK
  <2> QED BY <2>7, <2>8, <2>9, <2>10 DEF IInv
<1> QED BY <1>4, <1>5

\* What is packed is what GDT has of the invoices that were counted.
LEMMA ArchiveFacts ==
    ASSUME IInv, NEW c \in Calls, call[c].pc = "put"
    PROVE  Archive(c) = call[c].hoaDons \cap source /\ Archive(c) \in SUBSET Invoices
<1>1. /\ call[c].kho = call[c].hoaDons \cap source /\ \A i \in call[c].kho : tep[i] = "da_tai"
      /\ call[c].kho \in SUBSET Invoices
  BY CallTypes, CallFields DEF IInv, PackingOK, Counted
<1>2. {i \in call[c].hoaDons \cap call[c].kho : raw[i] = TepHoaDon} = call[c].kho
  BY <1>1 DEF IInv, FilesOK, RowsHaveFiles
<1>3. Archive(c) = call[c].kho
  BY <1>2, ZipKeepsAll DEF Archive
<1> QED BY <1>1, <1>3

LEMMA PutKeeps ==
    ASSUME IInv, NEW c \in Calls, Put(c)
    PROVE  IInv'
<1> DEFINE p == call[c].pkg
           v == [call[c] EXCEPT !.pc = "publish"]
<1>1. /\ stored' = stored /\ source' = source /\ raw' = raw /\ tep' = tep /\ token' = token
      /\ worker' = worker /\ lost' = lost /\ trangThai' = trangThai /\ old' = old \ {p}
      /\ promised' = promised /\ soLuotTai' = soLuotTai /\ faults' = faults
      /\ queue' = queue /\ sent' = sent /\ UNCHANGED unchangedByCalls
      /\ bucket' = [bucket EXCEPT ![p] = Archive(c)] /\ Become(c, v)
  BY DEF Put, unchangedByCalls
<1>2. /\ call[c] \in CallStates /\ call[c].pc = "put" /\ p \in Packages
      /\ Archive(c) = call[c].hoaDons \cap source /\ Archive(c) \in SUBSET Invoices
  BY CallTypes, CallFields, ArchiveFacts DEF IInv, Put, At
<1>3. v \in CallStates /\ v.pc = "publish" /\ v.pkg = p
      /\ v.kho = call[c].kho /\ v.hoaDons = call[c].hoaDons
  BY <1>2, CallFields DEF CallStates, Idle
<1>4. Packing(c, p)
  BY <1>2 DEF Packing, Idle
<1> HIDE DEF v, p
<1>5. \A d \in Calls : call'[d] = IF d = c THEN v ELSE call[d]
  BY <1>1, <1>3, CallChanges DEF IInv
<1>6. \A q \in Packages : bucket'[q] = IF q = p THEN Archive(c) ELSE bucket[q]
  BY <1>1 DEF IInv, TypeOK
<1>7. \A q \in Packages, d \in Calls : Packing(d, q)' => Packing(d, q)
  BY <1>3, <1>4, <1>5 DEF Packing
<1>8. ~PackedForGood(p) /\ \A d \in Calls : Packing(d, p) => d = c
  BY <1>2, <1>4 DEF PackedForGood, IInv, PackingOK
<1>9. \A q \in Packages : PackedForGood(q) => PackedForGood(q)'
  BY <1>1, <1>7 DEF PackedForGood
<1>10. TypeOK' /\ ShapesOK'
  <2>1. bucket' \in [Packages -> {NoFile} \cup SUBSET Invoices] /\ old' \subseteq Packages
    BY <1>1, <1>2 DEF IInv, TypeOK
  <2> QED BY <1>1, <1>3, <2>1, CallTypesKept DEF IInv, TypeOK
<1>11. FilesOK' /\ MessagesOK'
  BY <1>1, <1>3, FilesFrame, MessagesFrame DEF IInv
<1>12. PackingOK'
  <2>1. ASSUME NEW d \in Calls
        PROVE  /\ call'[d].pc \in {"elect", "put", "publish"} => Counted(d)'
               /\ call'[d].pc = "publish" => Stored(d)'
    <3>1. CASE d = c
      BY <1>1, <1>2, <1>3, <1>5, <1>6, <3>1 DEF IInv, PackingOK, Counted, Stored
    <3>2. CASE d # c
      <4>1. call'[d] = call[d]
        BY <1>5, <3>2
      <4>2. call[d].pc = "publish" => call[d].pkg \in Packages /\ call[d].pkg # p
        BY <1>8, <3>2, CallTypes, CallFields DEF IInv, Packing, Idle
      <4> QED BY <1>1, <1>6, <4>1, <4>2 DEF IInv, PackingOK, Counted, Stored
    <3> QED BY <3>1, <3>2
  <2> QED BY <1>1, <1>7, <2>1 DEF IInv, PackingOK
<1>13. RevokingOK'
  <2>1. \A q \in Packages : promised'[q] = "published" => RevokedForGood(q)'
    BY <1>1, <1>6, <1>8, <1>9 DEF IInv, RevokingOK, RevokedForGood
  <2>2. ASSUME NEW d \in Calls, call'[d].pc \in {"delete", "mark"}, call'[d].found = "published"
        PROVE  /\ PackedForGood(call[d].pkg)'
               /\ call'[d].pc = "mark" => bucket'[call'[d].pkg] = NoFile
    <3>1. d # c /\ call'[d] = call[d] /\ call[d].pkg \in Packages
      BY <1>3, <1>5, <2>2, CallTypes, CallFields DEF IInv
    <3>2. PackedForGood(call[d].pkg) /\ call[d].pkg # p
      BY <1>8, <2>2, <3>1 DEF IInv, RevokingOK
    <3> QED BY <1>6, <1>9, <2>2, <3>1, <3>2 DEF IInv, RevokingOK, PackedForGood
  <2> QED BY <2>1, <2>2 DEF RevokingOK
<1> QED BY <1>10, <1>11, <1>12, <1>13 DEF IInv

LEMMA RevokeDeleteKeeps ==
    ASSUME IInv, NEW c \in Calls, RevokeDelete(c)
    PROVE  IInv'
<1> DEFINE p == call[c].pkg
           v == [call[c] EXCEPT !.pc = "mark"]
<1>1. /\ stored' = stored /\ source' = source /\ raw' = raw /\ tep' = tep /\ token' = token
      /\ worker' = worker /\ lost' = lost /\ trangThai' = trangThai /\ old' = old
      /\ promised' = promised /\ soLuotTai' = soLuotTai /\ faults' = faults
      /\ queue' = queue /\ sent' = sent /\ UNCHANGED unchangedByCalls
      /\ bucket' = [bucket EXCEPT ![p] = NoFile] /\ Become(c, v)
  BY DEF RevokeDelete, unchangedByCalls
<1>2. call[c] \in CallStates /\ call[c].pc = "delete" /\ p \in Packages
  BY CallTypes, CallFields DEF IInv, RevokeDelete, At
<1>3. v \in CallStates /\ v.pc = "mark" /\ v.pkg = p /\ v.found = call[c].found
  BY <1>2, CallFields DEF CallStates, Idle
<1> HIDE DEF v, p
<1>4. \A d \in Calls : call'[d] = IF d = c THEN v ELSE call[d]
  BY <1>1, <1>3, CallChanges DEF IInv
<1>5. \A q \in Packages : bucket'[q] = IF q = p THEN NoFile ELSE bucket[q]
  BY <1>1 DEF IInv, TypeOK
<1>6. \A q \in Packages, d \in Calls : Packing(d, q)' => d # c /\ Packing(d, q)
  BY <1>3, <1>4 DEF Packing
<1>7. \A q \in Packages : PackedForGood(q) => PackedForGood(q)'
  BY <1>1, <1>6 DEF PackedForGood
<1>8. TypeOK' /\ ShapesOK'
  <2>1. bucket' \in [Packages -> {NoFile} \cup SUBSET Invoices]
    BY <1>1 DEF IInv, TypeOK
  <2> QED BY <1>1, <1>3, <2>1, CallTypesKept DEF IInv, TypeOK
<1>9. FilesOK' /\ MessagesOK'
  BY <1>1, <1>3, FilesFrame, MessagesFrame DEF IInv
<1>10. PackingOK'
  <2>1. ASSUME NEW d \in Calls
        PROVE  /\ call'[d].pc \in {"elect", "put", "publish"} => Counted(d)'
               /\ call'[d].pc = "publish" => Stored(d)'
    <3>1. CASE d = c
      BY <1>3, <1>4, <3>1
    <3>2. CASE d # c
      <4>1. call'[d] = call[d] /\ (call[d].pc = "publish" => call[d].pkg \in Packages)
        BY <1>4, <3>2, CallTypes, CallFields DEF IInv
      <4> QED BY <1>1, <1>5, <4>1 DEF IInv, PackingOK, Counted, Stored
    <3> QED BY <3>1, <3>2
  <2> QED BY <1>1, <1>6, <2>1 DEF IInv, PackingOK
<1>11. RevokingOK'
  <2>1. \A q \in Packages : promised'[q] = "published" => RevokedForGood(q)'
    BY <1>1, <1>5, <1>7 DEF IInv, RevokingOK, RevokedForGood
  <2>2. ASSUME NEW d \in Calls, call'[d].pc \in {"delete", "mark"}, call'[d].found = "published"
        PROVE  /\ PackedForGood(call[d].pkg)'
               /\ call'[d].pc = "mark" => bucket'[call'[d].pkg] = NoFile
    <3>1. call'[d] \in CallStates /\ call'[d].pkg \in Packages
      BY <1>1, <1>3, <2>2, CallChanges, CallFields DEF IInv
    <3>2. PackedForGood(call'[d].pkg)
      BY <1>2, <1>3, <1>4, <2>2 DEF IInv, RevokingOK, p
    <3>3. call'[d].pc = "mark" => bucket'[call'[d].pkg] = NoFile
      <4>1. CASE d = c
        BY <1>2, <1>3, <1>4, <1>5, <4>1
      <4>2. CASE d # c
        BY <1>4, <1>5, <2>2, <3>1, <4>2 DEF IInv, RevokingOK
      <4> QED BY <4>1, <4>2
    <3> QED BY <1>7, <3>1, <3>2, <3>3 DEF PackedForGood
  <2> QED BY <2>1, <2>2 DEF RevokingOK
<1> QED BY <1>8, <1>9, <1>10, <1>11 DEF IInv

-----------------------------------------------------------------------------
(***************************************************************************)
(* Jobs                                                                    *)
(***************************************************************************)
LEMMA WorkerFields ==
    ASSUME ShapesOK, NEW w \in Workers
    PROVE  /\ Idle.pc = "idle" /\ "idle" \notin JobStates
           /\ worker[w] = Idle \/ worker[w] \in [pc : JobStates, msg : Message]
           /\ worker[w] \in [pc : JobStates, msg : Message] =>
                /\ worker[w] # Idle /\ worker[w].pc \in JobStates
                /\ worker[w].msg \in Message /\ Inv(w) \in Invoices
BY DEF ShapesOK, WorkerStates, Idle, JobStates, Message, Inv

\* The packages see of a job only that what was fetched stays fetched.
LEMMA JobsLeavePackages ==
    ASSUME PackingOK, RevokingOK, UNCHANGED unchangedByJobs,
           \A i \in Invoices : tep[i] = "da_tai" => tep'[i] = "da_tai",
           TypeOK, ShapesOK
    PROVE  PackingOK' /\ RevokingOK'
<1>1. /\ source' = source /\ trangThai' = trangThai /\ bucket' = bucket /\ call' = call
      /\ promised' = promised
  BY DEF unchangedByJobs
<1>2. \A c \in Calls : call[c].pc \in {"elect", "put", "publish"} => call[c].kho \subseteq Invoices
  BY CallTypes, CallFields
<1>3. \A c \in Calls : call[c].pc \in {"elect", "put", "publish"} => Counted(c)'
  BY <1>1, <1>2 DEF PackingOK, Counted
<1>4. PackingOK'
  BY <1>1, <1>3 DEF PackingOK, Packing, Stored
<1>5. RevokingOK'
  BY <1>1 DEF RevokingOK, RevokedForGood, PackedForGood, Packing
<1> QED BY <1>4, <1>5

LEMMA JobTypesKept ==
    ASSUME TypeOK, UNCHANGED unchangedByJobs, worker' \in [Workers -> WorkerStates], ShapesOK,
           raw' \in [Invoices -> SUBSET TepHoaDon], tep' \in [Invoices -> TepStates],
           token' \in BOOLEAN, BagToSet(queue') \subseteq Message, faults' \in 0..MaxFaults,
           lost' \subseteq Invoices
    PROVE  TypeOK' /\ ShapesOK'
<1>1. \A w \in Workers : \/ worker'[w] = Idle
                         \/ worker'[w].pc \in JobStates /\ worker'[w].msg \in Message
  BY DEF WorkerStates
<1> QED BY <1>1 DEF TypeOK, ShapesOK, unchangedByJobs

\* A job goes from one step to the next, which records no more than is there.
LEMMA WorkKeeps ==
    ASSUME IInv, NEW w \in Workers, worker[w] # Idle, NEW pc \in JobStates, Work(w, pc),
           UNCHANGED <<unchangedByJobs, queue>>, token' \in BOOLEAN, faults' \in 0..MaxFaults,
           raw' \in [Invoices -> SUBSET TepHoaDon],
           \A i \in Invoices : raw[i] \subseteq raw'[i],
           lost' \in {lost, lost \cup {Inv(w)}},
           \/ tep' = tep
           \/ /\ tep' = [tep EXCEPT ![Inv(w)] = "da_tai"]
              /\ Inv(w) \in source /\ raw'[Inv(w)] = TepHoaDon
           \/ /\ tep' = [tep EXCEPT ![Inv(w)] = "khong_co_ho_so_goc"]
              /\ Inv(w) \notin source,
           pc \in {"xml", "html", "save"} => Inv(w) \in source,
           pc = "absent" => Inv(w) \notin source,
           pc = "html" => "xml" \in raw'[Inv(w)],
           pc = "save" => raw'[Inv(w)] = TepHoaDon,
           pc = "ack" => tep'[Inv(w)] # "none" \/ Inv(w) \in lost'
    PROVE  IInv'
<1> DEFINE i == Inv(w)
<1>1. worker[w] \in [pc : JobStates, msg : Message] /\ i \in Invoices
  BY WorkerFields DEF IInv
<1>2. /\ worker' \in [Workers -> WorkerStates]
      /\ worker'[w].pc = pc /\ worker'[w].msg = worker[w].msg /\ worker'[w] # Idle
      /\ \A v \in Workers : v # w => worker'[v] = worker[v]
  BY <1>1 DEF IInv, ShapesOK, WorkerStates, Work, Idle, JobStates
<1>3. \A v \in Workers : worker'[v].msg.inv = Inv(v)
  BY <1>2 DEF Inv
<1>4. \A v \in Workers : worker[v] # Idle => worker'[v] # Idle
  BY <1>2
<1>5. /\ stored' = stored /\ source' = source /\ call' = call /\ sent' = sent /\ queue' = queue
  BY DEF unchangedByJobs
<1>6. /\ tep' \in [Invoices -> TepStates] /\ lost' \subseteq Invoices /\ lost \subseteq lost'
      /\ \A k \in Invoices : tep[k] # "none" => tep'[k] # "none"
      /\ \A k \in Invoices : tep[k] = "da_tai" => tep'[k] = "da_tai"
      /\ \A k \in Invoices : k # i => tep'[k] = tep[k]
      /\ \A k \in Invoices : tep'[k] = "da_tai" => k \in source /\ raw'[k] = TepHoaDon
      /\ \A k \in Invoices : tep'[k] = "khong_co_ho_so_goc" => k \notin source
  <2>1. tep \in [Invoices -> TepStates] /\ lost \subseteq Invoices
    BY DEF IInv, TypeOK
  <2>2. \A k \in Invoices : raw[k] = TepHoaDon => raw'[k] = TepHoaDon
    OBVIOUS
  <2>3. \A k \in Invoices : /\ tep[k] = "da_tai" => k \in source /\ raw[k] = TepHoaDon
                            /\ tep[k] = "khong_co_ho_so_goc" => k \notin source
    BY DEF IInv, FilesOK, RowsHaveFiles
  <2>4. CASE tep' = tep
    BY <1>1, <2>1, <2>2, <2>3, <2>4
  <2>5. CASE tep' = [tep EXCEPT ![i] = "da_tai"] /\ i \in source /\ raw'[i] = TepHoaDon
    BY <1>1, <2>1, <2>2, <2>3, <2>5 DEF TepStates
  <2>6. CASE tep' = [tep EXCEPT ![i] = "khong_co_ho_so_goc"] /\ i \notin source
    BY <1>1, <2>1, <2>2, <2>3, <2>6 DEF TepStates
  <2> QED BY <2>4, <2>5, <2>6
<1>7. TypeOK' /\ ShapesOK'
  BY <1>2, <1>5, <1>6, JobTypesKept DEF IInv, TypeOK
<1>8. PackingOK' /\ RevokingOK'
  BY <1>6, JobsLeavePackages DEF IInv
<1>9. FilesOK'
  <2>1. ASSUME NEW v \in Workers
        PROVE  /\ worker'[v].pc \in {"xml", "html", "save"} => Inv(v) \in source
               /\ worker'[v].pc = "absent" => Inv(v) \notin source
               /\ worker'[v].pc = "html" => "xml" \in raw'[Inv(v)]
               /\ worker'[v].pc = "save" => raw'[Inv(v)] = TepHoaDon
    <3>1. CASE v = w
      BY <1>2, <3>1
    <3>2. CASE v # w
      <4>1. worker'[v] = worker[v]
        BY <1>2, <3>2
      <4>2. worker[v].pc \in {"html", "save"} => Inv(v) \in Invoices
        BY WorkerFields DEF IInv, JobStates
      <4>3. worker[v].pc \in {"html", "save"} => raw[Inv(v)] \subseteq raw'[Inv(v)]
               /\ raw'[Inv(v)] \subseteq TepHoaDon
        BY <4>2
      <4> QED BY <4>1, <4>3 DEF IInv, FilesOK
    <3> QED BY <3>1, <3>2
  <2>2. RowsHaveFiles'
    BY <1>6 DEF RowsHaveFiles, TepHoaDon
  <2> QED BY <1>3, <1>5, <1>6, <2>1, <2>2 DEF FilesOK, Inv, TepHoaDon
<1>10. MessagesOK'
  <2>1. ASSUME NEW v \in Workers, worker'[v].pc = "ack"
        PROVE  tep'[Inv(v)] # "none" \/ Inv(v) \in lost'
    <3>1. CASE v = w
      BY <1>2, <2>1, <3>1
    <3>2. CASE v # w
      <4>1. worker[v].pc = "ack" /\ Inv(v) \in Invoices
        BY <1>2, <2>1, <3>2, WorkerFields DEF IInv, JobStates
      <4> QED BY <1>6, <4>1 DEF IInv, MessagesOK
    <3> QED BY <3>1, <3>2
  <2>2. \A p \in Packages : \A k \in sent[p] : k \in Invoices
    BY DEF IInv, TypeOK
  <2>3. WaitingIsServed'
    BY <1>3, <1>4, <1>5, <1>6, <2>2 DEF IInv, MessagesOK, WaitingIsServed, Inv
  <2> QED BY <1>3, <1>5, <2>1, <2>3 DEF IInv, MessagesOK, Inv
<1> QED BY <1>7, <1>8, <1>9, <1>10 DEF IInv

LEMMA DoesFacts ==
    ASSUME IInv, NEW w \in Workers, worker[w].pc \in JobStates
    PROVE  /\ worker[w] # Idle /\ Inv(w) \in Invoices
           /\ token \in BOOLEAN /\ faults \in 0..MaxFaults
           /\ raw \in [Invoices -> SUBSET TepHoaDon]
BY WorkerFields DEF IInv, TypeOK

LEMMA FetchKeeps ==
    ASSUME IInv, NEW w \in Workers, Fetch(w) \/ TokenExpired(w) \/ Unauthorized(w)
    PROVE  IInv'
<1>1. worker[w].pc = "fetch" /\ "fetch" \in JobStates
  BY DEF Fetch, TokenExpired, Unauthorized, Does, JobStates
<1>2. /\ worker[w] # Idle /\ Inv(w) \in Invoices /\ token \in BOOLEAN
      /\ faults \in 0..MaxFaults /\ raw \in [Invoices -> SUBSET TepHoaDon]
  BY <1>1, DoesFacts
<1>3. CASE Fetch(w)
  <2>1. PICK pc \in {"xml", "absent"} :
          /\ Work(w, pc)
          /\ pc = "xml" => Inv(w) \in source
          /\ pc = "absent" => Inv(w) \notin source
    BY <1>3 DEF Fetch, CoHoSoGoc
  <2>2. /\ UNCHANGED <<unchangedByJobs, queue>> /\ raw' = raw /\ tep' = tep
        /\ token' = token /\ faults' = faults /\ lost' = lost /\ pc \in JobStates
    BY <1>3 DEF Fetch, JobStates
  <2> QED BY <1>2, <2>1, <2>2, WorkKeeps
<1>4. CASE TokenExpired(w)
  <2>1. /\ UNCHANGED <<unchangedByJobs, queue>> /\ raw' = raw /\ tep' = tep
        /\ token' = token /\ faults' = faults /\ lost' = lost \cup {Inv(w)}
        /\ Work(w, "ack") /\ "ack" \in JobStates
    BY <1>4 DEF TokenExpired, JobStates
  <2> QED BY <1>2, <2>1, WorkKeeps
<1>5. CASE Unauthorized(w)
  <2>1. /\ UNCHANGED <<unchangedByJobs, queue>> /\ raw' = raw /\ tep' = tep
        /\ token' = FALSE /\ lost' = lost \cup {Inv(w)}
        /\ Work(w, "ack") /\ "ack" \in JobStates
    BY <1>5 DEF Unauthorized, JobStates
  <2>2. faults' \in 0..MaxFaults
    BY <1>5, FaultFacts DEF IInv, Unauthorized
  <2> QED BY <1>2, <2>1, <2>2, WorkKeeps
<1> QED BY <1>3, <1>4, <1>5

LEMMA PutFilesKeeps ==
    ASSUME IInv, NEW w \in Workers, PutXml(w) \/ PutHtml(w)
    PROVE  IInv'
<1>1. PICK name \in {"xml", "html"} :
        /\ worker[w].pc = name
        /\ raw' = [raw EXCEPT ![Inv(w)] = @ \cup {name}]
        /\ Work(w, IF name = "xml" THEN "html" ELSE "save")
        /\ UNCHANGED <<unchangedByJobs, tep, token, queue, faults, lost>>
  BY DEF PutXml, PutHtml, Does
<1> DEFINE pc == IF name = "xml" THEN "html" ELSE "save"
<1>2. name \in JobStates /\ name \in TepHoaDon /\ pc \in JobStates /\ pc \in {"html", "save"}
  BY DEF JobStates, TepHoaDon
<1>3. /\ worker[w] # Idle /\ Inv(w) \in Invoices /\ token \in BOOLEAN
      /\ faults \in 0..MaxFaults /\ raw \in [Invoices -> SUBSET TepHoaDon]
  BY <1>1, <1>2, DoesFacts
<1>4. /\ raw' \in [Invoices -> SUBSET TepHoaDon]
      /\ \A i \in Invoices : raw[i] \subseteq raw'[i]
      /\ raw'[Inv(w)] = raw[Inv(w)] \cup {name}
  BY <1>1, <1>2, <1>3
<1>5. /\ Inv(w) \in source
      /\ pc = "html" => "xml" \in raw'[Inv(w)]
      /\ pc = "save" => raw'[Inv(w)] = TepHoaDon
  <2>1. raw[Inv(w)] \subseteq TepHoaDon /\ (name = "html" => "xml" \in raw[Inv(w)])
    BY <1>1, <1>3 DEF IInv, FilesOK
  <2>2. Inv(w) \in source
    BY <1>1 DEF IInv, FilesOK
  <2> QED BY <1>1, <1>4, <2>1, <2>2 DEF TepHoaDon
<1> HIDE DEF pc
<1>6. /\ Work(w, pc) /\ UNCHANGED <<unchangedByJobs, queue>>
      /\ tep' = tep /\ token' = token /\ faults' = faults /\ lost' = lost
  BY <1>1 DEF pc
<1> QED BY <1>2, <1>3, <1>4, <1>5, <1>6, WorkKeeps

LEMMA SaveKeeps ==
    ASSUME IInv, NEW w \in Workers, Save(w) \/ SaveAbsent(w)
    PROVE  IInv'
<1>1. /\ worker[w].pc \in {"save", "absent"} /\ worker[w].pc \in JobStates /\ "ack" \in JobStates
      /\ Work(w, "ack") /\ UNCHANGED <<unchangedByJobs, queue>>
      /\ raw' = raw /\ token' = token /\ faults' = faults /\ lost' = lost
  BY DEF Save, SaveAbsent, Does, JobStates
<1>2. /\ worker[w] # Idle /\ Inv(w) \in Invoices /\ token \in BOOLEAN
      /\ faults \in 0..MaxFaults /\ raw \in [Invoices -> SUBSET TepHoaDon]
      /\ tep \in [Invoices -> TepStates]
  BY <1>1, DoesFacts DEF IInv, TypeOK
<1>3. CASE Save(w)
  <2>1. /\ tep' = [tep EXCEPT ![Inv(w)] = "da_tai"]
        /\ Inv(w) \in source /\ raw[Inv(w)] = TepHoaDon
    BY <1>3 DEF Save, Does, IInv, FilesOK
  <2> QED BY <1>1, <1>2, <2>1, WorkKeeps
<1>4. CASE SaveAbsent(w)
  <2>1. tep' = [tep EXCEPT ![Inv(w)] = "khong_co_ho_so_goc"] /\ Inv(w) \notin source
    BY <1>4 DEF SaveAbsent, Does, IInv, FilesOK
  <2> QED BY <1>1, <1>2, <2>1, WorkKeeps
<1> QED BY <1>3, <1>4

\* A consumer takes up a message or lays one down.
LEMMA HandKeeps ==
    ASSUME IInv, NEW w \in Workers, NEW v \in WorkerStates,
           worker' = [worker EXCEPT ![w] = v],
           UNCHANGED <<unchangedByJobs, raw, tep, token>>, faults' \in 0..MaxFaults,
           IsABag(queue'), BagToSet(queue') \subseteq Message,
           lost' \subseteq Invoices, lost \subseteq lost',
           v.pc \in {"idle", "fetch", "ack"}, v.pc = "ack" => tep[v.msg.inv] # "none",
           WaitingIsServed'
    PROVE  IInv'
<1>1. /\ worker' \in [Workers -> WorkerStates] /\ worker'[w] = v
      /\ \A u \in Workers : u # w => worker'[u] = worker[u]
  BY DEF IInv, ShapesOK
<1>2. /\ stored' = stored /\ source' = source /\ call' = call /\ sent' = sent
      /\ raw' = raw /\ tep' = tep /\ token' = token
  BY DEF unchangedByJobs
<1>3. TypeOK' /\ ShapesOK'
  BY <1>1, <1>2, JobTypesKept DEF IInv, TypeOK
<1>4. PackingOK' /\ RevokingOK'
  BY <1>2, JobsLeavePackages DEF IInv
<1>5. FilesOK'
  BY <1>1, <1>2 DEF IInv, FilesOK, RowsHaveFiles, Inv
<1>6. ASSUME NEW u \in Workers, worker'[u].pc = "ack"
      PROVE  tep'[worker'[u].msg.inv] # "none" \/ worker'[u].msg.inv \in lost'
  BY <1>1, <1>2, <1>6 DEF IInv, MessagesOK, Inv
<1>7. MessagesOK'
  BY <1>2, <1>6 DEF IInv, MessagesOK, Inv
<1> QED BY <1>3, <1>4, <1>5, <1>7 DEF IInv

LEMMA TakeKeeps ==
    ASSUME IInv, NEW w \in Workers, Take(w)
    PROVE  IInv'
<1>1. PICK m \in BagToSet(queue) :
        /\ queue' = queue (-) SetToBag({m})
        /\ worker' = [worker EXCEPT ![w] =
                        [pc |-> IF DaCo(m.inv) THEN "ack" ELSE "fetch", msg |-> m]]
  BY DEF Take
<1> DEFINE pc == IF DaCo(m.inv) THEN "ack" ELSE "fetch"
           v == [pc |-> pc, msg |-> m]
<1>2. /\ m \in Message /\ v \in WorkerStates /\ v # Idle /\ v.msg = m
      /\ v.pc \in {"idle", "fetch", "ack"}
      /\ v.pc = "ack" => tep[v.msg.inv] # "none"
  BY DEF IInv, TypeOK, WorkerStates, JobStates, Idle, DaCo
<1>3. /\ IsABag(queue') /\ BagToSet(queue') \subseteq BagToSet(queue)
      /\ BagToSet(queue) \subseteq BagToSet(queue') \cup {m}
  BY <1>1, TakeFacts DEF IInv, MessagesOK
<1>4. worker' = [worker EXCEPT ![w] = v] /\ worker[w] = Idle
  BY <1>1 DEF Take
<1> HIDE DEF v, pc
<1>5. /\ UNCHANGED <<unchangedByJobs, raw, tep, token>> /\ faults' = faults /\ lost' = lost
      /\ sent' = sent /\ tep' = tep
  BY DEF Take, unchangedByJobs
<1>6. faults' \in 0..MaxFaults /\ BagToSet(queue') \subseteq Message /\ lost' \subseteq Invoices
  BY <1>3, <1>5 DEF IInv, TypeOK
<1>7. worker'[w] = v /\ \A u \in Workers : worker[u] # Idle => worker'[u] = worker[u]
  BY <1>4 DEF IInv, ShapesOK
<1>8. ASSUME NEW p \in Packages, NEW i \in sent[p]
      PROVE  \/ tep[i] # "none" \/ i \in lost
             \/ \E n \in BagToSet(queue') : n.inv = i
             \/ \E u \in Workers : worker'[u] # Idle /\ worker'[u].msg.inv = i
  <2>1. \/ tep[i] # "none" \/ i \in lost
        \/ \E n \in BagToSet(queue) : n.inv = i
        \/ \E u \in Workers : worker[u] # Idle /\ worker[u].msg.inv = i
    BY DEF IInv, MessagesOK, WaitingIsServed, Inv
  <2> QED BY <1>2, <1>3, <1>7, <2>1
<1>9. WaitingIsServed'
  BY <1>5, <1>8 DEF WaitingIsServed, Inv
<1> QED BY <1>2, <1>3, <1>4, <1>5, <1>6, <1>9, HandKeeps

LEMMA NoWorker == Idle \in WorkerStates /\ Idle.pc = "idle"
BY DEF WorkerStates, Idle

\* What is known of the invoice of the consumer that becomes idle covers it.
LEMMA LaysDown ==
    ASSUME IInv, NEW w \in Workers, worker[w] # Idle, worker' = [worker EXCEPT ![w] = Idle],
           sent' = sent, tep' = tep, lost \subseteq lost',
           BagToSet(queue) \subseteq BagToSet(queue'),
           \/ tep[Inv(w)] # "none" \/ Inv(w) \in lost'
           \/ \E m \in BagToSet(queue') : m.inv = Inv(w)
    PROVE  WaitingIsServed'
<1>1. \A u \in Workers : u # w => worker'[u] = worker[u]
  BY DEF IInv, ShapesOK
<1>2. ASSUME NEW p \in Packages, NEW i \in sent[p]
      PROVE  \/ tep[i] # "none" \/ i \in lost'
             \/ \E n \in BagToSet(queue') : n.inv = i
             \/ \E u \in Workers : worker'[u] # Idle /\ worker'[u].msg.inv = i
  <2>1. \/ tep[i] # "none" \/ i \in lost
        \/ \E n \in BagToSet(queue) : n.inv = i
        \/ \E u \in Workers : worker[u] # Idle /\ worker[u].msg.inv = i
    BY DEF IInv, MessagesOK, WaitingIsServed, Inv
  <2> QED BY <1>1, <2>1 DEF Inv
<1> QED BY <1>2 DEF WaitingIsServed, Inv

LEMMA AckKeeps ==
    ASSUME IInv, NEW w \in Workers, Ack(w)
    PROVE  IInv'
<1>1. /\ worker[w].pc = "ack" /\ worker' = [worker EXCEPT ![w] = Idle]
      /\ UNCHANGED <<unchangedByJobs, raw, tep, token>> /\ queue' = queue /\ lost' = lost
      /\ faults' = faults /\ tep' = tep /\ sent' = sent /\ "ack" \in JobStates
  BY DEF Ack, Does, unchangedByJobs, JobStates
<1>2. worker[w] # Idle /\ faults' \in 0..MaxFaults
  BY <1>1, DoesFacts
<1>3. tep[Inv(w)] # "none" \/ Inv(w) \in lost
  BY <1>1 DEF IInv, MessagesOK
<1>4. WaitingIsServed'
  BY <1>1, <1>2, <1>3, LaysDown
<1>5. IsABag(queue') /\ BagToSet(queue') \subseteq Message /\ lost' \subseteq Invoices
  BY <1>1 DEF IInv, MessagesOK, TypeOK
<1> QED BY <1>1, <1>2, <1>4, <1>5, NoWorker, HandKeeps

LEMMA RedeliverKeeps ==
    ASSUME IInv, NEW w \in Workers, Redeliver(w)
    PROVE  IInv'
<1> DEFINE m == worker[w].msg
<1>1. /\ worker[w] # Idle /\ worker' = [worker EXCEPT ![w] = Idle] /\ Fault
      /\ UNCHANGED <<unchangedByJobs, raw, tep, token>> /\ tep' = tep /\ sent' = sent
  BY DEF Redeliver, unchangedByJobs
<1>2. faults' \in 0..MaxFaults
  BY <1>1, FaultFacts DEF IInv
<1>3. m \in Message /\ Inv(w) \in Invoices /\ m.inv = Inv(w)
  BY <1>1, WorkerFields DEF IInv, Inv
<1>4. IsABag(queue) /\ BagToSet(queue) \subseteq Message /\ lost \subseteq Invoices
  BY DEF IInv, MessagesOK, TypeOK
<1>5. CASE m.tries < MaxRetries
  <2> DEFINE n == [m EXCEPT !.tries = @ + 1]
  <2>1. n \in Message /\ n.inv = Inv(w)
    BY <1>3, <1>5, ShareAssumption DEF Message
  <2>2. queue' = queue (+) SetToBag({n}) /\ lost' = lost
    BY <1>5 DEF Redeliver
  <2> HIDE DEF n, m
  <2>3. IsABag(queue') /\ BagToSet(queue') = BagToSet(queue) \cup {n}
    BY <1>4, <2>2, PutFacts
  <2>4. WaitingIsServed'
    BY <1>1, <2>1, <2>2, <2>3, LaysDown
  <2>5. BagToSet(queue') \subseteq Message /\ lost' \subseteq Invoices /\ lost \subseteq lost'
    BY <1>4, <2>1, <2>2, <2>3
  <2> QED BY <1>1, <1>2, <2>3, <2>4, <2>5, NoWorker, HandKeeps
<1>6. CASE ~(m.tries < MaxRetries)
  <2>1. queue' = queue /\ lost' = lost \cup {Inv(w)}
    BY <1>6 DEF Redeliver, Inv
  <2>2. WaitingIsServed'
    BY <1>1, <2>1, LaysDown
  <2>3. /\ IsABag(queue') /\ BagToSet(queue') \subseteq Message
        /\ lost' \subseteq Invoices /\ lost \subseteq lost'
    BY <1>3, <1>4, <2>1
  <2> QED BY <1>1, <1>2, <2>2, <2>3, NoWorker, HandKeeps
<1> QED BY <1>5, <1>6

LEMMA JobStepKeeps ==
    ASSUME IInv, NEW w \in Workers, JobStep(w)
    PROVE  IInv'
BY TakeKeeps, FetchKeeps, PutFilesKeeps, SaveKeeps, AckKeeps DEF JobStep

-----------------------------------------------------------------------------
(***************************************************************************)
(* The environment                                                         *)
(***************************************************************************)
LEMMA InvoiceArrivesKeeps ==
    ASSUME IInv, InvoiceArrives
    PROVE  IInv'
<1>1. PICK i \in Invoices : stored' = stored \cup {i}
  BY DEF InvoiceArrives
<1>2. /\ UNCHANGED <<source, trangThai, bucket, old, soLuotTai, raw, tep, token>>
      /\ UNCHANGED <<queue, worker, call, sent, lost, promised>> /\ Fault
  BY DEF InvoiceArrives
<1>3. faults' \in 0..MaxFaults
  BY <1>2, FaultFacts DEF IInv
<1>4. TypeOK' /\ ShapesOK'
  BY <1>1, <1>2, <1>3 DEF IInv, TypeOK, ShapesOK
<1>5. FilesOK'
  BY <1>2, FilesFrame DEF IInv
<1>6. PackingOK' /\ RevokingOK'
  BY <1>2 DEF IInv, PackingOK, Packing, Counted, Stored, RevokingOK, RevokedForGood,
              PackedForGood
<1>7. MessagesOK'
  BY <1>1, <1>2 DEF IInv, MessagesOK, WaitingIsServed, Inv
<1> QED BY <1>4, <1>5, <1>6, <1>7 DEF IInv

\* An archive ages and is removed: what was gone stays gone.
LEMMA AgeKeeps ==
    ASSUME IInv, NEW p \in Packages, WeekPasses(p) \/ Lifecycle(p)
    PROVE  IInv'
<1>1. /\ UNCHANGED <<stored, trangThai, tep, token, soLuotTai, source, raw, queue>>
      /\ UNCHANGED <<worker, call, faults, sent, lost, promised>>
      /\ bucket' = bucket \/ bucket' = [bucket EXCEPT ![p] = NoFile]
      /\ old' \in {old, old \cup {p}}
  BY DEF WeekPasses, Lifecycle, rows
<1>2. /\ bucket' \in [Packages -> {NoFile} \cup SUBSET Invoices]
      /\ \A q \in Packages : bucket'[q] \in {bucket[q], NoFile}
  BY <1>1 DEF IInv, TypeOK
<1>3. TypeOK' /\ ShapesOK'
  BY <1>1, <1>2 DEF IInv, TypeOK, ShapesOK
<1>4. FilesOK' /\ MessagesOK'
  BY <1>1, FilesFrame DEF IInv, MessagesOK, WaitingIsServed, Inv
<1>5. \A c \in Calls : call[c].pc \in {"publish", "mark"} => call[c].pkg \in Packages
  BY CallTypes, CallFields DEF IInv
<1>6. PackingOK'
  <2>1. ASSUME NEW c \in Calls, call[c].pc = "publish"
        PROVE  Stored(c)'
    BY <1>1, <1>2, <1>5, <2>1 DEF IInv, PackingOK, Stored
  <2> QED BY <1>1, <2>1 DEF IInv, PackingOK, Packing, Counted
<1>7. RevokingOK'
  <2>1. \A q \in Packages : bucket[q] = NoFile => bucket'[q] = NoFile
    BY <1>2
  <2>2. \A q \in Packages : PackedForGood(q) => PackedForGood(q)'
    BY <1>1 DEF PackedForGood, Packing
  <2>3. \A q \in Packages : RevokedForGood(q) => RevokedForGood(q)'
    BY <1>1, <2>1, <2>2 DEF RevokedForGood
  <2>4. ASSUME NEW c \in Calls, call[c].pc \in {"delete", "mark"}, call[c].found = "published"
        PROVE  /\ PackedForGood(call[c].pkg)'
               /\ call[c].pc = "mark" => bucket'[call[c].pkg] = NoFile
    <3>1. /\ PackedForGood(call[c].pkg)
          /\ call[c].pc = "mark" => bucket[call[c].pkg] = NoFile
      BY <2>4 DEF IInv, RevokingOK
    <3> QED BY <1>1, <1>5, <2>1, <3>1 DEF PackedForGood, Packing
  <2> QED BY <1>1, <2>3, <2>4 DEF IInv, RevokingOK
<1> QED BY <1>3, <1>4, <1>6, <1>7 DEF IInv

-----------------------------------------------------------------------------
(***************************************************************************)
(* The invariant and the theorems                                          *)
(***************************************************************************)
LEMMA InvInit == Init => IInv
<1> SUFFICES ASSUME Init
             PROVE  IInv
  OBVIOUS
<1>1. ShapesOK
  BY NoCall, NoWorker DEF Init, ShapesOK
<1>2. BagToSet(queue) = {} /\ IsABag(queue)
  BY EmptyFacts DEF Init
<1>3. TypeOK
  BY <1>2, NoCall, ShareAssumption DEF Init, TypeOK, GoiStates, TepStates
<1>4. FilesOK
  BY NoWorker DEF Init, FilesOK, RowsHaveFiles
<1>5. PackingOK /\ RevokingOK
  BY NoCall DEF Init, PackingOK, Packing, RevokingOK
<1>6. MessagesOK
  BY <1>2, NoCall, NoWorker DEF Init, MessagesOK, WaitingIsServed
<1> QED BY <1>1, <1>3, <1>4, <1>5, <1>6 DEF IInv

LEMMA CallStepKeeps ==
    ASSUME IInv, NEW c \in Calls, CallStep(c)
    PROVE  IInv'
BY EnqueueKeeps, PackCountKeeps, PackFailKeeps, ElectKeeps, PutKeeps, PublishKeeps,
   RevokeDeleteKeeps, RevokeMarkKeeps, TaiGetKeeps, TaiTallyKeeps DEF CallStep

LEMMA StutterKeeps ==
    ASSUME IInv, UNCHANGED vars
    PROVE  IInv'
<1>1. /\ UNCHANGED <<stored, trangThai, tep, token, soLuotTai, source, bucket, old, raw>>
      /\ UNCHANGED <<queue, worker, call, faults, sent, lost, promised>>
  BY DEF vars, rows
<1>2. TypeOK' /\ ShapesOK'
  BY <1>1 DEF IInv, TypeOK, ShapesOK
<1>3. FilesOK' /\ MessagesOK'
  BY <1>1, FilesFrame DEF IInv, MessagesOK, WaitingIsServed, Inv
<1>4. PackingOK' /\ RevokingOK'
  BY <1>1 DEF IInv, PackingOK, Packing, Counted, Stored, RevokingOK, RevokedForGood,
              PackedForGood
<1> QED BY <1>2, <1>3, <1>4 DEF IInv

LEMMA InvNext == IInv /\ [Next]_vars => IInv'
<1> SUFFICES ASSUME IInv, [Next]_vars
             PROVE  IInv'
  OBVIOUS
<1>1. CASE \E c \in Calls, p \in Packages :
             Create(c, p) \/ PackAsk(c, p) \/ RevokeAsk(c, p) \/ TaiAsk(c, p)
  BY <1>1, CreateKeeps, AskKeeps, RevokeAskKeeps
<1>2. CASE \E c \in Calls : CallStep(c) \/ CallDies(c)
  BY <1>2, CallStepKeeps, CallDiesKeeps
<1>3. CASE \E w \in Workers : JobStep(w) \/ Unauthorized(w) \/ Redeliver(w)
  BY <1>3, JobStepKeeps, FetchKeeps, RedeliverKeeps
<1>4. CASE InvoiceArrives
  BY <1>4, InvoiceArrivesKeeps
<1>5. CASE \E p \in Packages : WeekPasses(p) \/ Lifecycle(p)
  BY <1>5, AgeKeeps
<1>6. CASE UNCHANGED vars
  BY <1>6, StutterKeeps
<1> QED BY <1>1, <1>2, <1>3, <1>4, <1>5, <1>6 DEF Next

LEMMA InvariantHolds == Spec => []IInv
BY InvInit, InvNext, PTL DEF Spec

\* A row that says "fetched" has its files in the internal store, whatever dies
\* between the two (tepHoaDonGocStore; deps.ts writes the files first).
THEOREM RowsKeepTheirFiles == Spec => []FilesInv
<1>1. IInv => FilesInv
  BY DEF IInv, FilesInv, FilesOK
<1> QED BY <1>1, InvariantHolds, PTL

\* However many requests ask for it at once, one packs a package, and none packs
\* one that is being prepared again (the conditional update of dong-goi).
THEOREM OnePacker == Spec => []PackedOnce
<1>1. IInv => PackedOnce
  BY DEF IInv, PackingOK, PackedOnce
<1> QED BY <1>1, InvariantHolds, PTL

\* An archive about to be published lacks no document the tax authority has,
\* whatever the invoices are called (dong-goi, goiHoaDonZip).
THEOREM ArchivesAreComplete == Spec => []NothingSilentlyMissing
<1>1. IInv => NothingSilentlyMissing
  BY DEF IInv, PackingOK, Stored, NothingSilentlyMissing, At
<1> QED BY <1>1, InvariantHolds, PTL

\* A revocation that found the link published holds for good (thu-hoi).
THEOREM RevokedStaysDead == Spec => []RevokedPublishedIsDead
<1>1. IInv => RevokedPublishedIsDead
  BY DEF IInv, RevokingOK, RevokedForGood, RevokedPublishedIsDead, Valid, Linked
<1> QED BY <1>1, InvariantHolds, PTL

\* A package waits for no document that its creation has sent for and nobody is
\* about to fetch (the messages of POST /goi-chia-se, runHoSoGocJob and the
\* deliveries of the queue).
THEOREM NobodyWaitsInVain == Spec => []WaitingIsServed
<1>1. IInv => WaitingIsServed
  BY DEF IInv, MessagesOK
<1> QED BY <1>1, InvariantHolds, PTL
=============================================================================
