---------------------------- MODULE SharePackage ----------------------------
(***************************************************************************)
(* Share packages: a user asks for the source documents of one customer's  *)
(* invoices, jobs fetch the documents from the tax authority into an       *)
(* internal store, one elected request packs them, publishes the archive   *)
(* under a public link, and anybody of the tenant may revoke the link.     *)
(* Two stores are involved everywhere - rows in the database and objects   *)
(* in R2 - and no transaction spans both: the model has one step for each  *)
(* write that another actor can see, and requests and jobs that die        *)
(* between any two of them.                                                *)
(***************************************************************************)
EXTENDS Naturals, FiniteSets, Bags

CONSTANTS Packages,      \* rows of goi_chia_se
          Invoices,      \* sold invoices of the tenant
          PhamVi,        \* the invoices of each package's customer and period
          KyHieu,        \* symbol and number of each invoice, as a file name
          NguoiBan,      \* its seller
          Calls,         \* requests under way at once
          Workers,       \* queue consumers
          NoFile,        \* no archive in the bucket
          MaxRetries,    \* deliveries of a message before the dead letters
          MaxDownloads,  \* bound: downloads counted per package
          MaxFaults      \* bound: deaths, failures, late invoices, dead tokens

ASSUME ShareAssumption == /\ PhamVi \in [Packages -> SUBSET Invoices]
                          /\ MaxRetries \in Nat
                          /\ MaxDownloads \in Nat
                          /\ MaxFaults \in Nat

VARIABLES
  stored,     \* the invoices header jobs have stored so far
  source,     \* the invoices GDT has a source document of
  trangThai,  \* the package's state
  bucket,     \* the public bucket: the invoices in each archive
  old,        \* packages whose archive is older than a week
  soLuotTai,  \* counted downloads
  raw,        \* the internal store: the files of each invoice
  tep,        \* tep_hoa_don_goc: what is recorded of each invoice
  token,      \* the tax account's token is alive
  queue,      \* messages that ask for a source document
  worker,     \* what each consumer does
  call,       \* what each request does
  faults,     \* faults so far
  sent,       \* bookkeeping: the invoices each package has asked for
  lost,       \* bookkeeping: invoices a message of which ended without a row
  promised    \* bookkeeping: what answered revocations had found

rows == <<stored, trangThai, tep, token, soLuotTai>>
vars == <<rows, source, bucket, old, raw, queue, worker, call,
          faults, sent, lost, promised>>

\* The two tables, and the files of a source document GDT's archive must have.
GoiStates == {"none", "dang_tao", "dang_dong_goi", "san_sang", "loi", "da_thu_hoi"}
TepStates == {"none", "da_tai", "khong_co_ho_so_goc"}
TepHoaDon == {"xml", "html"}

Idle == [pc |-> "idle"]
Message == [inv : Invoices, tries : 0..MaxRetries]
Active(p) == trangThai[p] # "none"

(* The invoices of a package are looked up anew by every request. *)
HoaDons(p) == stored \cap PhamVi[p]

(* Its progress is counted from what is recorded of their documents. *)
Progress(p, state) == {i \in HoaDons(p) : tep[i] = state}
Waiting(p) == Progress(p, "none")
Fetched(p) == Progress(p, "da_tai")

\* All documents are there or known to be absent: what an open page sees.
DaTaiXong(p) == Waiting(p) = {} /\ HoaDons(p) # {}

\* The link is shown to the tenant's users.
Linked(p) == trangThai[p] = "san_sang"

(* The link works: what tai_tra_goi asks the row. *)
Valid(p) == Linked(p) /\ p \notin old

Init ==
  /\ stored \in SUBSET Invoices
  /\ source \in SUBSET Invoices
  /\ trangThai = [p \in Packages |-> "none"]
  /\ bucket = [p \in Packages |-> NoFile]
  /\ old = {}
  /\ soLuotTai = [p \in Packages |-> 0]
  /\ raw = [i \in Invoices |-> {}]
  /\ tep = [i \in Invoices |-> "none"]
  /\ token = TRUE
  /\ queue = EmptyBag
  /\ worker = [w \in Workers |-> Idle]
  /\ call = [c \in Calls |-> Idle]
  /\ faults = 0
  /\ sent = [p \in Packages |-> {}]
  /\ lost = {}
  /\ promised = [p \in Packages |-> "nothing"]

-----------------------------------------------------------------------------
(***************************************************************************)
(* Requests.  pc names the next step.                                      *)
(***************************************************************************)
Become(c, v) == call' = [call EXCEPT ![c] = v]
Answer(c) == Become(c, Idle)
At(c, pc) == call[c].pc = pc
Set(p, state) == trangThai' = [trangThai EXCEPT ![p] = state]

unchangedByCalls == <<stored, source, raw, tep, token, worker, lost>>

(* POST /: nothing to share is refused; else the row, then the messages. *)
Create(c, p) ==
  /\ call[c] = Idle
  /\ ~Active(p)
  /\ HoaDons(p) # {}
  /\ Set(p, "dang_tao")
  /\ Become(c, [pc |-> "enqueue", pkg |-> p, left |-> HoaDons(p)])
  /\ UNCHANGED <<unchangedByCalls, bucket, old, soLuotTai, queue, faults,
                 sent, promised>>

Enqueue(c) ==
  /\ At(c, "enqueue")
  /\ \E i \in call[c].left :
       /\ queue' = queue (+) SetToBag({[inv |-> i, tries |-> 0]})
       /\ sent' = [sent EXCEPT ![call[c].pkg] = @ \cup {i}]
       /\ IF call[c].left = {i} THEN Answer(c)
          ELSE Become(c, [call[c] EXCEPT !.left = @ \ {i}])
  /\ UNCHANGED <<unchangedByCalls, trangThai, bucket, old, soLuotTai, faults,
                 promised>>

(* What the pages wait for before they ask for the packing. *)
CanDongGoi(p) ==
  /\ trangThai[p] = "dang_tao"
  /\ DaTaiXong(p)

(* POST /:id/dong-goi: only a package in preparation goes on; one that is  *)
(* ready is answered with its link, any other refused.                     *)
PackAsk(c, p) ==
  /\ call[c] = Idle
  /\ trangThai[p] = "dang_tao"
  /\ Become(c, [pc |-> "count", pkg |-> p])
  /\ UNCHANGED <<unchangedByCalls, trangThai, bucket, old, soLuotTai, queue,
                 faults, sent, promised>>

\* Mutant of PackCount: documents still awaited are left out.
PackCount_Impatient(c) ==
  /\ At(c, "count")
  /\ LET p == call[c].pkg IN
       Become(c, [pc |-> IF Fetched(p) = {} THEN "fail" ELSE "elect", pkg |-> p,
                  hoaDons |-> HoaDons(p), kho |-> Fetched(p)])
  /\ UNCHANGED <<unchangedByCalls, trangThai, bucket, old, soLuotTai, queue,
                 faults, sent, promised>>

PackCount(c) ==
  /\ At(c, "count")
  /\ LET p == call[c].pkg IN
       IF Waiting(p) # {} THEN Answer(c)
       ELSE Become(c, [pc |-> IF Fetched(p) = {} THEN "fail" ELSE "elect",
                       pkg |-> p,
                       hoaDons |-> HoaDons(p),
                       kho |-> Fetched(p)])
  /\ UNCHANGED <<unchangedByCalls, trangThai, bucket, old, soLuotTai, queue,
                 faults, sent, promised>>

(* Whatever the state has become meanwhile. *)
PackFail(c) ==
  /\ At(c, "fail")
  /\ Set(call[c].pkg, "loi")
  /\ Answer(c)
  /\ UNCHANGED <<unchangedByCalls, bucket, old, soLuotTai, queue, faults,
                 sent, promised>>

\* Mutant of Elect: the update has no condition on the state.
Elect_Always(c) ==
  /\ At(c, "elect")
  /\ Set(call[c].pkg, "dang_dong_goi")
  /\ Become(c, [call[c] EXCEPT !.pc = "put"])
  /\ UNCHANGED <<unchangedByCalls, bucket, old, soLuotTai, queue, faults,
                 sent, promised>>

(* The only conditional update: it elects one packer. *)
Elect(c) ==
  /\ At(c, "elect")
  /\ LET p == call[c].pkg IN
       \/ /\ trangThai[p] = "dang_tao"
          /\ Set(p, "dang_dong_goi")
          /\ Become(c, [call[c] EXCEPT !.pc = "put"])
       \/ /\ trangThai[p] # "dang_tao"
          /\ Answer(c)
          /\ UNCHANGED trangThai
  /\ UNCHANGED <<unchangedByCalls, bucket, old, soLuotTai, queue, faults,
                 sent, promised>>

(* The name of an invoice's files among those of the invoices S: all that  *)
(* share the short name get the seller's code too, and if that is not      *)
(* enough, their own.                                                      *)
TenTep(i, S) ==
  LET same == {j \in S : KyHieu[j] = KyHieu[i]} IN
    CASE same = {i} -> <<KyHieu[i]>>
      [] same # {i} /\ \A j \in same \ {i} : NguoiBan[j] # NguoiBan[i]
           -> <<NguoiBan[i], KyHieu[i]>>
      [] OTHER -> <<NguoiBan[i], KyHieu[i], i>>

(* Of files with one name only one is in the archive.                      *)
DungGoiZip(S) ==
  {CHOOSE i \in S : TenTep(i, S) = name : name \in {TenTep(i, S) : i \in S}}

(* The archive holds what is recorded as fetched and really is in store. *)
Archive(c) ==
  DungGoiZip({i \in call[c].hoaDons \cap call[c].kho : raw[i] = TepHoaDon})

Put(c) ==
  /\ At(c, "put")
  /\ bucket' = [bucket EXCEPT ![call[c].pkg] = Archive(c)]
  /\ old' = old \ {call[c].pkg}
  /\ Become(c, [call[c] EXCEPT !.pc = "publish"])
  /\ UNCHANGED <<unchangedByCalls, trangThai, soLuotTai, queue, faults, sent,
                 promised>>

(* Whatever the state has become meanwhile. *)
Publish(c) ==
  /\ At(c, "publish")
  /\ Set(call[c].pkg, "san_sang")
  /\ Answer(c)
  /\ UNCHANGED <<unchangedByCalls, bucket, old, soLuotTai, queue, faults,
                 sent, promised>>

(* POST /:id/thu-hoi: in any state; the object first, then the row. *)
Promise(p, found) ==
  promised' = [promised EXCEPT ![p] = IF @ = "published" THEN @ ELSE found]

\* Mutant of RevokeAsk: a published link is marked without being deleted.
RevokeAsk_KeepsFile(c, p) ==
  /\ call[c] = Idle
  /\ trangThai[p] \notin {"none", "da_thu_hoi"}
  /\ Become(c, [pc |-> "mark", pkg |-> p,
                found |-> IF Linked(p) THEN "published" ELSE "early"])
  /\ UNCHANGED <<unchangedByCalls, trangThai, bucket, old, soLuotTai, queue,
                 faults, sent, promised>>

RevokeAsk(c, p) ==
  /\ call[c] = Idle
  /\ trangThai[p] \notin {"none", "da_thu_hoi"}
  /\ Become(c, [pc |-> "delete", pkg |-> p,
                found |-> IF Linked(p) THEN "published" ELSE "early"])
  /\ UNCHANGED <<unchangedByCalls, trangThai, bucket, old, soLuotTai, queue,
                 faults, sent, promised>>

RevokeDelete(c) ==
  /\ At(c, "delete")
  /\ bucket' = [bucket EXCEPT ![call[c].pkg] = NoFile]
  /\ Become(c, [call[c] EXCEPT !.pc = "mark"])
  /\ UNCHANGED <<unchangedByCalls, trangThai, old, soLuotTai, queue, faults,
                 sent, promised>>

RevokeMark(c) ==
  /\ At(c, "mark")
  /\ Set(call[c].pkg, "da_thu_hoi")
  /\ Promise(call[c].pkg, call[c].found)
  /\ Answer(c)
  /\ UNCHANGED <<unchangedByCalls, bucket, old, soLuotTai, queue, faults,
                 sent>>

(* GET /tai/<token>: ask the row, open the object, count the download. *)
TaiAsk(c, p) ==
  /\ call[c] = Idle
  /\ Valid(p)
  /\ soLuotTai[p] < MaxDownloads
  /\ Become(c, [pc |-> "get", pkg |-> p])
  /\ UNCHANGED <<unchangedByCalls, trangThai, bucket, old, soLuotTai, queue,
                 faults, sent, promised>>

TaiGet(c) ==
  /\ At(c, "get")
  /\ IF bucket[call[c].pkg] = NoFile THEN Answer(c)
     ELSE Become(c, [call[c] EXCEPT !.pc = "tally"])
  /\ UNCHANGED <<unchangedByCalls, trangThai, bucket, old, soLuotTai, queue,
                 faults, sent, promised>>

TaiTally(c) ==
  /\ At(c, "tally")
  /\ LET p == call[c].pkg IN
       soLuotTai' = IF trangThai[p] = "san_sang" /\ soLuotTai[p] < MaxDownloads
                    THEN [soLuotTai EXCEPT ![p] = @ + 1] ELSE soLuotTai
  /\ Answer(c)
  /\ UNCHANGED <<unchangedByCalls, trangThai, bucket, old, queue, faults,
                 sent, promised>>

Fault == faults < MaxFaults /\ faults' = faults + 1

(* The request dies, or a call it makes fails, at any step. *)
CallDies(c) ==
  /\ call[c] # Idle
  /\ Fault
  /\ Answer(c)
  /\ UNCHANGED <<unchangedByCalls, trangThai, bucket, old, soLuotTai, queue,
                 sent, promised>>

CallStep(c) ==
  \/ Enqueue(c) \/ PackCount(c) \/ PackFail(c) \/ Elect(c) \/ Put(c)
  \/ Publish(c) \/ RevokeDelete(c) \/ RevokeMark(c) \/ TaiGet(c) \/ TaiTally(c)

-----------------------------------------------------------------------------
(***************************************************************************)
(* The jobs that fetch source documents.                                   *)
(***************************************************************************)
JobStates == {"fetch", "xml", "html", "save", "absent", "ack"}
Work(w, pc) == worker' = [worker EXCEPT ![w].pc = pc]
Does(w, pc) == worker[w].pc = pc
Inv(w) == worker[w].msg.inv

unchangedByJobs == <<stored, source, trangThai, bucket, old, soLuotTai, call,
                     sent, promised>>

(* An invoice of which anything is recorded is not asked for again. *)
DaCo(i) == tep[i] # "none"

(* GDT has the archive; else it says so, with a 500 of its own.            *)
CoHoSoGoc(i) == i \in source

Take(w) ==
  /\ worker[w] = Idle
  /\ \E m \in BagToSet(queue) :
       /\ queue' = queue (-) SetToBag({m})
       /\ worker' = [worker EXCEPT ![w] =
                       [pc |-> IF DaCo(m.inv) THEN "ack" ELSE "fetch",
                        msg |-> m]]
  /\ UNCHANGED <<unchangedByJobs, raw, tep, token, faults, lost>>

(* GDT answers with the archive, or that there is none. *)
Fetch(w) ==
  /\ Does(w, "fetch")
  /\ token
  /\ Work(w, IF CoHoSoGoc(Inv(w)) THEN "xml" ELSE "absent")
  /\ UNCHANGED <<unchangedByJobs, raw, tep, token, queue, faults, lost>>

(* The token is dead: the message is given up, a login does not revive it. *)
TokenExpired(w) ==
  /\ Does(w, "fetch")
  /\ ~token
  /\ Work(w, "ack")
  /\ lost' = lost \cup {Inv(w)}
  /\ UNCHANGED <<unchangedByJobs, raw, tep, token, queue, faults>>

(* GDT refuses the token (401): it is cleared, the message given up. *)
Unauthorized(w) ==
  /\ Does(w, "fetch")
  /\ token
  /\ Fault
  /\ token' = FALSE
  /\ Work(w, "ack")
  /\ lost' = lost \cup {Inv(w)}
  /\ UNCHANGED <<unchangedByJobs, raw, tep, queue>>

\* Mutant of PutXml: the row is written before the HTML is stored.
PutXml_RowFirst(w) ==
  /\ Does(w, "xml")
  /\ raw' = [raw EXCEPT ![Inv(w)] = @ \cup {"xml"}]
  /\ tep' = [tep EXCEPT ![Inv(w)] = "da_tai"]
  /\ Work(w, "html")
  /\ UNCHANGED <<unchangedByJobs, token, queue, faults, lost>>

PutXml(w) ==
  /\ Does(w, "xml")
  /\ raw' = [raw EXCEPT ![Inv(w)] = @ \cup {"xml"}]
  /\ Work(w, "html")
  /\ UNCHANGED <<unchangedByJobs, tep, token, queue, faults, lost>>

PutHtml(w) ==
  /\ Does(w, "html")
  /\ raw' = [raw EXCEPT ![Inv(w)] = @ \cup {"html"}]
  /\ Work(w, "save")
  /\ UNCHANGED <<unchangedByJobs, tep, token, queue, faults, lost>>

Save(w) ==
  /\ Does(w, "save")
  /\ tep' = [tep EXCEPT ![Inv(w)] = "da_tai"]
  /\ Work(w, "ack")
  /\ UNCHANGED <<unchangedByJobs, raw, token, queue, faults, lost>>

\* Mutant of SaveAbsent: an absent document leaves no row.
SaveAbsent_NoRow(w) ==
  /\ Does(w, "absent")
  /\ Work(w, "ack")
  /\ UNCHANGED <<unchangedByJobs, raw, tep, token, queue, faults, lost>>

SaveAbsent(w) ==
  /\ Does(w, "absent")
  /\ tep' = [tep EXCEPT ![Inv(w)] = "khong_co_ho_so_goc"]
  /\ Work(w, "ack")
  /\ UNCHANGED <<unchangedByJobs, raw, token, queue, faults, lost>>

Ack(w) ==
  /\ Does(w, "ack")
  /\ worker' = [worker EXCEPT ![w] = Idle]
  /\ UNCHANGED <<unchangedByJobs, raw, tep, token, queue, faults, lost>>

\* Mutant of Redeliver: a job that fails is acknowledged.
Redeliver_Acks(w) ==
  /\ worker[w] # Idle
  /\ Fault
  /\ worker' = [worker EXCEPT ![w] = Idle]
  /\ UNCHANGED <<unchangedByJobs, raw, tep, token, queue, lost>>

(* The job dies, is turned away or fails: the queue delivers the message   *)
(* again, up to its limit, after which it is a dead letter.                *)
Redeliver(w) ==
  /\ worker[w] # Idle
  /\ Fault
  /\ worker' = [worker EXCEPT ![w] = Idle]
  /\ LET m == worker[w].msg IN
       IF m.tries < MaxRetries
       THEN /\ queue' = queue (+) SetToBag({[m EXCEPT !.tries = @ + 1]})
            /\ UNCHANGED lost
       ELSE /\ lost' = lost \cup {m.inv}
            /\ UNCHANGED queue
  /\ UNCHANGED <<unchangedByJobs, raw, tep, token>>

JobStep(w) ==
  \/ Take(w) \/ Fetch(w) \/ TokenExpired(w) \/ PutXml(w) \/ PutHtml(w)
  \/ Save(w) \/ SaveAbsent(w) \/ Ack(w)

-----------------------------------------------------------------------------
(* A header job stores another invoice. *)
InvoiceArrives ==
  /\ Fault
  /\ \E i \in Invoices \ stored : stored' = stored \cup {i}
  /\ UNCHANGED <<source, trangThai, bucket, old, soLuotTai, raw, tep, token,
                 queue, worker, call, sent, lost, promised>>

(* A week after the archive was written: the link expires by its row, and  *)
(* the bucket's lifecycle removes the object some time later.  No request  *)
(* lives as long.                                                          *)
WeekPasses(p) ==
  /\ p \notin old
  /\ bucket[p] # NoFile
  /\ \A c \in Calls : call[c] = Idle
  /\ old' = old \cup {p}
  /\ UNCHANGED <<rows, source, bucket, raw, queue, worker, call, faults, sent,
                 lost, promised>>

Lifecycle(p) ==
  /\ p \in old
  /\ bucket[p] # NoFile
  /\ bucket' = [bucket EXCEPT ![p] = NoFile]
  /\ UNCHANGED <<rows, source, old, raw, queue, worker, call, faults, sent,
                 lost, promised>>

Next ==
  \/ \E c \in Calls, p \in Packages :
       Create(c, p) \/ PackAsk(c, p) \/ RevokeAsk(c, p) \/ TaiAsk(c, p)
  \/ \E c \in Calls : CallStep(c) \/ CallDies(c)
  \/ \E w \in Workers : JobStep(w) \/ Unauthorized(w) \/ Redeliver(w)
  \/ InvoiceArrives
  \/ \E p \in Packages : WeekPasses(p) \/ Lifecycle(p)

(* Requests and jobs that have begun go on; the open page asks for the     *)
(* packing as soon as all documents are there.                             *)
Fairness ==
  /\ \A c \in Calls : WF_vars(CallStep(c))
  /\ \A w \in Workers : WF_vars(JobStep(w))
  /\ \A p \in Packages :
       SF_vars(\E c \in Calls : CanDongGoi(p) /\ PackAsk(c, p))

Spec == Init /\ [][Next]_vars /\ Fairness
-----------------------------------------------------------------------------
(***************************************************************************)
(* Properties                                                              *)
(***************************************************************************)
CallStates ==
  {Idle}
  \cup [pc : {"enqueue"}, pkg : Packages, left : (SUBSET Invoices) \ {{}}]
  \cup [pc : {"count", "get", "tally"}, pkg : Packages]
  \cup [pc : {"fail", "elect", "put", "publish"}, pkg : Packages,
        hoaDons : SUBSET Invoices, kho : SUBSET Invoices]
  \cup [pc : {"delete", "mark"}, pkg : Packages, found : {"early", "published"}]

(* Type correctness; a document is recorded at most for stored invoices,   *)
(* and requests carry what they have read and no more.                     *)
TypeOK ==
  /\ stored \subseteq Invoices
  /\ source \subseteq Invoices
  /\ trangThai \in [Packages -> GoiStates]
  /\ bucket \in [Packages -> {NoFile} \cup SUBSET Invoices]
  /\ old \subseteq Packages
  /\ soLuotTai \in [Packages -> 0..MaxDownloads]
  /\ raw \in [Invoices -> SUBSET TepHoaDon]
  /\ tep \in [Invoices -> TepStates]
  /\ token \in BOOLEAN
  /\ BagToSet(queue) \subseteq Message
  /\ \A w \in Workers :
       \/ worker[w] = Idle
       \/ /\ worker[w].pc \in JobStates
          /\ worker[w].msg \in Message
  /\ \A c \in Calls : call[c] \in CallStates
  /\ faults \in 0..MaxFaults
  /\ sent \in [Packages -> SUBSET stored]
  /\ lost \subseteq Invoices
  /\ promised \in [Packages -> {"nothing", "early", "published"}]

(* deps.ts 274-278: a row that says "fetched" has its files, whatever dies *)
(* between the stores - else nobody would ever fetch them again.           *)
RowsHaveFiles ==
  \A i \in Invoices : tep[i] = "da_tai" => raw[i] = TepHoaDon

(* A package is packed once: two tabs that both see "all there" do not     *)
(* build two archives, and one that was published is not packed again.     *)
Packing(c, p) ==
  /\ call[c] # Idle
  /\ call[c].pkg = p
  /\ call[c].pc \in {"put", "publish"}

PackedOnce ==
  \A p \in Packages, c, d \in Calls :
    Packing(c, p) => /\ Packing(d, p) => c = d
                     /\ trangThai[p] # "dang_tao"

(* What goes out is complete: of the invoices of the package, an archive   *)
(* about to be published lacks none GDT has a document of - neither        *)
(* because it was not waited for nor because another's files took its name *)
(* (goiHoaDonZip, "two invoices overwrite each other and nobody knows").   *)
NothingSilentlyMissing ==
  \A c \in Calls :
    At(c, "publish") /\ bucket[call[c].pkg] # NoFile =>
      bucket[call[c].pkg] = call[c].hoaDons \cap source

(* goiChiaSe.ts 528: a revocation that found the link published and has    *)
(* been answered holds: the row is dead and the object gone for good,      *)
(* whatever requests are still under way.                                  *)
RevokedPublishedIsDead ==
  \A p \in Packages :
    promised[p] = "published" => ~Valid(p) /\ bucket[p] = NoFile

(* Once a package's creation has sent for a document, the document is      *)
(* recorded, or somebody is about to fetch it - its message is queued or   *)
(* worked on -, or it was given up in a way the code knows of (dead token, *)
(* dead letter).  Nobody fetches what a creation that died had not sent    *)
(* for yet, or an invoice that is stored only later (goiChiaSe.ts 366).    *)
WaitingIsServed ==
  \A p \in Packages : \A i \in sent[p] :
    \/ tep[i] # "none"
    \/ i \in lost
    \/ \E m \in BagToSet(queue) : m.inv = i
    \/ \E w \in Workers : worker[w] # Idle /\ Inv(w) = i

(* The claim of taiCongKhai.ts 5-7, and what the page tells the user: once *)
(* a revocation has been answered the link serves nothing.                 *)
RevokedIsDead ==
  \A p \in Packages :
    promised[p] # "nothing" => ~(Valid(p) /\ bucket[p] # NoFile)

(* Without faults a package does not stay in preparation: its documents    *)
(* are fetched or known to be absent, the page asks, and one request packs *)
(* or fails it, however requests and revocations interleave.               *)
PackagesFinish ==
  [](faults = 0) =>
    \A p \in Packages :
      trangThai[p] \in {"dang_tao", "dang_dong_goi"}
        ~> trangThai[p] \in {"san_sang", "loi", "da_thu_hoi"}

(* The packages are well-formed, and every row of a fetched document has   *)
(* its files (tepHoaDonGocStore).                                          *)
FilesInv == TypeOK /\ RowsHaveFiles
=============================================================================
