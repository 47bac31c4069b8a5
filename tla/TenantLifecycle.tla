--------------------------- MODULE TenantLifecycle --------------------------
(***************************************************************************)
(* How a business becomes a customer and who may come in: registration,    *)
(* the proof of its email address, the decisions of the administrators,    *)
(* the links to set a password, logins and changes of password.            *)
(* What one SQL function does is one step, for it locks what it reads.     *)
(* Requests that make several calls take one step for each call and may    *)
(* die between any two, and mails may not leave.                           *)
(***************************************************************************)
EXTENDS Naturals, FiniteSets

CONSTANTS Tenants,     \* businesses that may register, each with its address
          Domain,      \* what the DNS knows of the domain of each address
          Msts,        \* tax codes they may claim
          Passwords,   \* passwords of at least eight characters
          NoPassword,  \* password_hash is NULL
          Links,       \* bound: rows of dat_mat_khau
          Requests     \* requests under way at once

ASSUME TenantsAssumption == IsFiniteSet(Tenants) /\ Tenants # {}

VARIABLES
  trangThai,  \* the state of each tenant, "none" before it registers
  mst,        \* the tax code it registered
  hash,       \* its administrator's password
  temp,       \* his temporary password of old: none, valid or out of time
  proof,      \* the token that proves the email address
  link,       \* links to set a password: whose, and whether still good
  inbox,      \* mails that arrived: a tenant's proof, a password link
  session,    \* tenants with a session
  admin,      \* an administrator of the system has a session
  req,        \* what each request does
  decided,    \* bookkeeping: the decisions answered with 'ok'
  uses,       \* bookkeeping: passwords set with each link
  made        \* bookkeeping: good links a completed link found when it began

user == <<hash, temp>>
notes == <<decided, uses, made>>
rows == <<trangThai, mst, user, proof, link>>
people == <<inbox, session, admin>>
vars == <<rows, people, req, notes>>

States == {"cho_xac_thuc_email", "cho_duyet", "active", "khoa", "tu_choi"}
Actions == {"duyet", "tu_choi", "khoa", "mo_khoa"}
Tokens == {"none", "live", "used", "expired"}
Idle == [pc |-> "idle"]

(* CHUYEN_HOP_LE: every decision has one source and one target.            *)
Tu(action) == CASE action \in {"duyet", "tu_choi"} -> "cho_duyet"
                [] action = "khoa" -> "active"
                [] action = "mo_khoa" -> "khoa"
Den(action) == CASE action \in {"duyet", "mo_khoa"} -> "active"
                 [] action = "tu_choi" -> "tu_choi"
                 [] action = "khoa" -> "khoa"

LiveLinks(t) == {l \in Links : link[l] = [of |-> t, state |-> "live"]}
Unused == {l \in Links : link[l].state = "none"}

(* A tenant of the time of temporary passwords may be there already.       *)
Init ==
  /\ \E old \in SUBSET Tenants :
       /\ Cardinality(old) <= 1
       /\ trangThai = [t \in Tenants |-> IF t \in old THEN "active" ELSE "none"]
       /\ \E m \in Msts : mst = [t \in Tenants |-> m]
       /\ hash \in [Tenants -> Passwords \cup {NoPassword}]
       /\ \A t \in Tenants : hash[t] = NoPassword <=> t \notin old
       /\ temp = [t \in Tenants |-> IF t \in old THEN "valid" ELSE "none"]
  /\ proof = [t \in Tenants |-> "none"]
  /\ link = [l \in Links |-> [of |-> CHOOSE t \in Tenants : TRUE,
                              state |-> "none"]]
  /\ inbox = {}
  /\ session = {} /\ admin = FALSE
  /\ req = [r \in Requests |-> Idle]
  /\ decided = [t \in Tenants |-> <<0, 0>>]
  /\ uses = [l \in Links |-> 0]
  /\ made = [l \in Links |-> {}]

Become(r, v) == req' = [req EXCEPT ![r] = v]
Answer(r) == Become(r, Idle)
At(r, pc) == req[r].pc = pc

-----------------------------------------------------------------------------
(* Mail.  Two questions to the DNS, and then the mail service; what cannot *)
(* be asked counts as good.                                                *)
Answers == {"some", "null", "none", "nxdomain"}

(* mienNhanDuocThu: without an MX record the A record is the mail server.  *)
MienNhanDuocThu(mx, a) ==
  \/ mx \in {"some", "silent"}
  \/ mx = "none" /\ a \in {"some", "silent"}

(* A mail to such a domain comes back, and the mail service closes the     *)
(* account of a sender with many of these.                                 *)
TakesMail(dns) ==
  \/ dns.mx = "some"
  \/ dns.mx = "none" /\ dns.a = "some"

(* The gate turns away no customer who can get mail, whichever question    *)
(* stays without answer, and with both answers no other passes             *)
(* (kiemTraMien.ts:84).                                                    *)
ASSUME MailGateAssumption ==
  /\ Domain \in [Tenants -> [mx : Answers, a : Answers]]
  /\ \A dns \in [mx : Answers, a : Answers] :
       /\ MienNhanDuocThu(dns.mx, dns.a) <=> TakesMail(dns)
       /\ TakesMail(dns) => /\ MienNhanDuocThu("silent", dns.a)
                           /\ MienNhanDuocThu(dns.mx, "silent")

(* taoSesTransport.gui: what comes of a mail to t, "refused" too when the  *)
(* mail service does not answer or does not take it.                       *)
Gui(t) ==
  {"refused"} \cup
  {IF TakesMail(Domain[t]) THEN "arrives" ELSE "bounces" :
     answer \in {dns \in [mx : {Domain[t].mx, "silent"},
                          a : {Domain[t].a, "silent"}] :
                   MienNhanDuocThu(dns.mx, dns.a)}}

Mailed(t, item) ==
  \E sent \in Gui(t) :
    inbox' = IF sent = "arrives" THEN inbox \cup {item} ELSE inbox

-----------------------------------------------------------------------------
(* Registration and proof of the address. *)

(* tenants_mst_unique *)
Free(m) == \A u \in Tenants : trangThai[u] # "none" => mst[u] # m

(* POST /dang-ky: tenant, user, log and token are one transaction, refused *)
(* when another tenant, in whatever state, has the tax code.               *)
Register(r, t, m) ==
  /\ req[r] = Idle
  /\ trangThai[t] = "none"
  /\ Free(m)
  /\ mst' = [mst EXCEPT ![t] = m]
  /\ trangThai' = [trangThai EXCEPT ![t] = "cho_xac_thuc_email"]
  /\ proof' = [proof EXCEPT ![t] = "live"]
  /\ Become(r, [pc |-> "mailProof", of |-> t])
  /\ UNCHANGED <<user, link, people, notes>>

(* The mail leaves or not; the answer is 201 either way. *)
MailProof(r) ==
  /\ At(r, "mailProof")
  /\ Mailed(req[r].of, req[r].of)
  /\ Answer(r)
  /\ UNCHANGED <<rows, session, admin, notes>>

(* POST /xac-thuc-email: the token is spent, and the tenant moves on if it *)
(* still waits for it.                                                     *)
ProveEmail(t) ==
  /\ t \in inbox
  /\ proof[t] = "live"
  /\ proof' = [proof EXCEPT ![t] = "used"]
  /\ trangThai' = [trangThai EXCEPT ![t] = IF @ = "cho_xac_thuc_email"
                                           THEN "cho_duyet" ELSE @]
  /\ UNCHANGED <<mst, user, link, people, req, notes>>

ProofExpires(t) ==
  /\ proof[t] = "live"
  /\ proof' = [proof EXCEPT ![t] = "expired"]
  /\ UNCHANGED <<trangThai, mst, user, link, people, req, notes>>

-----------------------------------------------------------------------------
(* Administrators. *)

(* POST /admin/auth/login: an active one, by his password. *)
AdminLogin ==
  /\ ~admin
  /\ admin' = TRUE
  /\ UNCHANGED <<rows, inbox, session, req, notes>>

(* POST /admin/auth/logout, or two hours later. *)
AdminSessionEnds ==
  /\ admin
  /\ admin' = FALSE
  /\ UNCHANGED <<rows, inbox, session, req, notes>>

(* requireSuperAdmin, at the beginning of a request. *)
Asked(r) == req[r] = Idle /\ admin

\* Mutant of Decide: the update does not ask for the source state.
Decide_Blindly(r, t, action) ==
  /\ Asked(r)
  /\ trangThai[t] \in {"cho_duyet", "active", "khoa", "tu_choi"}
  /\ trangThai' = [trangThai EXCEPT ![t] = Den(action)]
  /\ decided' = [decided EXCEPT ![t] =
                   << @[1] + (IF action = "duyet" THEN 1 ELSE 0),
                      @[2] + (IF action = "tu_choi" THEN 1 ELSE 0) >>]
  /\ Become(r, [pc |-> IF action = "duyet" THEN "find" ELSE "idle", of |-> t])
  /\ UNCHANGED <<mst, user, proof, link, people, uses, made>>

(* POST /admin/tenants/:id/<action>: one conditional update; of two        *)
(* administrators the second finds no row and gets 409.  An approval goes  *)
(* on to the mail with the link.                                           *)
Decide(r, t, action) ==
  /\ Asked(r)
  /\ trangThai[t] = Tu(action)
  /\ trangThai' = [trangThai EXCEPT ![t] = Den(action)]
  /\ decided' = [decided EXCEPT ![t] =
                   << @[1] + (IF action = "duyet" THEN 1 ELSE 0),
                      @[2] + (IF action = "tu_choi" THEN 1 ELSE 0) >>]
  /\ IF action = "duyet" THEN Become(r, [pc |-> "find", of |-> t])
                         ELSE Answer(r)
  /\ UNCHANGED <<mst, user, proof, link, people, uses, made>>

(* POST /admin/tenants/:id/gui-link-dat-mat-khau, whatever its state. *)
Resend(r, t) ==
  /\ Asked(r)
  /\ trangThai[t] # "none"
  /\ Become(r, [pc |-> "find", of |-> t])
  /\ UNCHANGED <<rows, people, notes>>

(* dat_mat_khau_tao, the UPDATE: it sees the links committed by now.       *)
FindLinks(r) ==
  /\ At(r, "find")
  /\ Become(r, [pc |-> "make", of |-> req[r].of,
                found |-> LiveLinks(req[r].of)])
  /\ UNCHANGED <<rows, people, notes>>

\* Mutant of MakeLink: the old links stay.
MakeLink_KeepsOld(r) ==
  /\ At(r, "make")
  /\ \E l \in Unused :
       /\ link' = [link EXCEPT ![l] = [of |-> req[r].of, state |-> "live"]]
       /\ made' = [made EXCEPT ![l] = req[r].found]
       /\ Become(r, [pc |-> "mailLink", of |-> req[r].of, link |-> l])
  /\ UNCHANGED <<trangThai, mst, user, proof, people, decided, uses>>

(* dat_mat_khau_tao, its commit: those of them still good are spent, and   *)
(* the new one is there.                                                   *)
MakeLink(r) ==
  /\ At(r, "make")
  /\ \E l \in Unused :
       /\ link' = [k \in Links |->
                     IF k = l THEN [of |-> req[r].of, state |-> "live"]
                     ELSE IF k \in req[r].found /\ link[k].state = "live"
                     THEN [link[k] EXCEPT !.state = "used"]
                     ELSE link[k]]
       /\ made' = [made EXCEPT ![l] = req[r].found]
       /\ Become(r, [pc |-> "mailLink", of |-> req[r].of, link |-> l])
  /\ UNCHANGED <<trangThai, mst, user, proof, people, decided, uses>>

(* The mail leaves or not, and the administrator is told which. *)
MailLink(r) ==
  /\ At(r, "mailLink")
  /\ Mailed(req[r].of, req[r].link)
  /\ Answer(r)
  /\ UNCHANGED <<rows, session, admin, notes>>

LinkExpires(l) ==
  /\ link[l].state = "live"
  /\ link' = [link EXCEPT ![l].state = "expired"]
  /\ UNCHANGED <<trangThai, mst, user, proof, people, req, notes>>

-----------------------------------------------------------------------------
(* The customer. *)

(* POST /dat-mat-khau: the link is spent and the password set, in one call *)
(* that does not ask for the tenant's state.                               *)
SetPassword(l, p) ==
  /\ l \in inbox
  /\ link[l].state = "live"
  /\ link' = [link EXCEPT ![l].state = "used"]
  /\ hash' = [hash EXCEPT ![link[l].of] = p]
  /\ temp' = [temp EXCEPT ![link[l].of] = "none"]
  /\ uses' = [uses EXCEPT ![l] = @ + 1]
  /\ UNCHANGED <<trangThai, mst, proof, people, req, decided, made>>

TempExpires(t) ==
  /\ temp[t] = "valid"
  /\ temp' = [temp EXCEPT ![t] = "expired"]
  /\ UNCHANGED <<trangThai, mst, hash, proof, link, people, req, notes>>

(* A hash tells its password from the others (verifyPassword). *)
VerifyPassword(p, stored) == stored # NoPassword /\ stored = p

\* Mutant of Login: the gate on the tenant's state is gone.
Login_AnyState(r, t, p) ==
  /\ req[r] = Idle
  /\ trangThai[t] # "none"
  /\ VerifyPassword(p, hash[t])
  /\ Become(r, [pc |-> "temp", of |-> t])
  /\ UNCHANGED <<rows, people, notes>>

(* POST /auth/login: the password and the state in one look ... *)
Login(r, t, p) ==
  /\ req[r] = Idle
  /\ trangThai[t] = "active"
  /\ VerifyPassword(p, hash[t])
  /\ Become(r, [pc |-> "temp", of |-> t])
  /\ UNCHANGED <<rows, people, notes>>

(* ... the age of a temporary password in a second one. *)
LoginEnds(r) ==
  /\ At(r, "temp")
  /\ session' = IF temp[req[r].of] = "expired" THEN session
                ELSE session \cup {req[r].of}
  /\ Answer(r)
  /\ UNCHANGED <<rows, inbox, admin, notes>>

(* The cookie and the token in it end after eight hours, whatever happened *)
(* to the tenant; POST /auth/logout takes the cookie away.                 *)
SessionEnds(t) ==
  /\ t \in session
  /\ session' = session \ {t}
  /\ UNCHANGED <<rows, inbox, admin, req, notes>>

(* POST /auth/doi-mat-khau reads and verifies in one transaction ... *)
ChangePassword(r, t, old, new) ==
  /\ req[r] = Idle
  /\ t \in session
  /\ old # new
  /\ VerifyPassword(old, hash[t])
  /\ temp[t] # "expired"
  /\ Become(r, [pc |-> "write", of |-> t, new |-> new])
  /\ UNCHANGED <<rows, people, notes>>

(* ... and writes in another. *)
WritePassword(r) ==
  /\ At(r, "write")
  /\ hash' = [hash EXCEPT ![req[r].of] = req[r].new]
  /\ temp' = [temp EXCEPT ![req[r].of] = "none"]
  /\ Answer(r)
  /\ UNCHANGED <<trangThai, mst, proof, link, people, notes>>

(* A request dies; a transaction under way is rolled back. *)
Die(r) ==
  /\ req[r] # Idle
  /\ Answer(r)
  /\ UNCHANGED <<rows, people, notes>>

-----------------------------------------------------------------------------
Step(r) ==
  \/ MailProof(r)
  \/ FindLinks(r)
  \/ MakeLink(r)
  \/ MailLink(r)
  \/ LoginEnds(r)
  \/ WritePassword(r)

Next ==
  \/ \E r \in Requests :
       \/ Step(r)
       \/ Die(r)
       \/ \E t \in Tenants :
            \/ Resend(r, t)
            \/ \E m \in Msts : Register(r, t, m)
            \/ \E action \in Actions : Decide(r, t, action)
            \/ \E p \in Passwords : Login(r, t, p)
            \/ \E old, new \in Passwords : ChangePassword(r, t, old, new)
  \/ \E t \in Tenants : \/ ProveEmail(t)
                        \/ ProofExpires(t)
                        \/ TempExpires(t)
                        \/ SessionEnds(t)
  \/ AdminLogin \/ AdminSessionEnds
  \/ \E l \in Links : \/ LinkExpires(l)
                      \/ \E p \in Passwords : SetPassword(l, p)

(* Only requests under way and the clock are sure to go on; nobody is      *)
(* obliged to press a button.                                              *)
Spec == /\ Init /\ [][Next]_vars
        /\ \A r \in Requests : WF_vars(Step(r))
        /\ \A t \in Tenants : WF_vars(SessionEnds(t))

-----------------------------------------------------------------------------
Request ==
  [pc : {"idle"}]
    \cup [pc : {"mailProof", "find", "temp"}, of : Tenants]
    \cup [pc : {"make"}, of : Tenants, found : SUBSET Links]
    \cup [pc : {"mailLink"}, of : Tenants, link : Links]
    \cup [pc : {"write"}, of : Tenants, new : Passwords]

(* Types; and a tax code belongs to one tenant at a time                   *)
(* (tenants_mst_unique: registration answers 409).                         *)
TypeOK ==
  /\ trangThai \in [Tenants -> States \cup {"none"}]
  /\ mst \in [Tenants -> Msts]
  /\ hash \in [Tenants -> Passwords \cup {NoPassword}]
  /\ temp \in [Tenants -> {"none", "valid", "expired"}]
  /\ proof \in [Tenants -> Tokens]
  /\ link \in [Links -> [of : Tenants, state : Tokens]]
  /\ inbox \subseteq Tenants \cup Links
  /\ session \subseteq Tenants
  /\ admin \in BOOLEAN
  /\ req \in [Requests -> Request]
  /\ \A t, u \in Tenants :
       trangThai[t] # "none" /\ trangThai[u] # "none" /\ mst[t] = mst[u]
         => t = u

(* Two administrators never both hear 'ok' to an approval, or to an        *)
(* approval and a refusal, of the same tenant, so no customer gets his     *)
(* link after a refusal (tenantStateMachine.ts:72).                        *)
DecisionsAgree == \A t \in Tenants : decided[t][1] + decided[t][2] <= 1

(* Nobody is decided about, still less let in, before the address is       *)
(* proven, whatever the order of mails, decisions and locks; a tenant of   *)
(* old has no proof to give (tenantStateMachine.ts:35).                    *)
OnlyProvenAreDecided ==
  \A t \in Tenants :
    trangThai[t] \notin {"none", "cho_xac_thuc_email"}
      => proof[t] \in {"none", "used"}

(* When a link has been made, no link that was already there when its      *)
(* making began still opens the door (dat_mat_khau_tao).                   *)
OldLinksAreDead ==
  \A l \in Links : \A k \in made[l] : link[k].state # "live"

(* One link sets one password, however often it is submitted               *)
(* (dat_mat_khau_dung, FOR UPDATE).                                        *)
LinksSetOnce == \A l \in Links : uses[l] <= 1

(* A locked tenant is out in the end: its sessions run out and no new one  *)
(* begins, unless the lock is lifted (auth.ts:185, TOKEN_TTL_SEC).         *)
LockedOut ==
  \A t \in Tenants : <>[](trangThai[t] = "khoa") => <>[](t \notin session)

(* The tenants are well-formed, and decided about once, after the proof    *)
(* (tenantStateMachine.ts).                                                *)
DecisionsInv == TypeOK /\ DecisionsAgree /\ OnlyProvenAreDecided

(* A link opens the door once, and no more when a later one has been made  *)
(* (dat_mat_khau_tao, dat_mat_khau_dung).                                  *)
LinksAreSingleUse == OldLinksAreDead /\ LinksSetOnce
=============================================================================
