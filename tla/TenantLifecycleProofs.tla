------------------------ MODULE TenantLifecycleProofs ------------------------
(***************************************************************************)
(* TenantLifecycle decides once about a tenant, after the proof of its     *)
(* address, gives a tax code to one tenant, and its links open the door    *)
(* once - for every number of tenants, administrators' requests, links and *)
(* passwords.                                                              *)
(*                                                                         *)
(* The four parts of the invariant are independent of each other but for   *)
(* the types: each has a lemma that every step keeps it.                   *)
(***************************************************************************)
EXTENDS TenantLifecycle, FiniteSetTheorems, TLAPS

BookkeepingOK ==
  /\ decided \in [Tenants -> Nat \X Nat]
  /\ uses \in [Links -> Nat]
  /\ made \in [Links -> SUBSET Links]

\* No decision is counted for a tenant that still waits for one, and a tenant
\* that was approved or refused never waits again.
DecidedOnce ==
  \A t \in Tenants :
    /\ decided[t][1] + decided[t][2] <= 1
    /\ trangThai[t] \in {"none", "cho_xac_thuc_email", "cho_duyet"}
         => decided[t][1] + decided[t][2] = 0

\* Which links are spent: those a completed link found, and those that set a
\* password; and a request that makes a link found none that is not there.
LinksSpent ==
  /\ \A l \in Links : uses[l] <= 1
  /\ \A l \in Links : link[l].state \in {"none", "live"} => uses[l] = 0
  /\ \A l \in Links : \A k \in made[l] : link[k].state \notin {"none", "live"}
  /\ \A r \in Requests : \A k \in Links :
       req[r].pc = "make" /\ k \in req[r].found => link[k].state # "none"

IInv == TypeOK /\ BookkeepingOK /\ DecidedOnce /\ OnlyProvenAreDecided /\ LinksSpent

-----------------------------------------------------------------------------
(***************************************************************************)
(* Requests                                                                *)
(***************************************************************************)
\* What a request carries at each of its calls.
LEMMA RequestFields ==
    ASSUME NEW v \in Request
    PROVE  /\ v.pc # "idle" => v.of \in Tenants
           /\ v.pc = "make" => v.found \in SUBSET Links
           /\ v.pc = "mailLink" => v.link \in Links
           /\ v.pc = "write" => v.new \in Passwords
BY DEF Request

\* What a request may become.
LEMMA RequestForms ==
    /\ Idle \in Request /\ Idle.pc = "idle"
    /\ \A t \in Tenants, pc \in {"mailProof", "find", "temp"} :
         [pc |-> pc, of |-> t] \in Request
    /\ \A t \in Tenants, F \in SUBSET Links :
         [pc |-> "make", of |-> t, found |-> F] \in Request
    /\ \A t \in Tenants, l \in Links :
         [pc |-> "mailLink", of |-> t, link |-> l] \in Request
    /\ \A t \in Tenants, p \in Passwords :
         [pc |-> "write", of |-> t, new |-> p] \in Request
BY DEF Request, Idle

\* A request that becomes v leaves the other requests alone.
LEMMA BecomeFacts ==
    ASSUME NEW r \in Requests, NEW v \in Request, Become(r, v),
           req \in [Requests -> Request]
    PROVE  /\ req' \in [Requests -> Request]
           /\ \A k \in Requests : req'[k] = IF k = r THEN v ELSE req[k]
BY DEF Become

\* A mail reaches one inbox or none.
LEMMA MailedFacts ==
    ASSUME NEW t, NEW item, Mailed(t, item)
    PROVE  inbox' = inbox \/ inbox' = inbox \cup {item}
BY DEF Mailed

\* Tu and Den, action by action (CHUYEN_HOP_LE).
LEMMA DecisionFacts ==
    /\ Tu("duyet") = "cho_duyet" /\ Den("duyet") = "active"
    /\ Tu("tu_choi") = "cho_duyet" /\ Den("tu_choi") = "tu_choi"
    /\ Tu("khoa") = "active" /\ Den("khoa") = "khoa"
    /\ Tu("mo_khoa") = "khoa" /\ Den("mo_khoa") = "active"
BY DEF Tu, Den

-----------------------------------------------------------------------------
(***************************************************************************)
(* Types, and one tenant per tax code                                      *)
(***************************************************************************)
LEMMA TypeInit == Init => TypeOK /\ BookkeepingOK
<1> SUFFICES ASSUME Init
             PROVE  TypeOK /\ BookkeepingOK
  OBVIOUS
<1>1. PICK old \in SUBSET Tenants :
        /\ Cardinality(old) <= 1
        /\ trangThai = [t \in Tenants |-> IF t \in old THEN "active" ELSE "none"]
        /\ \E m \in Msts : mst = [t \in Tenants |-> m]
        /\ hash \in [Tenants -> Passwords \cup {NoPassword}]
        /\ temp = [t \in Tenants |-> IF t \in old THEN "valid" ELSE "none"]
  BY DEF Init
<1>2. \A t, u \in old : t = u
  <2> SUFFICES ASSUME NEW t \in old, NEW u \in old, t # u
               PROVE  FALSE
    OBVIOUS
  <2>1. IsFiniteSet({t}) /\ Cardinality({t}) = 1
    BY FS_Singleton
  <2>2. IsFiniteSet({t} \cup {u}) /\ Cardinality({t} \cup {u}) = 2
    <3>1. u \notin {t}
      OBVIOUS
    <3>2. /\ IsFiniteSet({t} \cup {u})
          /\ Cardinality({t} \cup {u}) = IF u \in {t} THEN Cardinality({t})
                                         ELSE Cardinality({t}) + 1
      BY <2>1, FS_AddElement
    <3> QED BY <2>1, <3>1, <3>2
  <2>3. IsFiniteSet(old)
    BY TenantsAssumption, FS_Subset
  <2>4. {t} \cup {u} \in SUBSET old
    OBVIOUS
  <2>5. Cardinality(old) \in Nat /\ 2 <= Cardinality(old)
    BY <2>2, <2>3, <2>4, FS_Subset, FS_CardinalityType
  <2> QED BY <1>1, <2>5
<1>3. (CHOOSE t \in Tenants : TRUE) \in Tenants
  BY TenantsAssumption
<1>4. link \in [Links -> [of : Tenants, state : Tokens]]
  BY <1>3 DEF Init, Tokens
<1>5. req \in [Requests -> Request]
  BY RequestForms DEF Init
<1>6. trangThai \in [Tenants -> States \cup {"none"}] /\ mst \in [Tenants -> Msts]
  BY <1>1 DEF States
<1>7. \A t, u \in Tenants :
        trangThai[t] # "none" /\ trangThai[u] # "none" /\ mst[t] = mst[u] => t = u
  BY <1>1, <1>2
<1>8. temp \in [Tenants -> {"none", "valid", "expired"}]
  BY <1>1
<1>9. /\ proof \in [Tenants -> Tokens] /\ inbox = {} /\ session = {} /\ admin = FALSE
      /\ BookkeepingOK
  BY DEF Init, Tokens, BookkeepingOK
<1> QED BY <1>1, <1>4, <1>5, <1>6, <1>7, <1>8, <1>9 DEF TypeOK

\* Requests that die or begin or go on, with a new form that is a request.
LEMMA TypeStep == TypeOK /\ BookkeepingOK /\ [Next]_vars => TypeOK' /\ BookkeepingOK'
<1> SUFFICES ASSUME TypeOK, BookkeepingOK, [Next]_vars
             PROVE  TypeOK' /\ BookkeepingOK'
  OBVIOUS
<1> USE DEF rows, people, notes, user
<1>a. ASSUME NEW r \in Requests, NEW v \in Request, Become(r, v)
      PROVE  req' \in [Requests -> Request]
  BY <1>a, BecomeFacts DEF TypeOK
<1>b. Idle \in Request
  BY RequestForms
<1>c. \A r \in Requests :
        /\ req[r].pc # "idle" => req[r].of \in Tenants
        /\ req[r].pc = "make" => req[r].found \in SUBSET Links
        /\ req[r].pc = "mailLink" => req[r].link \in Links
        /\ req[r].pc = "write" => req[r].new \in Passwords
  BY RequestFields DEF TypeOK
<1>1. ASSUME NEW r \in Requests, NEW t \in Tenants, NEW m \in Msts, Register(r, t, m)
      PROVE  TypeOK' /\ BookkeepingOK'
  <2>1. req' \in [Requests -> Request]
    BY <1>1, <1>a, RequestForms DEF Register
  <2>2. \A u, w \in Tenants :
          trangThai'[u] # "none" /\ trangThai'[w] # "none" /\ mst'[u] = mst'[w] => u = w
    BY <1>1 DEF Register, Free, TypeOK
  <2>3. /\ trangThai' \in [Tenants -> States \cup {"none"}]
        /\ mst' \in [Tenants -> Msts] /\ proof' \in [Tenants -> Tokens]
    BY <1>1 DEF Register, TypeOK, States, Tokens
  <2> QED BY <1>1, <2>1, <2>2, <2>3 DEF Register, TypeOK, BookkeepingOK
<1>2. ASSUME NEW r \in Requests, MailProof(r)
      PROVE  TypeOK' /\ BookkeepingOK'
  <2>1. inbox' \subseteq Tenants \cup Links
    BY <1>2, <1>c, MailedFacts DEF MailProof, At, TypeOK
  <2> QED BY <1>2, <1>a, <1>b, <2>1 DEF MailProof, Answer, TypeOK, BookkeepingOK
<1>3. ASSUME NEW t \in Tenants, ProveEmail(t)
      PROVE  TypeOK' /\ BookkeepingOK'
  <2>1. /\ proof' \in [Tenants -> Tokens]
        /\ trangThai' \in [Tenants -> States \cup {"none"}]
        /\ \A u \in Tenants : trangThai'[u] # "none" => trangThai[u] # "none"
    BY <1>3 DEF ProveEmail, TypeOK, Tokens, States
  <2> QED BY <1>3, <2>1 DEF ProveEmail, TypeOK, BookkeepingOK
<1>4. ASSUME NEW t \in Tenants, ProofExpires(t)
      PROVE  TypeOK' /\ BookkeepingOK'
  <2>1. proof' \in [Tenants -> Tokens]
    BY <1>4 DEF ProofExpires, TypeOK, Tokens
  <2> QED BY <1>4, <2>1 DEF ProofExpires, TypeOK, BookkeepingOK
<1>5. CASE AdminLogin
  BY <1>5 DEF AdminLogin, TypeOK, BookkeepingOK
<1>6. CASE AdminSessionEnds
  BY <1>6 DEF AdminSessionEnds, TypeOK, BookkeepingOK
<1>7. ASSUME NEW r \in Requests, NEW t \in Tenants, NEW action \in Actions,
             Decide(r, t, action)
      PROVE  TypeOK' /\ BookkeepingOK'
  <2>1. req' \in [Requests -> Request]
    BY <1>7, <1>a, <1>b, RequestForms DEF Decide, Answer
  <2>2. /\ trangThai' \in [Tenants -> States \cup {"none"}]
        /\ \A u \in Tenants : trangThai'[u] # "none" => trangThai[u] # "none"
    BY <1>7, DecisionFacts DEF Decide, TypeOK, States, Actions
  <2>3. decided' \in [Tenants -> Nat \X Nat]
    BY <1>7 DEF Decide, BookkeepingOK
  <2> QED BY <1>7, <2>1, <2>2, <2>3 DEF Decide, TypeOK, BookkeepingOK
<1>8. ASSUME NEW r \in Requests, NEW t \in Tenants, Resend(r, t)
      PROVE  TypeOK' /\ BookkeepingOK'
  BY <1>8, <1>a, RequestForms DEF Resend, TypeOK, BookkeepingOK
<1>9. ASSUME NEW r \in Requests, FindLinks(r)
      PROVE  TypeOK' /\ BookkeepingOK'
  <2>1. [pc |-> "make", of |-> req[r].of, found |-> LiveLinks(req[r].of)] \in Request
    BY <1>9, <1>c, RequestForms DEF FindLinks, At, LiveLinks
  <2> QED BY <1>9, <1>a, <2>1 DEF FindLinks, TypeOK, BookkeepingOK
<1>10. ASSUME NEW r \in Requests, MakeLink(r)
       PROVE  TypeOK' /\ BookkeepingOK'
  <2>1. PICK l \in Unused :
          /\ link' = [k \in Links |->
                        IF k = l THEN [of |-> req[r].of, state |-> "live"]
                        ELSE IF k \in req[r].found /\ link[k].state = "live"
                        THEN [link[k] EXCEPT !.state = "used"]
                        ELSE link[k]]
          /\ made' = [made EXCEPT ![l] = req[r].found]
          /\ Become(r, [pc |-> "mailLink", of |-> req[r].of, link |-> l])
    BY <1>10 DEF MakeLink
  <2>2. l \in Links /\ req[r].of \in Tenants /\ req[r].found \in SUBSET Links
    BY <1>10, <1>c, <2>1 DEF MakeLink, At, Unused
  <2>3. req' \in [Requests -> Request]
    BY <1>a, <2>1, <2>2, RequestForms
  <2>4. link' \in [Links -> [of : Tenants, state : Tokens]]
    <3>1. \A k \in Links : link[k] \in [of : Tenants, state : Tokens]
      BY DEF TypeOK
    <3>2. [of |-> req[r].of, state |-> "live"] \in [of : Tenants, state : Tokens]
      BY <2>2 DEF Tokens
    <3>3. \A k \in Links : [link[k] EXCEPT !.state = "used"] \in [of : Tenants, state : Tokens]
      BY <3>1 DEF Tokens
    <3> QED BY <2>1, <3>1, <3>2, <3>3
  <2>5. made' \in [Links -> SUBSET Links]
    BY <2>1, <2>2 DEF BookkeepingOK
  <2> QED BY <1>10, <2>3, <2>4, <2>5 DEF MakeLink, TypeOK, BookkeepingOK
<1>11. ASSUME NEW r \in Requests, MailLink(r)
       PROVE  TypeOK' /\ BookkeepingOK'
  <2>1. inbox' \subseteq Tenants \cup Links
    BY <1>11, <1>c, MailedFacts DEF MailLink, At, TypeOK
  <2> QED BY <1>11, <1>a, <1>b, <2>1 DEF MailLink, Answer, TypeOK, BookkeepingOK
<1>12. ASSUME NEW l \in Links, LinkExpires(l)
       PROVE  TypeOK' /\ BookkeepingOK'
  <2>1. link' \in [Links -> [of : Tenants, state : Tokens]]
    BY <1>12 DEF LinkExpires, TypeOK, Tokens
  <2> QED BY <1>12, <2>1 DEF LinkExpires, TypeOK, BookkeepingOK
<1>13. ASSUME NEW l \in Links, NEW p \in Passwords, SetPassword(l, p)
       PROVE  TypeOK' /\ BookkeepingOK'
  <2>1. /\ link' \in [Links -> [of : Tenants, state : Tokens]]
        /\ link[l].of \in Tenants
    BY <1>13 DEF SetPassword, TypeOK, Tokens
  <2>2. /\ hash' \in [Tenants -> Passwords \cup {NoPassword}]
        /\ temp' \in [Tenants -> {"none", "valid", "expired"}]
    BY <1>13, <2>1 DEF SetPassword, TypeOK
  <2>3. uses' \in [Links -> Nat]
    BY <1>13 DEF SetPassword, BookkeepingOK
  <2> QED BY <1>13, <2>1, <2>2, <2>3 DEF SetPassword, TypeOK, BookkeepingOK
<1>14. ASSUME NEW t \in Tenants, TempExpires(t)
       PROVE  TypeOK' /\ BookkeepingOK'
  BY <1>14 DEF TempExpires, TypeOK, BookkeepingOK
<1>15. ASSUME NEW r \in Requests, NEW t \in Tenants, NEW p \in Passwords, Login(r, t, p)
       PROVE  TypeOK' /\ BookkeepingOK'
  BY <1>15, <1>a, RequestForms DEF Login, TypeOK, BookkeepingOK
<1>16. ASSUME NEW r \in Requests, LoginEnds(r)
       PROVE  TypeOK' /\ BookkeepingOK'
  BY <1>16, <1>a, <1>b, <1>c DEF LoginEnds, At, Answer, TypeOK, BookkeepingOK
<1>17. ASSUME NEW t \in Tenants, SessionEnds(t)
       PROVE  TypeOK' /\ BookkeepingOK'
  BY <1>17 DEF SessionEnds, TypeOK, BookkeepingOK
<1>18. ASSUME NEW r \in Requests, NEW t \in Tenants, NEW old \in Passwords,
              NEW new \in Passwords, ChangePassword(r, t, old, new)
       PROVE  TypeOK' /\ BookkeepingOK'
  BY <1>18, <1>a, RequestForms DEF ChangePassword, TypeOK, BookkeepingOK
<1>19. ASSUME NEW r \in Requests, WritePassword(r)
       PROVE  TypeOK' /\ BookkeepingOK'
  <2>1. /\ hash' \in [Tenants -> Passwords \cup {NoPassword}]
        /\ temp' \in [Tenants -> {"none", "valid", "expired"}]
    BY <1>19, <1>c DEF WritePassword, At, TypeOK
  <2> QED BY <1>19, <1>a, <1>b, <2>1 DEF WritePassword, Answer, TypeOK, BookkeepingOK
<1>20. ASSUME NEW r \in Requests, Die(r)
       PROVE  TypeOK' /\ BookkeepingOK'
  BY <1>20, <1>a, <1>b DEF Die, Answer, TypeOK, BookkeepingOK
<1>21. CASE UNCHANGED vars
  BY <1>21 DEF vars, TypeOK, BookkeepingOK
<1> QED
  BY <1>1, <1>2, <1>3, <1>4, <1>5, <1>6, <1>7, <1>8, <1>9, <1>10, <1>11, <1>12,
     <1>13, <1>14, <1>15, <1>16, <1>17, <1>18, <1>19, <1>20, <1>21 DEF Next, Step

-----------------------------------------------------------------------------
(***************************************************************************)
(* Decisions and proofs                                                    *)
(***************************************************************************)
\* The three steps that move a tenant or count a decision; all others leave
\* both alone.
LEMMA TenantMoves ==
    ASSUME [Next]_vars
    PROVE  \/ UNCHANGED <<trangThai, proof, decided>>
           \/ \E r \in Requests, t \in Tenants, m \in Msts : Register(r, t, m)
           \/ \E t \in Tenants : ProveEmail(t) \/ ProofExpires(t)
           \/ \E r \in Requests, t \in Tenants, action \in Actions : Decide(r, t, action)
<1> DEFINE Kept == UNCHANGED <<trangThai, proof, decided>>
<1> USE DEF rows, people, notes, user
<1>1. ASSUME NEW r \in Requests, Step(r) \/ Die(r)
      PROVE  Kept
  BY <1>1 DEF Step, Die, MailProof, FindLinks, MakeLink, MailLink, LoginEnds, WritePassword
<1>2. ASSUME NEW r \in Requests, NEW t \in Tenants, Resend(r, t)
      PROVE  Kept
  BY <1>2 DEF Resend
<1>3. ASSUME NEW r \in Requests, NEW t \in Tenants, NEW p \in Passwords, Login(r, t, p)
      PROVE  Kept
  BY <1>3 DEF Login
<1>4. ASSUME NEW r \in Requests, NEW t \in Tenants, NEW old \in Passwords,
             NEW new \in Passwords, ChangePassword(r, t, old, new)
      PROVE  Kept
  BY <1>4 DEF ChangePassword
<1>5. ASSUME NEW t \in Tenants, TempExpires(t) \/ SessionEnds(t)
      PROVE  Kept
  BY <1>5 DEF TempExpires, SessionEnds
<1>6. ASSUME NEW l \in Links, LinkExpires(l)
      PROVE  Kept
  BY <1>6 DEF LinkExpires
<1>7. ASSUME NEW l \in Links, NEW p \in Passwords, SetPassword(l, p)
      PROVE  Kept
  BY <1>7 DEF SetPassword
<1>8. ASSUME AdminLogin \/ AdminSessionEnds
      PROVE  Kept
  BY <1>8 DEF AdminLogin, AdminSessionEnds
<1>9. ASSUME UNCHANGED vars
      PROVE  Kept
  BY <1>9 DEF vars
<1> HIDE DEF Kept
<1>10. \/ Kept
       \/ \E r \in Requests, t \in Tenants, m \in Msts : Register(r, t, m)
       \/ \E t \in Tenants : ProveEmail(t) \/ ProofExpires(t)
       \/ \E r \in Requests, t \in Tenants, action \in Actions : Decide(r, t, action)
  BY <1>1, <1>2, <1>3, <1>4, <1>5, <1>6, <1>7, <1>8, <1>9 DEF Next
<1> QED BY <1>10 DEF Kept

LEMMA DecidedInit == Init => DecidedOnce /\ OnlyProvenAreDecided
BY DEF Init, DecidedOnce, OnlyProvenAreDecided

LEMMA DecidedStep ==
    TypeOK /\ BookkeepingOK /\ DecidedOnce /\ OnlyProvenAreDecided /\ [Next]_vars
      => DecidedOnce' /\ OnlyProvenAreDecided'
<1> SUFFICES ASSUME TypeOK, BookkeepingOK, DecidedOnce, OnlyProvenAreDecided, [Next]_vars
             PROVE  DecidedOnce' /\ OnlyProvenAreDecided'
  OBVIOUS
<1>1. CASE UNCHANGED <<trangThai, proof, decided>>
  BY <1>1 DEF DecidedOnce, OnlyProvenAreDecided
<1>2. ASSUME NEW r \in Requests, NEW t \in Tenants, NEW m \in Msts, Register(r, t, m)
      PROVE  DecidedOnce' /\ OnlyProvenAreDecided'
  BY <1>2 DEF Register, notes, TypeOK, BookkeepingOK, DecidedOnce, OnlyProvenAreDecided
<1>3. ASSUME NEW t \in Tenants, ProveEmail(t)
      PROVE  DecidedOnce' /\ OnlyProvenAreDecided'
  BY <1>3 DEF ProveEmail, notes, TypeOK, BookkeepingOK, DecidedOnce, OnlyProvenAreDecided
<1>4. ASSUME NEW t \in Tenants, ProofExpires(t)
      PROVE  DecidedOnce' /\ OnlyProvenAreDecided'
  BY <1>4 DEF ProofExpires, notes, TypeOK, BookkeepingOK, DecidedOnce, OnlyProvenAreDecided
<1>5. ASSUME NEW r \in Requests, NEW t \in Tenants, NEW action \in Actions,
             Decide(r, t, action)
      PROVE  DecidedOnce' /\ OnlyProvenAreDecided'
  <2>1. /\ trangThai[t] = Tu(action)
        /\ trangThai' = [trangThai EXCEPT ![t] = Den(action)]
        /\ proof' = proof
    BY <1>5 DEF Decide
  <2>2. OnlyProvenAreDecided'
    BY <2>1, DecisionFacts DEF Actions, TypeOK, OnlyProvenAreDecided
  <2>3. \A u \in Tenants : u # t => decided'[u] = decided[u] /\ trangThai'[u] = trangThai[u]
    BY <1>5, <2>1 DEF Decide, BookkeepingOK, TypeOK
  <2>4. decided'[t] = << decided[t][1] + (IF action = "duyet" THEN 1 ELSE 0),
                         decided[t][2] + (IF action = "tu_choi" THEN 1 ELSE 0) >>
    BY <1>5 DEF Decide, BookkeepingOK
  <2>5. decided[t][1] \in Nat /\ decided[t][2] \in Nat
    BY DEF BookkeepingOK
  <2>6. trangThai'[t] \notin {"none", "cho_xac_thuc_email", "cho_duyet"}
    BY <2>1, DecisionFacts DEF Actions, TypeOK
  <2>7. decided'[t][1] + decided'[t][2] <= 1
    <3>1. CASE action \in {"duyet", "tu_choi"}
      BY <2>1, <2>4, <2>5, <3>1, DecisionFacts DEF DecidedOnce
    <3>2. CASE action \in {"khoa", "mo_khoa"}
      BY <2>4, <2>5, <3>2 DEF DecidedOnce
    <3> QED BY <3>1, <3>2 DEF Actions
  <2>8. DecidedOnce'
    BY <2>3, <2>6, <2>7 DEF DecidedOnce
  <2> QED BY <2>2, <2>8
<1> QED BY <1>1, <1>2, <1>3, <1>4, <1>5, TenantMoves

-----------------------------------------------------------------------------
(***************************************************************************)
(* Links                                                                   *)
(***************************************************************************)
\* The steps that touch a link, or the finding of the links a new one replaces.
LEMMA LinkMoves ==
    ASSUME TypeOK, [Next]_vars
    PROVE  \/ /\ UNCHANGED <<link, uses, made>>
              /\ \A r \in Requests :
                   req'[r].pc = "make" => req[r] = req'[r]
           \/ \E r \in Requests : FindLinks(r) \/ MakeLink(r)
           \/ \E l \in Links : LinkExpires(l)
           \/ \E l \in Links, p \in Passwords : SetPassword(l, p)
<1> DEFINE Kept == /\ UNCHANGED <<link, uses, made>>
                   /\ \A r \in Requests : req'[r].pc = "make" => req[r] = req'[r]
<1> USE DEF rows, people, notes, user
<1>a. ASSUME NEW r \in Requests, NEW v \in Request, v.pc # "make",
             Become(r, v), UNCHANGED <<link, uses, made>>
      PROVE  Kept
  BY <1>a, BecomeFacts DEF TypeOK
<1>b. Idle \in Request /\ Idle.pc # "make"
  BY RequestForms
<1>c. \A t \in Tenants, pc \in {"mailProof", "find", "temp"} :
        [pc |-> pc, of |-> t] \in Request /\ [pc |-> pc, of |-> t].pc # "make"
  BY RequestForms
<1>d. \A r \in Requests : req[r].pc # "idle" => req[r].of \in Tenants
  BY RequestFields DEF TypeOK
<1>1. ASSUME NEW r \in Requests, NEW t \in Tenants, NEW m \in Msts, Register(r, t, m)
      PROVE  Kept
  BY <1>1, <1>a, <1>c DEF Register
<1>2. ASSUME NEW r \in Requests,
             MailProof(r) \/ MailLink(r) \/ LoginEnds(r) \/ WritePassword(r) \/ Die(r)
      PROVE  Kept
  BY <1>2, <1>a, <1>b DEF MailProof, MailLink, LoginEnds, WritePassword, Die, Answer
<1>3. ASSUME NEW r \in Requests, NEW t \in Tenants, NEW action \in Actions,
             Decide(r, t, action)
      PROVE  Kept
  BY <1>3, <1>a, <1>b, <1>c DEF Decide, Answer
<1>4. ASSUME NEW r \in Requests, NEW t \in Tenants, Resend(r, t)
      PROVE  Kept
  BY <1>4, <1>a, <1>c DEF Resend
<1>5. ASSUME NEW r \in Requests, NEW t \in Tenants, NEW p \in Passwords, Login(r, t, p)
      PROVE  Kept
  BY <1>5, <1>a, <1>c DEF Login
<1>6. ASSUME NEW r \in Requests, NEW t \in Tenants, NEW old \in Passwords,
             NEW new \in Passwords, ChangePassword(r, t, old, new)
      PROVE  Kept
  <2>1. [pc |-> "write", of |-> t, new |-> new] \in Request
    BY RequestForms
  <2> QED BY <1>6, <1>a, <2>1 DEF ChangePassword
<1>7. ASSUME NEW t \in Tenants,
             ProveEmail(t) \/ ProofExpires(t) \/ TempExpires(t) \/ SessionEnds(t)
      PROVE  Kept
  BY <1>7 DEF ProveEmail, ProofExpires, TempExpires, SessionEnds
<1>8. ASSUME AdminLogin \/ AdminSessionEnds
      PROVE  Kept
  BY <1>8 DEF AdminLogin, AdminSessionEnds
<1>9. ASSUME UNCHANGED vars
      PROVE  Kept
  BY <1>9 DEF vars
<1> HIDE DEF Kept
<1>10. \/ Kept
       \/ \E r \in Requests : FindLinks(r) \/ MakeLink(r)
       \/ \E l \in Links : LinkExpires(l)
       \/ \E l \in Links, p \in Passwords : SetPassword(l, p)
  BY <1>1, <1>2, <1>3, <1>4, <1>5, <1>6, <1>7, <1>8, <1>9 DEF Next, Step
<1> QED BY <1>10 DEF Kept

LEMMA LinksInit == Init => LinksSpent
<1> SUFFICES ASSUME Init
             PROVE  LinksSpent
  OBVIOUS
<1>1. \A r \in Requests : req[r].pc = "idle"
  BY DEF Init, Idle
<1>2. \A l \in Links : uses[l] = 0 /\ made[l] = {}
  BY DEF Init
<1> QED BY <1>1, <1>2 DEF LinksSpent

LEMMA LinksStep ==
    TypeOK /\ BookkeepingOK /\ LinksSpent /\ [Next]_vars => LinksSpent'
<1> SUFFICES ASSUME TypeOK, BookkeepingOK, LinksSpent, [Next]_vars
             PROVE  LinksSpent'
  OBVIOUS
<1>1. CASE /\ UNCHANGED <<link, uses, made>>
           /\ \A r \in Requests : req'[r].pc = "make" => req[r] = req'[r]
  BY <1>1 DEF LinksSpent
\* The links found were good then, so they are there.
<1>2. ASSUME NEW r \in Requests, FindLinks(r)
      PROVE  LinksSpent'
  <2>1. req[r].of \in Tenants
    BY <1>2, RequestFields DEF FindLinks, At, TypeOK
  <2>2. LiveLinks(req[r].of) \in SUBSET Links
    BY DEF LiveLinks
  <2>3. \A k \in LiveLinks(req[r].of) : link[k].state = "live"
    BY DEF LiveLinks
  <2> DEFINE v == [pc |-> "make", of |-> req[r].of, found |-> LiveLinks(req[r].of)]
  <2>4. v \in Request /\ v.found = LiveLinks(req[r].of)
    BY <2>1, <2>2, RequestForms
  <2>5. Become(r, v) /\ UNCHANGED <<link, uses, made>>
    BY <1>2 DEF FindLinks, rows, notes
  <2> HIDE DEF v
  <2>6. \A q \in Requests : req'[q] = IF q = r THEN v ELSE req[q]
    BY <2>4, <2>5, BecomeFacts DEF TypeOK
  <2> QED BY <2>3, <2>4, <2>5, <2>6 DEF LinksSpent
\* The new link was nobody's finding before, and what was found is spent.
<1>3. ASSUME NEW r \in Requests, MakeLink(r)
      PROVE  LinksSpent'
  <2>1. PICK l \in Unused :
          /\ link' = [k \in Links |->
                        IF k = l THEN [of |-> req[r].of, state |-> "live"]
                        ELSE IF k \in req[r].found /\ link[k].state = "live"
                        THEN [link[k] EXCEPT !.state = "used"]
                        ELSE link[k]]
          /\ made' = [made EXCEPT ![l] = req[r].found]
          /\ Become(r, [pc |-> "mailLink", of |-> req[r].of, link |-> l])
    BY <1>3 DEF MakeLink
  <2>2. /\ l \in Links /\ link[l].state = "none" /\ req[r].of \in Tenants
        /\ req[r].pc = "make" /\ req[r].found \in SUBSET Links /\ uses' = uses
    BY <1>3, <2>1, RequestFields DEF MakeLink, At, Unused, TypeOK
  <2>3. \A k \in Links :
          link'[k].state = IF k = l THEN "live"
                           ELSE IF k \in req[r].found /\ link[k].state = "live"
                           THEN "used" ELSE link[k].state
    BY <2>1, <2>2 DEF TypeOK
  <2>4. \A k \in Links : k # l /\ link[k].state \notin {"none", "live"}
          => link'[k].state \notin {"none", "live"}
    BY <2>3
  <2>5. \A j \in Links : \A k \in made'[j] : link'[k].state \notin {"none", "live"}
    <3> SUFFICES ASSUME NEW j \in Links, NEW k \in made'[j]
                 PROVE  link'[k].state \notin {"none", "live"}
      OBVIOUS
    <3>1. CASE j = l
      <4>1. k \in req[r].found /\ k \in Links
        BY <2>1, <2>2, <3>1 DEF BookkeepingOK
      <4>2. link[k].state # "none"
        BY <2>2, <4>1 DEF LinksSpent
      <4> QED BY <2>2, <2>3, <4>1, <4>2
    <3>2. CASE j # l
      <4>1. k \in made[j] /\ k \in Links
        BY <2>1, <3>2 DEF BookkeepingOK
      <4>2. link[k].state \notin {"none", "live"}
        BY <4>1 DEF LinksSpent
      <4> QED BY <2>2, <2>4, <4>1, <4>2
    <3> QED BY <3>1, <3>2
  <2>6. \A k \in Links : link'[k].state \in {"none", "live"} => uses'[k] = 0
    BY <2>2, <2>3 DEF LinksSpent
  <2>7. \A q \in Requests : req'[q] = IF q = r
          THEN [pc |-> "mailLink", of |-> req[r].of, link |-> l] ELSE req[q]
    BY <2>1, <2>2, BecomeFacts, RequestForms DEF TypeOK
  <2>8. \A q \in Requests : \A k \in Links :
          req'[q].pc = "make" /\ k \in req'[q].found => link'[k].state # "none"
    <3>1. \A q \in Requests : req'[q].pc = "make" => req'[q] = req[q]
      BY <2>7
    <3> QED BY <2>3, <3>1 DEF LinksSpent
  <2> QED BY <2>2, <2>5, <2>6, <2>8 DEF LinksSpent
<1>4. ASSUME NEW l \in Links, LinkExpires(l)
      PROVE  LinksSpent'
  <2>1. \A k \in Links : link'[k].state = IF k = l THEN "expired" ELSE link[k].state
    BY <1>4 DEF LinkExpires, TypeOK
  <2>2. UNCHANGED <<uses, made, req>>
    BY <1>4 DEF LinkExpires, notes
  <2>3. \A j \in Links : made[j] \in SUBSET Links
    BY DEF BookkeepingOK
  <2> QED BY <2>1, <2>2, <2>3 DEF LinksSpent
\* A good link has set no password yet.
<1>5. ASSUME NEW l \in Links, NEW p \in Passwords, SetPassword(l, p)
      PROVE  LinksSpent'
  <2>1. \A k \in Links : link'[k].state = IF k = l THEN "used" ELSE link[k].state
    BY <1>5 DEF SetPassword, TypeOK
  <2>2. UNCHANGED <<made, req>> /\ link[l].state = "live"
    BY <1>5 DEF SetPassword
  <2>3. \A j \in Links : made[j] \in SUBSET Links
    BY DEF BookkeepingOK
  <2>4. \A k \in Links : uses'[k] = IF k = l THEN uses[l] + 1 ELSE uses[k]
    BY <1>5 DEF SetPassword, BookkeepingOK
  <2>5. uses[l] = 0
    BY <2>2 DEF LinksSpent
  <2> QED BY <2>1, <2>2, <2>3, <2>4, <2>5 DEF LinksSpent
<1> QED BY <1>1, <1>2, <1>3, <1>4, <1>5, LinkMoves

-----------------------------------------------------------------------------
(***************************************************************************)
(* The specification                                                       *)
(***************************************************************************)
LEMMA InvariantHolds == Spec => []IInv
<1>1. Init => IInv
  BY TypeInit, DecidedInit, LinksInit DEF IInv
<1>2. IInv /\ [Next]_vars => IInv'
  BY TypeStep, DecidedStep, LinksStep DEF IInv
<1> QED BY <1>1, <1>2, PTL DEF Spec

\* A business is decided about at most once, and only when its address is
\* proven; its tax code is its own (tenantStateMachine.ts, tenants_mst_unique).
THEOREM TenantsAreDecidedOnce == Spec => []DecisionsInv
<1>1. IInv => DecisionsInv
  BY DEF IInv, DecidedOnce, DecisionsInv, DecisionsAgree
<1> QED BY <1>1, InvariantHolds, PTL

\* A link sets one password, and none once a later link has been made; a
\* request may die and a mail be lost anywhere (dat_mat_khau_tao,
\* dat_mat_khau_dung).
THEOREM LinksOpenOnce == Spec => []LinksAreSingleUse
<1>1. IInv => LinksAreSingleUse
  BY DEF IInv, LinksSpent, LinksAreSingleUse, OldLinksAreDead, LinksSetOnce
<1> QED BY <1>1, InvariantHolds, PTL
=============================================================================
