-------------------------- MODULE WebSessionProofs --------------------------
(***************************************************************************)
(* In WebSession nobody sees what somebody else left on the machine, for   *)
(* every number of tabs, users and requests, as long as the sessions of    *)
(* two users have not overlapped.                                          *)
(*                                                                         *)
(* Three parts hold whatever overlaps: the types, which request a tab      *)
(* waits for, and what a tab without a session keeps.  The last one is     *)
(* about who may be named where, while only one user is in the tabs.       *)
(***************************************************************************)
EXTENDS WebSession, FiniteSetTheorems, TLAPS

TypesOK ==
  /\ cookie \in Anybody /\ filter \in Anybody
  /\ tab \in [Tabs -> Tab]
  /\ flights \subseteq Flight
  /\ shared \in BOOLEAN

\* A tab waits for one request of a kind at a time, and knows for which.
Engaged ==
  /\ \A t \in Tabs :
       /\ tab[t].status = "closed" => tab[t] = ClosedTab /\ \A f \in flights : f.tab # t
       /\ tab[t].status = "checking" <=> \E f \in flights : f.tab = t /\ f.kind = "startup"
       /\ tab[t].entering = "login" <=> \E f \in flights : f.tab = t /\ f.kind = "login"
       /\ tab[t].entering = "me" <=> \E f \in flights : f.tab = t /\ f.kind = "me"
       /\ tab[t].entering # "no" => tab[t].status = "anon"
       /\ \A f \in flights :
            f.tab = t /\ f.kind = "data" => tab[t].status \in {"anon", "authed"}
  /\ \A f, g \in flights :
       f.tab = g.tab /\ f.kind = g.kind /\ f.kind \in {"startup", "login", "me"} => f = g

\* A tab without a session has no name, no data and none on the way.
Emptied ==
  \A t \in Tabs :
    /\ Authed(t) => tab[t].me # Nobody
    /\ ~Authed(t) =>
         /\ tab[t].me = Nobody /\ tab[t].cache = {}
         /\ \A f \in flights : f.tab = t /\ f.kind = "data" => f.as = Nobody

\* Whoever is in a tab, or on the way into one (People, without Nobody).
Present ==
  {p \in Users : \E t \in Tabs :
     \/ tab[t].me = p
     \/ tab[t].entering = "asking" /\ cookie = p
     \/ \E f \in flights : f.tab = t /\ f.kind \in {"startup", "login", "me"} /\ f.as = p}

\* Until the cookie has gone, it is that of those who are in or were let in;
\* the filter is theirs and the cookie's; so is what a tab has and asked for.
OneUser ==
  /\ \A t \in Tabs : tab[t].me # Nobody => cookie \in {Nobody, tab[t].me}
  /\ \A f \in flights :
       f.kind \in {"startup", "me"} /\ f.as # Nobody => cookie \in {Nobody, f.as}
  /\ \A p \in Present \cup {cookie} : p # Nobody => filter \in {Nobody, p}
  /\ \A t \in Tabs : Authed(t) =>
       /\ tab[t].cache \subseteq {tab[t].me}
       /\ \A f \in flights : f.tab = t /\ f.kind = "data" => f.as \in {Nobody, tab[t].me}

Own == ~shared => ~Overlap /\ OneUser

IInv == TypesOK /\ Engaged /\ Emptied /\ Own

-----------------------------------------------------------------------------
(***************************************************************************)
(* Who is there                                                            *)
(***************************************************************************)
\* A set of at most one member has one member.
LEMMA AtMostOne ==
    ASSUME NEW S, IsFiniteSet(S), ~(Cardinality(S) > 1), NEW p \in S, NEW q \in S
    PROVE  p = q
<1> SUFFICES ASSUME p # q
             PROVE  FALSE
  OBVIOUS
<1>1. IsFiniteSet({p}) /\ Cardinality({p}) = 1 /\ q \notin {p}
  BY FS_Singleton
<1>2. IsFiniteSet({p} \cup {q}) /\ Cardinality({p} \cup {q}) = 2
  BY <1>1, FS_AddElement
<1>3. {p} \cup {q} \in SUBSET S
  OBVIOUS
<1>4. Cardinality(S) \in Nat /\ Cardinality({p} \cup {q}) <= Cardinality(S)
  BY <1>3, FS_Subset, FS_CardinalityType
<1> QED BY <1>2, <1>4

LEMMA PresentIsPeople ==
    ASSUME TypesOK
    PROVE  Present = (UNION {People(t) : t \in Tabs}) \ {Nobody}
<1> DEFINE In(t, p) ==
      \/ tab[t].me = p
      \/ tab[t].entering = "asking" /\ cookie = p
      \/ \E f \in flights : f.tab = t /\ f.kind \in {"startup", "login", "me"} /\ f.as = p
<1>a. ASSUME NEW t \in Tabs, NEW p
      PROVE  p \in People(t) <=> In(t, p)
  <2>1. p \in {f.as : f \in {g \in Of(t) : g.kind \in {"startup", "login", "me"}}}
          <=> \E f \in flights : f.tab = t /\ f.kind \in {"startup", "login", "me"} /\ f.as = p
    BY DEF Of
  <2>2. p \in (IF tab[t].entering = "asking" THEN {cookie} ELSE {})
          <=> tab[t].entering = "asking" /\ cookie = p
    OBVIOUS
  <2> QED BY <2>1, <2>2 DEF People
<1> HIDE DEF In
<1>b. ASSUME NEW p
      PROVE  p \in UNION {People(t) : t \in Tabs} <=> \E t \in Tabs : p \in People(t)
  OBVIOUS
<1>1. ASSUME NEW p
      PROVE  p \in UNION {People(t) : t \in Tabs} <=> \E t \in Tabs : In(t, p)
  BY <1>a, <1>b
<1> USE DEF In
<1>2. \A p \in UNION {People(t) : t \in Tabs} : p \in Anybody
  BY <1>1 DEF TypesOK, Tab, Flight
<1> QED BY <1>1, <1>2, WebAssumption DEF Present, Anybody

\* While sessions have not overlapped, there is one user in the tabs.
LEMMA OneIsPresent ==
    ASSUME TypesOK, ~Overlap
    PROVE  \A p, q \in Present : p = q
<1>1. IsFiniteSet(Present)
  BY WebAssumption, FS_Subset DEF Present
<1>2. ~(Cardinality(Present) > 1)
  BY PresentIsPeople DEF Overlap
<1> QED BY <1>1, <1>2, AtMostOne

-----------------------------------------------------------------------------
(***************************************************************************)
(* Types                                                                   *)
(***************************************************************************)
LEMMA TabTypes ==
    /\ ClosedTab \in Tab
    /\ \A status \in Status, me \in Anybody, entering \in {"no", "login", "asking", "me"},
          cache \in SUBSET Users :
         [status |-> status, me |-> me, entering |-> entering, cache |-> cache] \in Tab
BY DEF ClosedTab, Tab, Status, Anybody

LEMMA TypesInit == Init => TypesOK
BY TabTypes DEF Init, TypesOK, Anybody

LEMMA AsksType ==
    ASSUME NEW t \in Tabs, NEW kind \in Kinds, NEW as \in Anybody
    PROVE  Asks(t, kind, as) \in Flight
BY DEF Asks, Flight

LEMMA CutFacts ==
    ASSUME NEW t, NEW F
    PROVE  \A f : f \in Cut(t, F) <=>
                    f \in F /\ (f.tab = t /\ f.kind = "data" => f.as = Nobody)
BY DEF Cut

\* The fields of a tab.
LEMMA TabFields ==
    ASSUME NEW r \in Tab
    PROVE  /\ r.status \in Status /\ r.me \in Anybody
           /\ r.entering \in {"no", "login", "asking", "me"} /\ r.cache \in SUBSET Users
           /\ r = [status |-> r.status, me |-> r.me, entering |-> r.entering,
                   cache |-> r.cache]
BY DEF Tab

\* A session's end leaves the tab anonymous, whatever it was.
LEMMA AnonymousFacts ==
    ASSUME NEW r \in Tab, NEW e \in {"no", "login", "asking", "me"}
    PROVE  /\ Anonymous(r) \in Tab
           /\ Anonymous(r) = [status |-> "anon", me |-> Nobody, entering |-> r.entering,
                              cache |-> {}]
           /\ [Anonymous(r) EXCEPT !.entering = e]
                = [status |-> "anon", me |-> Nobody, entering |-> e, cache |-> {}]
<1> DEFINE a == [status |-> "anon", me |-> Nobody, entering |-> r.entering, cache |-> {}]
<1>1. Anonymous(r) \in Tab
  BY DEF Anonymous, Tab, Status, Anybody
<1>2. /\ Anonymous(r).status = "anon" /\ Anonymous(r).me = Nobody
      /\ Anonymous(r).entering = r.entering /\ Anonymous(r).cache = {}
  BY DEF Anonymous, Tab
<1>3. Anonymous(r) = a
  BY <1>1, <1>2, TabFields
<1>4. [a EXCEPT !.entering = e]
        = [status |-> "anon", me |-> Nobody, entering |-> e, cache |-> {}]
  OBVIOUS
<1> QED BY <1>1, <1>3, <1>4

-----------------------------------------------------------------------------
(***************************************************************************)
(* What a step does to a tab and to the requests, field by field           *)
(***************************************************************************)
Turns(t, status, me, entering, cache) ==
  /\ tab' \in [Tabs -> Tab]
  /\ tab'[t].status = status /\ tab'[t].me = me
  /\ tab'[t].entering = entering /\ tab'[t].cache = cache
  /\ \A u \in Tabs : u # t => tab'[u] = tab[u]

LEMMA AsksFacts ==
    ASSUME NEW t \in Tabs, NEW kind \in Kinds, NEW as \in Anybody
    PROVE  /\ Asks(t, kind, as) \in Flight
           /\ Asks(t, kind, as).tab = t /\ Asks(t, kind, as).kind = kind
           /\ Asks(t, kind, as).as = as
BY DEF Asks, Flight

LEMMA AnonymousTurn ==
    ASSUME TypesOK, NEW t \in Tabs, tab' = [tab EXCEPT ![t] = Anonymous(@)]
    PROVE  Turns(t, "anon", Nobody, tab[t].entering, {})
<1>1. tab[t] \in Tab
  BY DEF TypesOK
<1> DEFINE a == Anonymous(tab[t])
<1>2. /\ a \in Tab /\ a.status = "anon" /\ a.me = Nobody
      /\ a.entering = tab[t].entering /\ a.cache = {}
  <2>1. a = [status |-> "anon", me |-> Nobody, entering |-> tab[t].entering, cache |-> {}]
    BY <1>1, AnonymousFacts
  <2>2. a \in Tab
    BY <1>1, AnonymousFacts
  <2> HIDE DEF a
  <2> QED BY <2>1, <2>2
<1>3. tab' = [tab EXCEPT ![t] = a]
  OBVIOUS
<1> HIDE DEF a
<1> QED BY <1>2, <1>3 DEF Turns, TypesOK

LEMMA UnauthorizedTurn ==
    ASSUME TypesOK, NEW t \in Tabs, NEW f, NEW e \in {"no", "login", "asking", "me"},
           Unauthorized(t, f, e)
    PROVE  /\ Turns(t, "anon", Nobody, e, {})
           /\ filter' = Nobody /\ cookie' = cookie /\ flights' = Cut(t, flights \ {f})
<1>1. tab[t] \in Tab
  BY DEF TypesOK
<1> DEFINE a == [status |-> "anon", me |-> Nobody, entering |-> e, cache |-> {}]
<1>2. [Anonymous(tab[t]) EXCEPT !.entering = e] = a
  BY <1>1, AnonymousFacts
<1>3. a \in Tab /\ a.status = "anon" /\ a.me = Nobody /\ a.entering = e /\ a.cache = {}
  BY TabTypes DEF Status, Anybody
<1>4. /\ tab' = [tab EXCEPT ![t] = [Anonymous(tab[t]) EXCEPT !.entering = e]]
      /\ filter' = Nobody /\ cookie' = cookie /\ flights' = Cut(t, flights \ {f})
  BY DEF Unauthorized
<1> HIDE DEF a
<1>5. tab' = [tab EXCEPT ![t] = a]
  BY <1>2, <1>4
<1>6. Turns(t, "anon", Nobody, e, {})
  BY <1>3, <1>5 DEF Turns, TypesOK
<1> QED BY <1>4, <1>6

LEMMA TabActions ==
    ASSUME TypesOK, NEW t \in Tabs
    PROVE  /\ OpenTab(t) => Turns(t, "checking", Nobody, "no", {})
           /\ CloseTab(t) => Turns(t, "closed", Nobody, "no", {}) /\ tab'[t] = ClosedTab
           /\ \A f \in flights :
                tab' = [tab EXCEPT ![t].status = "authed", ![t].me = f.as]
                  => Turns(t, "authed", f.as, tab[t].entering, tab[t].cache)
           /\ \A u \in Users : Login(t, u)
                => Turns(t, "anon", tab[t].me, "login", {})
           /\ LoginAnswered(t)
                => Turns(t, tab[t].status, tab[t].me, "asking", tab[t].cache)
           /\ AskMe(t) => Turns(t, tab[t].status, tab[t].me, "me", tab[t].cache)
           /\ \A f \in flights :
                tab' = [tab EXCEPT ![t].status = "authed", ![t].me = f.as,
                                   ![t].entering = "no"]
                  => Turns(t, "authed", f.as, "no", tab[t].cache)
           /\ tab' = [tab EXCEPT ![t].status = "anon", ![t].entering = "no"]
                => Turns(t, "anon", tab[t].me, "no", tab[t].cache)
           /\ \A f \in flights :
                f.as # Nobody /\ tab' = [tab EXCEPT ![t].cache = @ \cup {f.as}]
                  => Turns(t, tab[t].status, tab[t].me, tab[t].entering,
                           tab[t].cache \cup {f.as})
<1>0. tab \in [Tabs -> Tab] /\ tab[t] \in Tab /\ \A f \in flights : f.as \in Anybody
  BY DEF TypesOK, Flight
<1> USE <1>0 DEF Turns, Status, Anybody
<1>1. ASSUME OpenTab(t)
      PROVE  Turns(t, "checking", Nobody, "no", {})
  <2>1. [ClosedTab EXCEPT !.status = "checking"]
          = [status |-> "checking", me |-> Nobody, entering |-> "no", cache |-> {}]
    BY DEF ClosedTab
  <2>2. [status |-> "checking", me |-> Nobody, entering |-> "no", cache |-> {}] \in Tab
    BY TabTypes
  <2> QED BY <1>1, <2>1, <2>2 DEF OpenTab
<1>2. ASSUME CloseTab(t)
      PROVE  Turns(t, "closed", Nobody, "no", {}) /\ tab'[t] = ClosedTab
  <2>1. /\ ClosedTab \in Tab /\ ClosedTab.status = "closed" /\ ClosedTab.me = Nobody
        /\ ClosedTab.entering = "no" /\ ClosedTab.cache = {}
    BY TabTypes DEF ClosedTab
  <2> QED BY <1>2, <2>1 DEF CloseTab
<1>3. ASSUME NEW f \in flights, tab' = [tab EXCEPT ![t].status = "authed", ![t].me = f.as]
      PROVE  Turns(t, "authed", f.as, tab[t].entering, tab[t].cache)
  BY <1>3 DEF Tab
<1>4. ASSUME NEW u \in Users, Login(t, u)
      PROVE  Turns(t, "anon", tab[t].me, "login", {})
  BY <1>4 DEF Tab, Login
<1>5. ASSUME LoginAnswered(t)
      PROVE  Turns(t, tab[t].status, tab[t].me, "asking", tab[t].cache)
  BY <1>5 DEF Tab, LoginAnswered
<1>6. ASSUME AskMe(t)
      PROVE  Turns(t, tab[t].status, tab[t].me, "me", tab[t].cache)
  BY <1>6 DEF Tab, AskMe
<1>7. ASSUME NEW f \in flights,
             tab' = [tab EXCEPT ![t].status = "authed", ![t].me = f.as, ![t].entering = "no"]
      PROVE  Turns(t, "authed", f.as, "no", tab[t].cache)
  BY <1>7 DEF Tab
<1>8. ASSUME tab' = [tab EXCEPT ![t].status = "anon", ![t].entering = "no"]
      PROVE  Turns(t, "anon", tab[t].me, "no", tab[t].cache)
  BY <1>8 DEF Tab
<1>9. ASSUME NEW f \in flights, f.as # Nobody, tab' = [tab EXCEPT ![t].cache = @ \cup {f.as}]
      PROVE  Turns(t, tab[t].status, tab[t].me, tab[t].entering, tab[t].cache \cup {f.as})
  BY <1>9 DEF Tab
<1> HIDE DEF Turns
<1> QED BY <1>1, <1>2, <1>3, <1>4, <1>5, <1>6, <1>7, <1>8, <1>9

-----------------------------------------------------------------------------
(***************************************************************************)
(* Every step keeps the invariant                                          *)
(***************************************************************************)
\* It is enough to look at a step before which one user was in the tabs.
LEMMA OwnStep ==
    ASSUME TypesOK, Own, Watch,
           ~shared /\ OneUser /\ (\A p, q \in Present : p = q) => OneUser'
    PROVE  Own' /\ shared' \in BOOLEAN
<1>1. ~shared' => ~shared /\ ~Overlap'
  BY DEF Watch
<1>2. ~shared => \A p, q \in Present : p = q
  BY OneIsPresent DEF Own
<1>3. shared' \in BOOLEAN
  BY DEF Watch, TypesOK, Overlap
<1> QED BY <1>1, <1>2, <1>3 DEF Own

LEMMA OpenTabKeeps ==
    ASSUME IInv, NEW t \in Tabs, OpenTab(t), Watch
    PROVE  IInv'
<1> DEFINE g == Asks(t, "startup", cookie)
<1>1. Turns(t, "checking", Nobody, "no", {})
  BY TabActions DEF IInv
<1>2. g \in Flight /\ g.tab = t /\ g.kind = "startup" /\ g.as = cookie
  BY AsksFacts DEF IInv, TypesOK, Kinds
<1>3. /\ tab[t].status = "closed" /\ flights' = flights \cup {g}
      /\ cookie' = cookie /\ filter' = filter
  BY DEF OpenTab
<1> HIDE DEF g
<1>4. \A f \in flights : f.tab # t
  BY <1>3 DEF IInv, Engaged
<1>5. shared' \in BOOLEAN => TypesOK'
  BY <1>1, <1>2, <1>3 DEF IInv, TypesOK, Turns
<1>6. Engaged'
  BY <1>1, <1>2, <1>3, <1>4 DEF IInv, Engaged, Turns
<1>7. Emptied'
  BY <1>1, <1>2, <1>3, <1>4 DEF IInv, Emptied, Turns, Authed
<1>8. ASSUME OneUser
      PROVE  OneUser'
  BY <1>1, <1>2, <1>3, <1>4, <1>8 DEF IInv, OneUser, Turns, Authed, Present
<1> QED BY <1>5, <1>6, <1>7, <1>8, OwnStep DEF IInv, TypesOK

LEMMA CloseTabKeeps ==
    ASSUME IInv, NEW t \in Tabs, CloseTab(t), Watch
    PROVE  IInv'
<1>1. Turns(t, "closed", Nobody, "no", {}) /\ tab'[t] = ClosedTab
  BY TabActions DEF IInv
<1>2. /\ \A f : f \in flights' <=> f \in flights /\ f.tab # t
      /\ cookie' = cookie /\ filter' = filter
  BY DEF CloseTab, Of
<1>3. shared' \in BOOLEAN => TypesOK'
  BY <1>1, <1>2 DEF IInv, TypesOK, Turns, Anybody
<1>4. Engaged'
  BY <1>1, <1>2 DEF IInv, Engaged, Turns
<1>5. Emptied'
  BY <1>1, <1>2 DEF IInv, Emptied, Turns, Authed
<1>6. ASSUME OneUser, \A p, q \in Present : p = q
      PROVE  OneUser'
  BY <1>1, <1>2, <1>6 DEF IInv, OneUser, Turns, Authed, Present
<1> QED BY <1>3, <1>4, <1>5, <1>6, OwnStep DEF IInv, TypesOK

LEMMA StartupAnsweredKeeps ==
    ASSUME IInv, NEW t \in Tabs, StartupAnswered(t), Watch
    PROVE  IInv'
<1>1. PICK f \in Waiting(t, "startup") :
        /\ f.as # Nobody
        /\ tab' = [tab EXCEPT ![t].status = "authed", ![t].me = f.as]
        /\ flights' = flights \ {f}
        /\ cookie' = cookie /\ filter' = filter
  BY DEF StartupAnswered
<1>2. f \in flights /\ f.tab = t /\ f.kind = "startup"
  BY DEF Waiting, Of
<1>3. Turns(t, "authed", f.as, tab[t].entering, tab[t].cache)
  BY <1>1, <1>2, TabActions DEF IInv
<1>4. tab[t].status = "checking" /\ tab[t].entering = "no" /\ tab[t].cache = {}
  BY <1>2 DEF IInv, Engaged, Emptied, Authed
<1>5. shared' \in BOOLEAN => TypesOK'
  BY <1>1, <1>2, <1>3, <1>4 DEF IInv, TypesOK, Turns, Anybody
<1>6. Engaged'
  BY <1>1, <1>2, <1>3, <1>4 DEF IInv, Engaged, Turns
<1>7. Emptied'
  BY <1>1, <1>2, <1>3, <1>4 DEF IInv, Emptied, Turns, Authed
<1>8. ASSUME OneUser, \A p, q \in Present : p = q
      PROVE  OneUser'
  <2>1. \A p \in Present' : p \in Present
    BY <1>1, <1>2, <1>3, <1>4 DEF Present, Turns
  <2>2. \A u \in Tabs : tab'[u].me # Nobody => cookie' \in {Nobody, tab'[u].me}
    BY <1>1, <1>2, <1>3, <1>4, <1>8 DEF OneUser, Turns
  <2>3. \A g \in flights' :
          g.kind \in {"startup", "me"} /\ g.as # Nobody => cookie' \in {Nobody, g.as}
    BY <1>1, <1>2, <1>3, <1>4, <1>8 DEF OneUser
  <2>4. \A p \in Present' \cup {cookie'} : p # Nobody => filter' \in {Nobody, p}
    BY <1>1, <1>2, <1>3, <1>4, <1>8, <2>1 DEF OneUser
  <2>5. \A u \in Tabs : tab'[u].status = "authed" =>
          /\ tab'[u].cache \subseteq {tab'[u].me}
          /\ \A g \in flights' :
               g.tab = u /\ g.kind = "data" => g.as \in {Nobody, tab'[u].me}
    BY <1>1, <1>2, <1>3, <1>4, <1>8 DEF IInv, OneUser, Emptied, Turns, Authed
  <2> QED BY <2>2, <2>3, <2>4, <2>5 DEF OneUser, Authed
<1> QED BY <1>5, <1>6, <1>7, <1>8, OwnStep DEF IInv, TypesOK

LEMMA StartupFailsKeeps ==
    ASSUME IInv, NEW t \in Tabs, StartupFails(t), Watch
    PROVE  IInv'
<1>1. PICK f \in Waiting(t, "startup") :
        /\ tab' = [tab EXCEPT ![t] = Anonymous(@)]
        /\ filter' = Nobody /\ flights' = flights \ {f} /\ cookie' = cookie
  BY DEF StartupFails
<1>2. f \in flights /\ f.tab = t /\ f.kind = "startup"
  BY DEF Waiting, Of
<1>3. Turns(t, "anon", Nobody, tab[t].entering, {})
  BY <1>1, AnonymousTurn DEF IInv
<1>4. tab[t].status = "checking" /\ tab[t].entering = "no"
  BY <1>2 DEF IInv, Engaged
<1>5. shared' \in BOOLEAN => TypesOK'
  BY <1>1, <1>2, <1>3, <1>4 DEF IInv, TypesOK, Turns, Anybody
<1>6. Engaged'
  BY <1>1, <1>2, <1>3, <1>4 DEF IInv, Engaged, Turns
<1>7. Emptied'
  BY <1>1, <1>2, <1>3, <1>4 DEF IInv, Emptied, Turns, Authed
<1>8. ASSUME OneUser, \A p, q \in Present : p = q
      PROVE  OneUser'
  BY <1>1, <1>2, <1>3, <1>4, <1>8 DEF IInv, OneUser, Turns, Authed, Present
<1> QED BY <1>5, <1>6, <1>7, <1>8, OwnStep DEF IInv, TypesOK

LEMMA LoginKeeps ==
    ASSUME IInv, NEW t \in Tabs, NEW u \in Users, Login(t, u), Watch
    PROVE  IInv'
<1> DEFINE g == Asks(t, "login", u)
<1>1. Turns(t, "anon", tab[t].me, "login", {})
  BY TabActions DEF IInv
<1>2. g \in Flight /\ g.tab = t /\ g.kind = "login" /\ g.as = u
  BY AsksFacts DEF Kinds, Anybody
<1>3. /\ tab[t].status = "anon" /\ tab[t].entering = "no"
      /\ flights' = Cut(t, flights) \cup {g}
      /\ cookie' = cookie /\ filter' = Nobody
  BY DEF Login
<1> HIDE DEF g
<1>4. \A f : f \in flights' <=>
        f = g \/ (f \in flights /\ (f.tab = t /\ f.kind = "data" => f.as = Nobody))
  BY <1>3, CutFacts
<1>5. shared' \in BOOLEAN => TypesOK'
  BY <1>1, <1>2, <1>3, <1>4 DEF IInv, TypesOK, Turns, Anybody
<1>6. Engaged'
  BY <1>1, <1>2, <1>3, <1>4 DEF IInv, Engaged, Turns
<1>7. Emptied'
  BY <1>1, <1>2, <1>3, <1>4 DEF IInv, Emptied, Turns, Authed
<1>8. ASSUME OneUser, \A p, q \in Present : p = q
      PROVE  OneUser'
  BY <1>1, <1>2, <1>3, <1>4, <1>8 DEF IInv, OneUser, Turns, Authed, Present
<1> QED BY <1>5, <1>6, <1>7, <1>8, OwnStep DEF IInv, TypesOK

\* The one user there is logs in, or nobody was there.
LEMMA LoginAnsweredKeeps ==
    ASSUME IInv, NEW t \in Tabs, LoginAnswered(t), Watch
    PROVE  IInv'
<1>1. PICK f \in Waiting(t, "login") :
        cookie' = f.as /\ flights' = flights \ {f} /\ filter' = filter
  BY DEF LoginAnswered
<1>2. f \in flights /\ f.tab = t /\ f.kind = "login" /\ f.as \in Anybody
  BY DEF Waiting, Of, IInv, TypesOK, Flight
<1>3. f.as = Nobody \/ f.as \in Present
  BY <1>2 DEF Present, Anybody
<1>4. \A u \in Tabs : tab[u].me = Nobody \/ tab[u].me \in Present
  BY TabFields DEF IInv, TypesOK, Present, Anybody
<1>5. \A g \in flights :
        g.kind \in {"startup", "me"} /\ g.as # Nobody => g.as \in Present
  BY DEF IInv, TypesOK, Flight, Present, Anybody
<1>6. Turns(t, tab[t].status, tab[t].me, "asking", tab[t].cache)
  BY TabActions DEF IInv
<1>7. tab[t].status = "anon" /\ tab[t].entering = "login"
  BY <1>2 DEF IInv, Engaged
<1>8. shared' \in BOOLEAN => TypesOK'
  BY <1>1, <1>2, <1>6 DEF IInv, TypesOK, Turns, Anybody
<1>9. Engaged'
  BY <1>1, <1>2, <1>6, <1>7 DEF IInv, Engaged, Turns
<1>10. Emptied'
  BY <1>1, <1>2, <1>6 DEF IInv, Emptied, Turns, Authed
<1>11. ASSUME OneUser, \A p, q \in Present : p = q
      PROVE  OneUser'
  <2>1. \A p \in Present' : p \in Present
    BY <1>1, <1>2, <1>3, <1>6 DEF Present, Turns
  <2>2. \A u \in Tabs : tab'[u].me # Nobody => cookie' \in {Nobody, tab'[u].me}
    BY <1>1, <1>3, <1>4, <1>6, <1>11 DEF OneUser, Turns
  <2>3. \A g \in flights' :
          g.kind \in {"startup", "me"} /\ g.as # Nobody => cookie' \in {Nobody, g.as}
    BY <1>1, <1>3, <1>5, <1>11 DEF OneUser
  <2>4. \A p \in Present' \cup {cookie'} : p # Nobody => filter' \in {Nobody, p}
    BY <1>1, <1>3, <1>11, <2>1 DEF OneUser
  <2>5. \A u \in Tabs : tab'[u].status = "authed" =>
          /\ tab'[u].cache \subseteq {tab'[u].me}
          /\ \A g \in flights' :
               g.tab = u /\ g.kind = "data" => g.as \in {Nobody, tab'[u].me}
    BY <1>1, <1>2, <1>6, <1>7, <1>11 DEF IInv, OneUser, Emptied, Turns, Authed
  <2> QED BY <2>2, <2>3, <2>4, <2>5 DEF OneUser, Authed
<1> QED BY <1>8, <1>9, <1>10, <1>11, OwnStep DEF IInv, TypesOK

LEMMA AskMeKeeps ==
    ASSUME IInv, NEW t \in Tabs, AskMe(t), Watch
    PROVE  IInv'
<1> DEFINE g == Asks(t, "me", cookie)
<1>1. Turns(t, tab[t].status, tab[t].me, "me", tab[t].cache)
  BY TabActions DEF IInv
<1>2. g \in Flight /\ g.tab = t /\ g.kind = "me" /\ g.as = cookie
  BY AsksFacts DEF IInv, TypesOK, Kinds
<1>3. /\ tab[t].entering = "asking" /\ flights' = flights \cup {g}
      /\ cookie' = cookie /\ filter' = filter
  BY DEF AskMe
<1> HIDE DEF g
<1>4. tab[t].status = "anon"
  BY <1>3 DEF IInv, Engaged
<1>5. shared' \in BOOLEAN => TypesOK'
  BY <1>1, <1>2, <1>3, <1>4 DEF IInv, TypesOK, Turns, Anybody
<1>6. Engaged'
  BY <1>1, <1>2, <1>3, <1>4 DEF IInv, Engaged, Turns
<1>7. Emptied'
  BY <1>1, <1>2, <1>3, <1>4 DEF IInv, Emptied, Turns, Authed
<1>8. ASSUME OneUser, \A p, q \in Present : p = q
      PROVE  OneUser'
  BY <1>1, <1>2, <1>3, <1>4, <1>8 DEF IInv, OneUser, Turns, Authed, Present
<1> QED BY <1>5, <1>6, <1>7, <1>8, OwnStep DEF IInv, TypesOK

LEMMA MeAnsweredKeeps ==
    ASSUME IInv, NEW t \in Tabs, MeAnswered(t), Watch
    PROVE  IInv'
<1>1. PICK f \in Waiting(t, "me") :
        /\ f.as # Nobody
        /\ tab' = [tab EXCEPT ![t].status = "authed", ![t].me = f.as, ![t].entering = "no"]
        /\ flights' = flights \ {f}
        /\ cookie' = cookie /\ filter' = filter
  BY DEF MeAnswered
<1>2. f \in flights /\ f.tab = t /\ f.kind = "me"
  BY DEF Waiting, Of
<1>3. Turns(t, "authed", f.as, "no", tab[t].cache)
  BY <1>1, <1>2, TabActions DEF IInv
<1>4. tab[t].status = "anon" /\ tab[t].entering = "me" /\ tab[t].cache = {}
  BY <1>2 DEF IInv, Engaged, Emptied, Authed
<1>5. shared' \in BOOLEAN => TypesOK'
  BY <1>1, <1>2, <1>3, <1>4 DEF IInv, TypesOK, Turns, Anybody
<1>6. Engaged'
  BY <1>1, <1>2, <1>3, <1>4 DEF IInv, Engaged, Turns
<1>7. Emptied'
  BY <1>1, <1>2, <1>3, <1>4 DEF IInv, Emptied, Turns, Authed
<1>8. ASSUME OneUser, \A p, q \in Present : p = q
      PROVE  OneUser'
  <2>1. \A p \in Present' : p \in Present
    BY <1>1, <1>2, <1>3, <1>4 DEF Present, Turns
  <2>2. \A u \in Tabs : tab'[u].me # Nobody => cookie' \in {Nobody, tab'[u].me}
    BY <1>1, <1>2, <1>3, <1>4, <1>8 DEF OneUser, Turns
  <2>3. \A g \in flights' :
          g.kind \in {"startup", "me"} /\ g.as # Nobody => cookie' \in {Nobody, g.as}
    BY <1>1, <1>2, <1>3, <1>4, <1>8 DEF OneUser
  <2>4. \A p \in Present' \cup {cookie'} : p # Nobody => filter' \in {Nobody, p}
    BY <1>1, <1>2, <1>3, <1>4, <1>8, <2>1 DEF OneUser
  <2>5. \A u \in Tabs : tab'[u].status = "authed" =>
          /\ tab'[u].cache \subseteq {tab'[u].me}
          /\ \A g \in flights' :
               g.tab = u /\ g.kind = "data" => g.as \in {Nobody, tab'[u].me}
    BY <1>1, <1>2, <1>3, <1>4, <1>8 DEF IInv, OneUser, Emptied, Turns, Authed
  <2> QED BY <2>2, <2>3, <2>4, <2>5 DEF OneUser, Authed
<1> QED BY <1>5, <1>6, <1>7, <1>8, OwnStep DEF IInv, TypesOK

\* A 401 to a request f, after which the tab is entering as e says: no request
\* that it then knows of is lost, and none is left that it does not know of.
LEMMA UnauthorizedKeeps ==
    ASSUME IInv, NEW t \in Tabs, NEW f \in flights, f.tab = t,
           NEW e \in {"no", "login", "asking", "me"}, Unauthorized(t, f, e), Watch,
           \/ f.kind = "data" /\ Authed(t) /\ e = tab[t].entering
           \/ f.kind = "data" /\ tab[t].status = "anon" /\ e = tab[t].entering
           \/ f.kind \in {"login", "me"} /\ e = "no"
    PROVE  IInv'
<1>1. /\ Turns(t, "anon", Nobody, e, {})
      /\ filter' = Nobody /\ cookie' = cookie /\ flights' = Cut(t, flights \ {f})
  BY UnauthorizedTurn DEF IInv
<1>2. \A g : g \in flights' <=>
        g \in flights /\ g # f /\ (g.tab = t /\ g.kind = "data" => g.as = Nobody)
  BY <1>1, CutFacts
<1>3. /\ tab[t].status \in {"anon", "authed"}
      /\ f.kind = "data" => e = tab[t].entering
      /\ f.kind # "data" => f.kind = tab[t].entering /\ e = "no"
      /\ f.kind \in {"data", "login", "me"}
  BY DEF IInv, Engaged, Authed
<1>4. /\ \A g \in flights' : g \in flights /\ g # f
      /\ \A g \in flights : g # f /\ g.kind # "data" => g \in flights'
      /\ \A g \in flights' : g.tab = t /\ g.kind = "data" => g.as = Nobody
  BY <1>2
<1>5. shared' \in BOOLEAN => TypesOK'
  BY <1>1, <1>3, <1>4 DEF IInv, TypesOK, Turns, Anybody
<1>6. Engaged'
  <2>1. ASSUME NEW u \in Tabs, u # t
        PROVE  /\ tab'[u] = tab[u]
               /\ \A g : g.tab = u /\ g.kind # "data" => (g \in flights' <=> g \in flights)
    BY <1>1, <1>4, <2>1 DEF Turns
  <2>2. ASSUME NEW u \in Tabs, u # t
        PROVE  /\ tab'[u].status = "closed" =>
                    tab'[u] = ClosedTab /\ \A g \in flights' : g.tab # u
               /\ tab'[u].status = "checking" <=>
                    \E g \in flights' : g.tab = u /\ g.kind = "startup"
               /\ tab'[u].entering = "login" <=>
                    \E g \in flights' : g.tab = u /\ g.kind = "login"
               /\ tab'[u].entering = "me" <=>
                    \E g \in flights' : g.tab = u /\ g.kind = "me"
    BY <1>4, <2>1, <2>2 DEF IInv, Engaged
  <2>3. /\ \A g \in flights' : g.tab = t => g.kind # "startup"
        /\ e = "login" <=> \E g \in flights' : g.tab = t /\ g.kind = "login"
        /\ e = "me" <=> \E g \in flights' : g.tab = t /\ g.kind = "me"
    BY <1>3, <1>4 DEF IInv, Engaged
  <2>4. ASSUME NEW u \in Tabs
        PROVE  /\ tab'[u].entering # "no" => tab'[u].status = "anon"
               /\ \A g \in flights' :
                    g.tab = u /\ g.kind = "data" => tab'[u].status \in {"anon", "authed"}
    <3>1. CASE u = t
      BY <1>1, <3>1 DEF Turns
    <3>2. CASE u # t
      BY <1>4, <2>1, <3>2 DEF IInv, Engaged
    <3> QED BY <3>1, <3>2
  <2>5. \A g, h \in flights' :
          g.tab = h.tab /\ g.kind = h.kind /\ g.kind \in {"startup", "login", "me"} => g = h
    BY <1>4 DEF IInv, Engaged
  <2>6. tab'[t].status = "anon" /\ tab'[t].entering = e
    BY <1>1 DEF Turns
  <2> QED BY <2>2, <2>3, <2>4, <2>5, <2>6 DEF Engaged
<1>7. Emptied'
  BY <1>1, <1>3, <1>4 DEF IInv, Emptied, Turns, Authed
<1>8. ASSUME OneUser, \A p, q \in Present : p = q
      PROVE  OneUser'
  BY <1>1, <1>3, <1>4, <1>8 DEF IInv, OneUser, Turns, Authed, Present
<1> QED BY <1>5, <1>6, <1>7, <1>8, OwnStep DEF IInv, TypesOK

LEMMA EnteringFailsKeeps ==
    ASSUME IInv, NEW t \in Tabs, EnteringFails(t), Watch
    PROVE  IInv'
<1>1. PICK f \in Waiting(t, "login") \cup Waiting(t, "me") :
        \/ Unauthorized(t, f, "no")
        \/ /\ tab' = [tab EXCEPT ![t].status = "anon", ![t].entering = "no"]
           /\ flights' = flights \ {f}
           /\ cookie' = cookie /\ filter' = filter
  BY DEF EnteringFails
<1>2. f \in flights /\ f.tab = t /\ f.kind \in {"login", "me"}
  BY DEF Waiting, Of
<1>3. tab[t].status = "anon" /\ tab[t].me = Nobody /\ tab[t].entering = f.kind
  BY <1>2 DEF IInv, Engaged, Emptied, Authed
<1>4. CASE Unauthorized(t, f, "no")
  BY <1>2, <1>4, UnauthorizedKeeps
<1>5. CASE /\ tab' = [tab EXCEPT ![t].status = "anon", ![t].entering = "no"]
           /\ flights' = flights \ {f}
           /\ cookie' = cookie /\ filter' = filter
  <2>1. Turns(t, "anon", Nobody, "no", tab[t].cache)
    BY <1>3, <1>5, TabActions DEF IInv
<2>2. shared' \in BOOLEAN => TypesOK'
    BY <1>2, <1>3, <1>5, <2>1 DEF IInv, TypesOK, Turns, Anybody
  <2>3. Engaged'
    BY <1>2, <1>3, <1>5, <2>1 DEF IInv, Engaged, Turns
  <2>4. Emptied'
    BY <1>2, <1>3, <1>5, <2>1 DEF IInv, Emptied, Turns, Authed
  <2>5. ASSUME OneUser, \A p, q \in Present : p = q
        PROVE  OneUser'
    BY <1>2, <1>3, <1>5, <2>1, <2>5 DEF IInv, OneUser, Turns, Authed, Present
  <2> QED BY <2>2, <2>3, <2>4, <2>5, OwnStep DEF IInv, TypesOK
<1> QED BY <1>1, <1>4, <1>5

\* What one asks for is asked with the cookie.
LEMMA QueryKeeps ==
    ASSUME IInv, NEW t \in Tabs, Query(t), Watch
    PROVE  IInv'
<1> DEFINE g == Asks(t, "data", cookie)
<1>1. g \in Flight /\ g.tab = t /\ g.kind = "data" /\ g.as = cookie
  BY AsksFacts DEF IInv, TypesOK, Kinds
<1>2. /\ Authed(t) /\ flights' = flights \cup {g}
      /\ cookie' = cookie /\ filter' = filter /\ tab' = tab
  BY DEF Query, CanAsk
<1> HIDE DEF g
<1>3. tab[t].status = "authed" /\ tab[t].me # Nobody
  BY <1>2 DEF IInv, Emptied, Authed
<1>4. shared' \in BOOLEAN => TypesOK'
  BY <1>1, <1>2, <1>3 DEF IInv, TypesOK, Turns, Anybody
<1>5. Engaged'
  BY <1>1, <1>2, <1>3 DEF IInv, Engaged, Turns
<1>6. Emptied'
  BY <1>1, <1>2, <1>3 DEF IInv, Emptied, Turns, Authed
<1>7. ASSUME OneUser, \A p, q \in Present : p = q
      PROVE  OneUser'
  BY <1>1, <1>2, <1>3, <1>7 DEF IInv, OneUser, Turns, Authed, Present
<1> QED BY <1>4, <1>5, <1>6, <1>7, OwnStep DEF IInv, TypesOK

LEMMA QueryAnsweredKeeps ==
    ASSUME IInv, NEW t \in Tabs, QueryAnswered(t), Watch
    PROVE  IInv'
<1>1. PICK f \in Waiting(t, "data") :
        \/ /\ f.as # Nobody
           /\ tab' = [tab EXCEPT ![t].cache = @ \cup {f.as}]
           /\ flights' = flights \ {f}
           /\ cookie' = cookie /\ filter' = filter
        \/ f.as = Nobody /\ Unauthorized(t, f, tab[t].entering)
  BY DEF QueryAnswered
<1>2. f \in flights /\ f.tab = t /\ f.kind = "data"
  BY DEF Waiting, Of
<1>3. CASE f.as = Nobody /\ Unauthorized(t, f, tab[t].entering)
  <2>1. tab[t].entering \in {"no", "login", "asking", "me"}
    BY TabFields DEF IInv, TypesOK
  <2>2. tab[t].status \in {"anon", "authed"}
    BY <1>2 DEF IInv, Engaged
  <2> QED BY <1>2, <1>3, <2>1, <2>2, UnauthorizedKeeps DEF Authed
<1>4. CASE /\ f.as # Nobody
           /\ tab' = [tab EXCEPT ![t].cache = @ \cup {f.as}]
           /\ flights' = flights \ {f}
           /\ cookie' = cookie /\ filter' = filter
  <2>1. Turns(t, tab[t].status, tab[t].me, tab[t].entering, tab[t].cache \cup {f.as})
    BY <1>2, <1>4, TabActions DEF IInv
  <2>2. tab[t].status = "authed"
    BY <1>2, <1>4 DEF IInv, Emptied, Authed
  <2>3. shared' \in BOOLEAN => TypesOK'
    BY <1>2, <1>4, <2>1, <2>2 DEF IInv, TypesOK, Turns, Anybody
  <2>4. Engaged'
    BY <1>2, <1>4, <2>1, <2>2 DEF IInv, Engaged, Turns
  <2>5. Emptied'
    BY <1>2, <1>4, <2>1, <2>2 DEF IInv, Emptied, Turns, Authed
  <2>6. ASSUME OneUser, \A p, q \in Present : p = q
        PROVE  OneUser'
    BY <1>2, <1>4, <2>1, <2>2, <2>6 DEF IInv, OneUser, Turns, Authed, Present
  <2> QED BY <2>3, <2>4, <2>5, <2>6, OwnStep DEF IInv, TypesOK
<1> QED BY <1>1, <1>3, <1>4

\* The filter is saved under the name of the one user there is.
LEMMA SaveFilterKeeps ==
    ASSUME IInv, NEW t \in Tabs, SaveFilter(t), Watch
    PROVE  IInv'
<1>1. /\ Authed(t) /\ filter' = tab[t].me
      /\ cookie' = cookie /\ tab' = tab /\ flights' = flights
  BY DEF SaveFilter
<1>2. tab[t].me \in Users
  BY <1>1, TabFields DEF IInv, TypesOK, Emptied, Anybody
<1>3. tab[t].me \in Present
  BY <1>2 DEF Present
<1>4. shared' \in BOOLEAN => TypesOK'
  BY <1>1, <1>2 DEF IInv, TypesOK, Anybody, Anybody
<1>5. Engaged'
  BY <1>1, <1>2, <1>3 DEF IInv, Engaged, Turns
<1>6. Emptied'
  BY <1>1, <1>2, <1>3 DEF IInv, Emptied, Turns, Authed
<1>7. ASSUME OneUser, \A p, q \in Present : p = q
      PROVE  OneUser'
  BY <1>1, <1>2, <1>3, <1>7 DEF IInv, OneUser, Turns, Authed, Present
<1> QED BY <1>4, <1>5, <1>6, <1>7, OwnStep DEF IInv, TypesOK

LEMMA LogoutKeeps ==
    ASSUME IInv, NEW t \in Tabs, Logout(t), Watch
    PROVE  IInv'
<1> DEFINE g == Asks(t, "logout", Nobody)
<1>1. g \in Flight /\ g.tab = t /\ g.kind = "logout" /\ g.as = Nobody
  BY AsksFacts DEF Kinds, Anybody
<1>2. /\ Authed(t) /\ tab' = [tab EXCEPT ![t] = Anonymous(@)]
      /\ flights' = Cut(t, flights) \cup {g}
      /\ cookie' = cookie /\ filter' = Nobody
  BY DEF Logout
<1> HIDE DEF g
<1>3. Turns(t, "anon", Nobody, tab[t].entering, {})
  BY <1>2, AnonymousTurn DEF IInv
<1>4. \A f : f \in flights' <=>
        f = g \/ (f \in flights /\ (f.tab = t /\ f.kind = "data" => f.as = Nobody))
  BY <1>2, CutFacts
<1>5. tab[t].status = "authed" /\ tab[t].entering = "no"
  BY <1>2 DEF IInv, Engaged, Authed
<1>6. shared' \in BOOLEAN => TypesOK'
  BY <1>1, <1>2, <1>3, <1>4, <1>5 DEF IInv, TypesOK, Turns, Anybody
<1>7. Engaged'
  BY <1>1, <1>2, <1>3, <1>4, <1>5 DEF IInv, Engaged, Turns
<1>8. Emptied'
  BY <1>1, <1>2, <1>3, <1>4, <1>5 DEF IInv, Emptied, Turns, Authed
<1>9. ASSUME OneUser, \A p, q \in Present : p = q
      PROVE  OneUser'
  BY <1>1, <1>2, <1>3, <1>4, <1>5, <1>9 DEF IInv, OneUser, Turns, Authed, Present
<1> QED BY <1>6, <1>7, <1>8, <1>9, OwnStep DEF IInv, TypesOK

\* An answer or a failure that no tab waits for; or the cookie goes.
LEMMA UnheardKeeps ==
    ASSUME IInv, Watch, tab' = tab, filter' = filter, cookie' \in {cookie, Nobody},
           \/ flights' = flights
           \/ \E f \in flights : f.kind \in {"data", "logout"} /\ flights' = flights \ {f}
    PROVE  IInv'
<1>1. /\ \A f \in flights' : f \in flights
      /\ \A f \in flights : f.kind \in {"startup", "login", "me"} => f \in flights'
  OBVIOUS
<1>2. cookie' \in Anybody
  BY DEF IInv, TypesOK, Anybody
<1>3. shared' \in BOOLEAN => TypesOK'
  BY <1>1, <1>2 DEF IInv, TypesOK, Turns, Anybody
<1>4. Engaged'
  BY <1>1, <1>2 DEF IInv, Engaged, Turns
<1>5. Emptied'
  BY <1>1, <1>2 DEF IInv, Emptied, Turns, Authed
<1>6. ASSUME OneUser, \A p, q \in Present : p = q
      PROVE  OneUser'
  BY <1>1, <1>2, <1>6 DEF IInv, OneUser, Turns, Authed, Present
<1> QED BY <1>3, <1>4, <1>5, <1>6, OwnStep DEF IInv, TypesOK

LEMMA LogoutAnsweredKeeps ==
    ASSUME IInv, NEW t \in Tabs, LogoutAnswered(t), Watch
    PROVE  IInv'
BY UnheardKeeps DEF LogoutAnswered, Waiting, Of

LEMMA RequestFailsKeeps ==
    ASSUME IInv, NEW t \in Tabs, RequestFails(t), Watch
    PROVE  IInv'
<1>1. PICK f \in UNION {Waiting(t, k) : k \in {"data", "logout"}} :
        flights' = flights \ {f} /\ UNCHANGED <<cookie, filter, tab>>
  BY DEF RequestFails
<1>2. f \in flights /\ f.kind \in {"data", "logout"}
  BY DEF Waiting, Of
<1> QED BY <1>1, <1>2, UnheardKeeps

LEMMA CookieExpiresKeeps ==
    ASSUME IInv, CookieExpires, Watch
    PROVE  IInv'
BY UnheardKeeps DEF CookieExpires

-----------------------------------------------------------------------------
(***************************************************************************)
(* The specification                                                       *)
(***************************************************************************)
LEMMA InvInit == Init => IInv
<1> SUFFICES ASSUME Init
             PROVE  IInv
  OBVIOUS
<1>1. /\ cookie = Nobody /\ filter = Nobody /\ flights = {}
      /\ \A t \in Tabs : tab[t] = ClosedTab
  BY DEF Init
<1>2. /\ ClosedTab.status = "closed" /\ ClosedTab.me = Nobody
      /\ ClosedTab.entering = "no" /\ ClosedTab.cache = {}
  BY DEF ClosedTab
<1>3. TypesOK
  BY TypesInit
<1>4. Engaged /\ Emptied
  BY <1>1, <1>2 DEF Engaged, Emptied, Authed
<1>5. Present = {}
  BY <1>1, <1>2, WebAssumption DEF Present
<1>6. ~Overlap
  BY <1>3, <1>5, PresentIsPeople, FS_EmptySet DEF Overlap
<1>7. OneUser
  BY <1>1, <1>2, <1>5 DEF OneUser, Authed
<1> QED BY <1>3, <1>4, <1>6, <1>7 DEF IInv, Own

LEMMA InvNext == IInv /\ [Next]_vars => IInv'
<1> SUFFICES ASSUME IInv, [Next]_vars
             PROVE  IInv'
  OBVIOUS
<1>1. ASSUME NEW t \in Tabs, TabStep(t), Watch
      PROVE  IInv'
  BY <1>1, OpenTabKeeps, CloseTabKeeps, StartupAnsweredKeeps, StartupFailsKeeps, LoginKeeps,
     LoginAnsweredKeeps, AskMeKeeps, MeAnsweredKeeps, EnteringFailsKeeps, QueryKeeps,
     QueryAnsweredKeeps, SaveFilterKeeps, LogoutKeeps, LogoutAnsweredKeeps, RequestFailsKeeps
  DEF TabStep, StartupEnds, EnteringGoesOn
<1>2. CASE CookieExpires /\ Watch
  BY <1>2, CookieExpiresKeeps
<1>3. CASE UNCHANGED vars
  BY <1>3 DEF vars, IInv, TypesOK, Engaged, Emptied, Own, OneUser, Present, Overlap,
              People, Of, Authed
<1> QED BY <1>1, <1>2, <1>3 DEF Next

LEMMA InvariantHolds == Spec => []IInv
BY InvInit, InvNext, PTL DEF Spec

\* While the sessions of two users have not overlapped in the tabs, a tab shows
\* its own user's data only, and the filter it finds is nobody's or its own
\* user's, whatever answers come late and whichever tabs were closed
\* (auth-context: "do not leak the last tenant's data").
THEOREM TabsShowTheirOwn == Spec => []OwnDataOnly
<1>1. IInv => OwnDataOnly
  <2> SUFFICES ASSUME IInv
               PROVE  OwnDataOnly
    OBVIOUS
  <2>1. TypeOK
    <3>1. ASSUME NEW t \in Tabs, NEW kind
          PROVE  Waiting(t, kind) # {} <=> \E f \in flights : f.tab = t /\ f.kind = kind
      BY DEF Waiting, Of
    <3>2. ASSUME NEW t \in Tabs, tab[t].status = "closed"
          PROVE  tab[t] = ClosedTab /\ Of(t) = {}
      BY <3>2 DEF IInv, Engaged, Of
    <3>3. ASSUME NEW t \in Tabs
          PROVE  tab[t].status = "checking" <=> Waiting(t, "startup") # {}
      BY <3>1 DEF IInv, Engaged
    <3>4. ASSUME NEW t \in Tabs
          PROVE  tab[t].entering \in {"login", "me"} <=> Waiting(t, tab[t].entering) # {}
      <4>1. ASSUME tab[t].entering \notin {"login", "me"}
            PROVE  \A f \in flights : f.kind # tab[t].entering
        BY <4>1, TabFields DEF IInv, TypesOK, Flight, Kinds
      <4> QED BY <3>1, <4>1 DEF IInv, Engaged
    <3> QED BY <3>2, <3>3, <3>4 DEF IInv, TypesOK, TypeOK
  <2>2. ASSUME ~shared, NEW t \in Tabs, Authed(t)
        PROVE  tab[t].cache \subseteq {tab[t].me} /\ filter \in {Nobody, tab[t].me}
    <3>1. OneUser /\ tab[t].me # Nobody
      BY <2>2 DEF IInv, Own, Emptied
    <3>2. tab[t].me \in Users
      BY <3>1, TabFields DEF IInv, TypesOK, Anybody
    <3>3. tab[t].me \in Present
      BY <3>2 DEF Present
    <3> QED BY <2>2, <3>1, <3>3 DEF OneUser
  <2> QED BY <2>1, <2>2 DEF OwnDataOnly
<1> QED BY <1>1, InvariantHolds, PTL
=============================================================================
