----------------------------- MODULE WebSession -----------------------------
(***************************************************************************)
(* The session as the tabs of one browser see it.  The cookie is HttpOnly: *)
(* a page cannot read it, only ask the server who it is.  The tabs share   *)
(* the cookie and the filter in localStorage; each has a cache of its own, *)
(* that must not outlive the session it was filled in: the machine may be  *)
(* shared by people of different tenants.                                  *)
(*                                                                         *)
(* A request carries the cookie of the moment it is sent; its answer comes *)
(* later, in any order with the others, or not at all.                     *)
(***************************************************************************)
EXTENDS Naturals, FiniteSets

CONSTANTS Tabs, Users,   \* a user per tenant
          Nobody,
          MaxRequests    \* bound: requests a tab has under way

ASSUME WebAssumption ==
  /\ IsFiniteSet(Tabs) /\ IsFiniteSet(Users)
  /\ Nobody \notin Users
  /\ MaxRequests \in Nat \ {0}

Anybody == Users \cup {Nobody}

VARIABLES
  cookie,    \* whose session the cookie names
  filter,    \* who left a filter in localStorage
  tab,       \* AuthProvider and query cache of each tab
  flights,   \* requests under way
  shared     \* history: sessions of two users have overlapped in the tabs

vars == <<cookie, filter, tab, flights, shared>>

Status == {"closed", "checking", "anon", "authed"}
Tab == [status : Status,
        me : Anybody,              \* whom the session was opened as
        entering : {"no", "login", "asking", "me"},
        cache : SUBSET Users]      \* whose data queries have brought

Kinds == {"startup", "login", "me", "logout", "data"}
Flight == [tab : Tabs, kind : Kinds, as : Anybody]

ClosedTab == [status |-> "closed", me |-> Nobody, entering |-> "no", cache |-> {}]

Of(t) == {f \in flights : f.tab = t}
Waiting(t, kind) == {f \in Of(t) : f.kind = kind}
Asks(t, kind, as) == [tab |-> t, kind |-> kind, as |-> as]

-----------------------------------------------------------------------------
\* Mutant of Cut: the queries are emptied, but their answers still land.
Cut_KeepsQueries(t, F) == F

(* queryClient.clear(): the data the tab's queries still bring go nowhere. *)
(* A query without a session is left: its 401 is heard all the same.       *)
Cut(t, F) == {f \in F : f.tab = t /\ f.kind = "data" => f.as = Nobody}

\* The end of a session in this tab: name, cache and filter go.
Anonymous(r) == [r EXCEPT !.status = "anon", !.me = Nobody, !.cache = {}]

(* Any 401 throws the tab out, whichever session its request belonged to.  *)
Unauthorized(t, f, entering) ==
  /\ tab' = [tab EXCEPT ![t] = [Anonymous(@) EXCEPT !.entering = entering]]
  /\ filter' = Nobody
  /\ flights' = Cut(t, flights \ {f})
  /\ UNCHANGED cookie

-----------------------------------------------------------------------------
(* A tab is opened, closed or (both in turn) loaded again. *)
OpenTab(t) ==
  /\ tab[t].status = "closed"
  /\ tab' = [tab EXCEPT ![t] = [ClosedTab EXCEPT !.status = "checking"]]
  /\ flights' = flights \cup {Asks(t, "startup", cookie)}
  /\ UNCHANGED <<cookie, filter>>

CloseTab(t) ==
  /\ tab[t].status # "closed"
  /\ tab' = [tab EXCEPT ![t] = ClosedTab]
  /\ flights' = flights \ Of(t)
  /\ UNCHANGED <<cookie, filter>>

StartupAnswered(t) ==
  \E f \in Waiting(t, "startup") :
    /\ f.as # Nobody
    /\ tab' = [tab EXCEPT ![t].status = "authed", ![t].me = f.as]
    /\ flights' = flights \ {f}
    /\ UNCHANGED <<cookie, filter>>

\* Mutant of StartupFails: only a 401 ends the waiting.
StartupFails_Only401(t) ==
  \E f \in Waiting(t, "startup") :
    \/ f.as = Nobody /\ Unauthorized(t, f, "no")
    \/ flights' = flights \ {f} /\ UNCHANGED <<cookie, filter, tab>>

(* A 401, a server error or no network: the filter of the last session     *)
(* goes, and the page stops waiting.                                       *)
StartupFails(t) ==
  \E f \in Waiting(t, "startup") :
    /\ tab' = [tab EXCEPT ![t] = Anonymous(@)]
    /\ filter' = Nobody
    /\ flights' = flights \ {f}
    /\ UNCHANGED cookie

-----------------------------------------------------------------------------
(***************************************************************************)
(* Logging in: what is left of the last session goes first, the answer     *)
(* sets the cookie, and who one is now is asked like at the start.         *)
(***************************************************************************)
Login(t, u) ==
  /\ tab[t].status = "anon" /\ tab[t].entering = "no"
  /\ tab' = [tab EXCEPT ![t].entering = "login", ![t].cache = {}]
  /\ filter' = Nobody
  /\ flights' = Cut(t, flights) \cup {Asks(t, "login", u)}
  /\ UNCHANGED cookie

LoginAnswered(t) ==
  \E f \in Waiting(t, "login") :
    /\ cookie' = f.as
    /\ tab' = [tab EXCEPT ![t].entering = "asking"]
    /\ flights' = flights \ {f}
    /\ UNCHANGED filter

AskMe(t) ==
  /\ tab[t].entering = "asking"
  /\ tab' = [tab EXCEPT ![t].entering = "me"]
  /\ flights' = flights \cup {Asks(t, "me", cookie)}
  /\ UNCHANGED <<cookie, filter>>

MeAnswered(t) ==
  \E f \in Waiting(t, "me") :
    /\ f.as # Nobody
    /\ tab' = [tab EXCEPT ![t].status = "authed", ![t].me = f.as,
                          ![t].entering = "no"]
    /\ flights' = flights \ {f}
    /\ UNCHANGED <<cookie, filter>>

(* A wrong password is a 401 like any other; so is a cookie that has gone  *)
(* meanwhile.  Another failure leaves the tab as it is, logged out.        *)
EnteringFails(t) ==
  \E f \in Waiting(t, "login") \cup Waiting(t, "me") :
    \/ /\ f.kind = "login" \/ f.as = Nobody
       /\ Unauthorized(t, f, "no")
    \/ /\ tab' = [tab EXCEPT ![t].status = "anon", ![t].entering = "no"]
       /\ flights' = flights \ {f}
       /\ UNCHANGED <<cookie, filter>>

-----------------------------------------------------------------------------
(* What a page does while it is logged in. *)
Authed(t) == tab[t].status = "authed"
CanAsk(t) == Authed(t) /\ Cardinality(Of(t)) < MaxRequests

Query(t) ==
  /\ CanAsk(t)
  /\ flights' = flights \cup {Asks(t, "data", cookie)}
  /\ UNCHANGED <<cookie, filter, tab>>

QueryAnswered(t) ==
  \E f \in Waiting(t, "data") :
    \/ /\ f.as # Nobody
       /\ tab' = [tab EXCEPT ![t].cache = @ \cup {f.as}]
       /\ flights' = flights \ {f}
       /\ UNCHANGED <<cookie, filter>>
    \/ /\ f.as = Nobody
       /\ Unauthorized(t, f, tab[t].entering)

(* The filter may hold tax codes of the customers one looked for.          *)
SaveFilter(t) ==
  /\ Authed(t)
  /\ filter' = tab[t].me
  /\ UNCHANGED <<cookie, tab, flights>>

(* Nobody waits for the answer to a logout.                                *)
Logout(t) ==
  /\ Authed(t)
  /\ tab' = [tab EXCEPT ![t] = Anonymous(@)]
  /\ filter' = Nobody
  /\ flights' = Cut(t, flights) \cup {Asks(t, "logout", Nobody)}
  /\ UNCHANGED cookie

(* It clears the cookie there is by then.                                  *)
LogoutAnswered(t) ==
  \E f \in Waiting(t, "logout") :
    /\ cookie' = Nobody
    /\ flights' = flights \ {f}
    /\ UNCHANGED <<filter, tab>>

(* The network or the server fails a request that has no state to undo.    *)
RequestFails(t) ==
  \E f \in UNION {Waiting(t, k) : k \in {"data", "logout"}} :
    /\ flights' = flights \ {f}
    /\ UNCHANGED <<cookie, filter, tab>>

(* TOKEN_TTL_SEC is over: cookie and token end together.                   *)
CookieExpires ==
  /\ cookie # Nobody
  /\ cookie' = Nobody
  /\ UNCHANGED <<filter, tab, flights>>

-----------------------------------------------------------------------------
Init ==
  /\ cookie = Nobody /\ filter = Nobody
  /\ tab = [t \in Tabs |-> ClosedTab]
  /\ flights = {} /\ shared = FALSE

StartupEnds(t) == StartupAnswered(t) \/ StartupFails(t)
EnteringGoesOn(t) == LoginAnswered(t) \/ AskMe(t) \/ MeAnswered(t) \/ EnteringFails(t)

TabStep(t) ==
  \/ OpenTab(t) \/ CloseTab(t) \/ StartupEnds(t)
  \/ (\E u \in Users : Login(t, u)) \/ EnteringGoesOn(t)
  \/ Query(t) \/ QueryAnswered(t) \/ SaveFilter(t)
  \/ Logout(t) \/ LogoutAnswered(t) \/ RequestFails(t)

\* Whose session a tab is in, or on its way into.
People(t) ==
  {f.as : f \in {g \in Of(t) : g.kind \in {"startup", "login", "me"}}}
    \cup {tab[t].me} \cup (IF tab[t].entering = "asking" THEN {cookie} ELSE {})

Overlap == Cardinality((UNION {People(t) : t \in Tabs}) \ {Nobody}) > 1
Watch == shared' = (shared \/ Overlap')

Next == ((\E t \in Tabs : TabStep(t)) \/ CookieExpires) /\ Watch

(* The browser ends every request, with an answer or an error.             *)
Fairness ==
  \A t \in Tabs : WF_vars(StartupEnds(t) /\ Watch) /\ WF_vars(EnteringGoesOn(t) /\ Watch)

Spec == Init /\ [][Next]_vars /\ Fairness

-----------------------------------------------------------------------------
TypeOK ==
  /\ cookie \in Anybody /\ filter \in Anybody
  /\ tab \in [Tabs -> Tab]
  /\ flights \subseteq Flight
  /\ shared \in BOOLEAN
  /\ \A t \in Tabs :
       /\ tab[t].status = "closed" => tab[t] = ClosedTab /\ Of(t) = {}
       /\ tab[t].status = "checking" <=> Waiting(t, "startup") # {}
       /\ tab[t].entering \in {"login", "me"} <=> Waiting(t, tab[t].entering) # {}

(* The states are well-formed, and as long as the sessions of two users    *)
(* have not overlapped in the tabs, nobody sees what somebody else left on *)
(* the machine: neither data in a cache, whenever its answer came, nor a   *)
(* filter (auth-context, "do not leak the last tenant's data to the next   *)
(* person on a shared machine").                                           *)
OwnDataOnly ==
  /\ TypeOK
  /\ ~shared =>
       \A t \in Tabs : Authed(t) =>
         /\ tab[t].cache \subseteq {tab[t].me}
         /\ filter \in {Nobody, tab[t].me}

(* A page does not wait for the server for ever, at its start or while one *)
(* logs in, whatever fails (AuthProvider's C9).                            *)
NobodyWaitsForever ==
  \A t \in Tabs :
    /\ tab[t].status = "checking" ~> tab[t].status # "checking"
    /\ tab[t].entering # "no" ~> tab[t].entering = "no"
=============================================================================
