----------------------------- MODULE RunLedger -----------------------------
(***************************************************************************)
(* What the table of runs (lan_dong_bo, loai = 'sync') promises its readers*)
(* - the guard against double chains, the list of background tasks and the *)
(* history of one scope - with queue, workers and failures left out:       *)
(*                                                                         *)
(*  - a run is opened once and is "running" from then until it is closed;  *)
(*  - of the runs young enough to count, at most MaxChains are running;    *)
(*  - a run gets a version number when, and only when, it is closed as     *)
(*    completed, and keeps it;                                             *)
(*  - a closed run may be closed anew with another verdict (a duplicated   *)
(*    or played-back message still carries it) but never runs again.       *)
(***************************************************************************)
EXTENDS Integers, FiniteSets

CONSTANTS Runs, MaxChains

VARIABLES status, fresh, numbered

vars == <<status, fresh, numbered>>

Closed == {"completed", "failed", "reauth"}
Running == {r \in fresh : status[r] = "running"}

Init ==
    /\ status = [r \in Runs |-> "none"]
    /\ fresh = {}
    /\ numbered = {}

Open(r) ==
    /\ status[r] = "none"
    /\ Cardinality(Running) < MaxChains
    /\ status' = [status EXCEPT ![r] = "running"]
    /\ fresh' = fresh \cup {r}
    /\ UNCHANGED numbered

Close(r, as) ==
    /\ status[r] # "none"
    /\ status' = [status EXCEPT ![r] = as]
    /\ numbered' = IF as = "completed" THEN numbered \cup {r} ELSE numbered
    /\ UNCHANGED fresh

GrowOld(r) ==
    /\ fresh' = fresh \ {r}
    /\ UNCHANGED <<status, numbered>>

Next ==
    \E r \in Runs :
        \/ Open(r)
        \/ \E as \in Closed : Close(r, as)
        \/ GrowOld(r)

Spec == Init /\ [][Next]_vars
=============================================================================
