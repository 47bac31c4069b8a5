---------------------------- MODULE EgressAlerts ----------------------------
(***************************************************************************)
(* Watching the way out to the tax authority.  A probe (every quarter of   *)
(* an hour) asks for the public page, a canary (every hour) tries a login  *)
(* that must be refused in the known way; each keeps a small state in a    *)
(* Durable Object and tells one human over Telegram, with several ways to  *)
(* go wrong between telling and remembering that one has told.  The        *)
(* probe's last verdict is also the gate of the crons and of the queue,    *)
(* whose put-back messages DeltaSync follows.                              *)
(*                                                                         *)
(* A tick asks, loads, tells and saves.  Ticks of one cron do not overlap  *)
(* and nobody else writes the state, so a tick is one step here; one that  *)
(* is cut off after telling is a variant of the step which saves nothing.  *)
(***************************************************************************)
EXTENDS Naturals

CONSTANTS Noise,     \* bound: the passing troubles of the line
          MaxFaults  \* bound: ticks cut off, answers of Telegram lost

ASSUME AlertsAssumption ==
  /\ MaxFaults \in Nat
  /\ Noise \subseteq {"busy", "server error", "no network", "timeout"}

VARIABLES
  portal,  \* the tax authority: fine, loginBlocked, blocked or changed
  bell,    \* Telegram can be reached and takes messages
  health,  \* what the probe keeps
  canary,  \* what the canary keeps
  faults,  \* faults so far
  rung,    \* bookkeeping: alarms of the probe heard since its last good tick
  heard,   \* bookkeeping: what the canary last made the operator believe
  alarms,  \* bookkeeping: alarms of the canary since its last good tick
  slip     \* bookkeeping: how belief and memory of the canary fell apart

probeVars == <<health, rung>>
canaryVars == <<canary, heard, alarms, slip>>
alertVars == <<portal, bell, faults, probeVars, canaryVars>>

Streak == 3   \* BAD_STREAK_THRESHOLD, CANARY_BAD_STREAK_THRESHOLD
OneMore(n) == IF n < Streak THEN n + 1 ELSE n   \* counted up to the threshold

-----------------------------------------------------------------------------
(***************************************************************************)
(* What the portal answers and how it is read.                             *)
(***************************************************************************)
PublicPage ==
  CASE portal = "blocked" -> {"forbidden", "waf page"} \cup Noise
    [] OTHER -> {"page"} \cup Noise

\* The probe has no time limit of its own: whatever it throws is an ERROR.
Classify(answer) ==
  CASE answer = "waf page" -> "WAF_BLOCKED"
    [] answer = "forbidden" -> "GEO_BLOCKED"
    [] answer = "busy" -> "RATE_LIMITED"
    [] answer = "page" -> "OK"
    [] OTHER -> "ERROR"

Captcha ==
  CASE portal = "blocked" -> {"forbidden", "waf page"} \cup Noise
    [] portal = "changed" -> {"captcha", "other shape"} \cup Noise
    [] OTHER -> {"captcha"} \cup Noise

Login ==
  CASE portal = "fine" -> {"wrong captcha"} \cup Noise
    [] portal = "changed" -> {"other refusal", "token", "other shape"} \cup Noise
    [] OTHER -> {"forbidden", "waf page"} \cup Noise

\* A refused captcha is an ERROR whatever page refuses it; a login refused
\* in any way but the two known ones is DRIFT, a busy server's included.
CanaryVerdict(captcha, login) ==
  CASE captcha = "other shape" -> "DRIFT"
    [] captcha = "timeout" -> "TIMEOUT"
    [] captcha \notin {"captcha", "other shape", "timeout"} -> "ERROR"
    [] captcha = "captcha" /\ login = "wrong captcha" -> "OK"
    [] captcha = "captcha" /\ login = "waf page" -> "WAF_BLOCKED"
    [] captcha = "captcha" /\ login = "timeout" -> "TIMEOUT"
    [] captcha = "captcha" /\ login = "no network" -> "ERROR"
    [] OTHER -> "DRIFT"

ProbeVerdicts == {Classify(answer) : answer \in PublicPage}
CanaryVerdicts == {CanaryVerdict(captcha, login) : captcha \in Captcha, login \in Login}

(* A message is refused, or taken; and an answer that comes too late looks *)
(* like a refusal though the human has the message.                        *)
Ring == IF ~bell THEN {"refused"}
        ELSE IF faults < MaxFaults THEN {"taken", "late"} ELSE {"taken"}
Cut == IF faults < MaxFaults THEN {FALSE, TRUE} ELSE {FALSE}
Count(ringing, cut) == IF ringing = "late" \/ cut THEN faults + 1 ELSE faults
Reached(ringing) == ringing \in {"taken", "late"}
Delivered(ringing) == ringing \in {"taken", "quiet"}

-----------------------------------------------------------------------------
(***************************************************************************)
(* The probe: an alarm at the third bad verdict in a row, and none more    *)
(* until a good one.  It tells nobody of the recovery.                     *)
(***************************************************************************)
Healthy == [bad |-> 0, alerted |-> FALSE, verdict |-> "none"]

NextHealth(prev, verdict) ==
  LET bad == OneMore(prev.bad)
      alert == bad >= Streak /\ ~prev.alerted
  IN IF verdict = "OK" THEN [state |-> Healthy, alert |-> FALSE]
     ELSE [state |-> [bad |-> bad, alerted |-> prev.alerted \/ alert,
                      verdict |-> verdict],
           alert |-> alert]

ProbeRings(step) == IF step.alert THEN Ring ELSE {"quiet"}

\* Mutant of SavedHealth: what was not delivered counts as told.
SavedHealth_Optimist(step, ringing) == step.state

(* Only what was delivered is remembered as told. *)
SavedHealth(step, ringing) ==
  IF Delivered(ringing) THEN step.state ELSE [step.state EXCEPT !.alerted = FALSE]

Probe ==
  \E verdict \in ProbeVerdicts, cut \in Cut :
    LET step == NextHealth(health, verdict) IN
    \E ringing \in ProbeRings(step) :
      /\ ~(cut /\ ringing = "late")
      /\ faults' = Count(ringing, cut)
      /\ health' = IF cut THEN health ELSE SavedHealth(step, ringing)
      /\ rung' = IF step.state = Healthy /\ ~cut THEN 0
                 ELSE IF Reached(ringing) THEN rung + 1 ELSE rung
      /\ UNCHANGED <<portal, bell, canaryVars>>

-----------------------------------------------------------------------------
(***************************************************************************)
(* The canary: a blockade and a drift are told at once, noise at the third *)
(* tick, one alarm for a bad period, then the recovery; and a first        *)
(* greeting that proves the bell.                                          *)
(***************************************************************************)
HealthyCanary == [verdict |-> "none", bad |-> 0, alerted |-> FALSE, daChao |-> FALSE]

GoodTick(prev) ==
  [state |-> [verdict |-> "OK", bad |-> 0, alerted |-> FALSE, daChao |-> TRUE],
   kind |-> IF prev.alerted THEN "hoi_phuc"
            ELSE IF ~prev.daChao THEN "bat_giam_sat" ELSE "none"]

BadKind(verdict, bad) ==
  CASE verdict = "WAF_BLOCKED" -> "chan"
    [] verdict = "DRIFT" -> "drift"
    [] OTHER -> IF bad >= Streak THEN "loi_lien_tiep" ELSE "none"

\* Mutant of BadTick: every definite verdict of a bad period is told.
BadTick_Nagging(prev, verdict) ==
  LET bad == OneMore(prev.bad)
      kind == BadKind(verdict, bad)
  IN [state |-> [prev EXCEPT !.verdict = verdict, !.bad = bad,
                             !.alerted = @ \/ kind # "none"],
      kind |-> kind]

\* An alarm told is a reason for silence in the same bad period only.
BadTick(prev, verdict) ==
  LET bad == OneMore(prev.bad)
      daBao == prev.alerted /\ prev.verdict # "OK"
      kind == IF daBao THEN "none" ELSE BadKind(verdict, bad)
  IN [state |-> [prev EXCEPT !.verdict = verdict, !.bad = bad,
                             !.alerted = daBao \/ kind # "none"],
      kind |-> kind]

NextCanaryHealth(prev, verdict) ==
  IF verdict = "OK" THEN GoodTick(prev) ELSE BadTick(prev, verdict)

\* Mutant of Undelivered: a recovery nobody heard of is forgotten.
Undelivered_Forgets(step, prev) ==
  CASE step.kind = "bat_giam_sat" -> [step.state EXCEPT !.daChao = FALSE]
    [] OTHER -> [step.state EXCEPT !.alerted = FALSE]

(* trangThaiKhiGiaoHong: what is kept so that the next tick tells again. *)
Undelivered(step, prev) ==
  CASE step.kind = "bat_giam_sat" -> [step.state EXCEPT !.daChao = FALSE]
    [] step.kind = "hoi_phuc" -> [step.state EXCEPT !.alerted = TRUE,
                                                    !.daChao = prev.daChao]
    [] OTHER -> [step.state EXCEPT !.alerted = FALSE]

CanaryRings(step) == IF step.kind = "none" THEN {"quiet"} ELSE Ring

\* Mutant of SavedCanary: what was not delivered counts as told.
SavedCanary_Optimist(step, ringing) == step.state

SavedCanary(step, ringing) ==
  IF Delivered(ringing) THEN step.state ELSE Undelivered(step, canary)

Alarm(kind) == kind \in {"chan", "drift", "loi_lien_tiep"}

(* Bookkeeping: what a human who heard the last message believes, and the  *)
(* ways in which the stored state stops to agree with it.                  *)
Heard(kind, ringing) ==
  IF ~Reached(ringing) THEN heard ELSE IF Alarm(kind) THEN "bad" ELSE "fine"

Slip(kind, ringing, cut) ==
  IF kind = "hoi_phuc" /\ cut /\ Reached(ringing) THEN "recovery unsaved"
  ELSE IF Alarm(kind) /\ Reached(ringing) /\ (cut \/ ringing = "late") THEN "alarm unsaved"
  ELSE IF ~cut /\ canary.alerted /\ canary.verdict = "OK" /\ ~canary'.alerted
            /\ heard' = "bad" THEN "recovery forgotten"
  ELSE IF ~cut /\ ringing = "taken" THEN "none"
  ELSE slip

Canary ==
  \E verdict \in CanaryVerdicts, cut \in Cut :
    LET step == NextCanaryHealth(canary, verdict) IN
    \E ringing \in CanaryRings(step) :
      /\ ~(cut /\ ringing = "late")
      /\ faults' = Count(ringing, cut)
      /\ canary' = IF cut THEN canary ELSE SavedCanary(step, ringing)
      /\ heard' = Heard(step.kind, ringing)
      /\ alarms' = IF step.state.verdict = "OK" /\ ~cut THEN 0
                   ELSE IF Alarm(step.kind) /\ Reached(ringing) THEN alarms + 1
                   ELSE alarms
      /\ slip' = Slip(step.kind, ringing, cut)
      /\ UNCHANGED <<portal, bell, probeVars>>

-----------------------------------------------------------------------------
Weather ==
  /\ portal' \in {"fine", "loginBlocked", "blocked", "changed"}
  /\ bell' \in BOOLEAN
  /\ UNCHANGED <<faults, probeVars, canaryVars>>

AlertsInit ==
  /\ portal = "fine"
  /\ bell = TRUE
  /\ health = Healthy
  /\ canary = HealthyCanary
  /\ faults = 0
  /\ rung = 0
  /\ heard = "nothing"
  /\ alarms = 0
  /\ slip = "none"

AlertsNext ==
  \/ Weather
  \/ Probe
  \/ Canary

(* The crons come again. *)
AlertsFairness == WF_alertVars(Probe) /\ WF_alertVars(Canary)

AlertsSpec == AlertsInit /\ [][AlertsNext]_alertVars /\ AlertsFairness

-----------------------------------------------------------------------------
(***************************************************************************)
(* Properties.                                                             *)
(***************************************************************************)
(* The stored states, the messages, and the bookkeeping. *)
AlertsOK ==
  /\ health \in [bad : 0..Streak, alerted : BOOLEAN,
                 verdict : {"none", "GEO_BLOCKED", "WAF_BLOCKED", "RATE_LIMITED",
                            "ERROR"}]
  /\ canary \in [bad : 0..Streak, alerted : BOOLEAN, daChao : BOOLEAN,
                 verdict : {"none", "OK", "WAF_BLOCKED", "DRIFT", "TIMEOUT", "ERROR"}]
  /\ heard \in {"nothing", "fine", "bad"}
  /\ slip \in {"none", "alarm unsaved", "recovery unsaved", "recovery forgotten"}

(* Nobody is kept quiet without having been told: the mark that stops a    *)
(* second alarm stands only where the operator's last news of this bad     *)
(* period is that alarm - except after a tick that told of the recovery    *)
(* and died before it saved, from which a new blockade stays unannounced.  *)
SilenceIsInformed ==
  /\ health.alerted => rung > 0
  /\ canary.alerted /\ canary.verdict # "OK" =>
       heard = "bad" \/ slip = "recovery unsaved"

(* An operator who last heard that the portal is bad will hear of the      *)
(* recovery, for the stored mark that calls for it stands - except after   *)
(* an alarm that reached the operator without being saved as told, and     *)
(* after a lost recovery message followed by a noisy tick or by an alarm   *)
(* that is lost as well.                                                   *)
BadNewsIsRemembered ==
  heard = "bad" => canary.alerted \/ slip \in {"alarm unsaved", "recovery forgotten"}

(* One bad period is told once: each repetition has a fault of its own.    *)
ToldOnce == rung <= 1 + faults /\ alarms <= 1 + faults

(* A portal that goes bad in whatever way and stays so, with a Telegram    *)
(* that works, is known to the operator for good; a blockade of the public *)
(* page also from the probe.                                               *)
IncidentIsTold ==
  /\ <>[](portal # "fine" /\ bell) => <>[](heard = "bad" \/ slip = "recovery unsaved")
  /\ <>[](portal = "blocked" /\ bell) => <>[](rung > 0)

(* Probe and canary are well-formed, and nag no more than their faults     *)
(* make them (runEgressProbe, runCanary).                                  *)
ToldInv == AlertsOK /\ ToldOnce
=============================================================================
