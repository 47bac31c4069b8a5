------------------------------ MODULE Settings ------------------------------
(***************************************************************************)
(* Numbers from outside: the variables of a deployment, the quotas and     *)
(* limits an administrator stores, and GDT's Retry-After.  Whatever they   *)
(* say, the limiter keeps limiting, a chain of pulls gets on and a quota   *)
(* stays between its bounds.                                               *)
(*                                                                         *)
(* A text is what it reads as: [number, prefix], what Number and parseInt  *)
(* make of it, each a set that is empty when they make nothing of it.      *)
(* Numbers are counted in halves, since some are rounded.                  *)
(***************************************************************************)
EXTENDS Integers

Nothing == [number |-> {}, prefix |-> {}]      \* missing, empty or no number
Read(found, fallback) == IF found = {} THEN fallback ELSE CHOOSE n \in found : TRUE
Halves(n) == 2 * n
Round(h) == (h + 1) \div 2

ParseNonNegInt(s, dflt) == Read({n \in s.prefix : n >= 0}, dflt)
PositiveOr(raw, fallback) == Read({h \in raw.number : h > 0}, fallback)
ParseFinite(raw) == raw.number
ClampTo(n, min, max) == IF n < min THEN min ELSE IF n > max THEN max ELSE n

(* A fallback is clamped as well: it is no way around the bounds.          *)
ClampInt(raw, min, max, fallback) ==
  Round(ClampTo(Read(ParseFinite(raw), Halves(fallback)), Halves(min), Halves(max)))

(* The variables of the sync worker.                                       *)
DEFAULT_LIMITER_CONFIG ==
  [capacity |-> Halves(10), refillPerSec |-> Halves(2),
   failureThreshold |-> Halves(5), cooldownMs |-> Halves(60000)]
ResolveLimiterConfig(env) ==
  [k \in DOMAIN DEFAULT_LIMITER_CONFIG |-> PositiveOr(env[k], DEFAULT_LIMITER_CONFIG[k])]

DEFAULT_FANOUT == [jitterSpreadSeconds |-> 300, backpressureDelaySeconds |-> 300,
                   maxBackpressure |-> 10]
ResolveFanoutConfig(env) ==
  [k \in DOMAIN DEFAULT_FANOUT |-> ParseNonNegInt(env[k], DEFAULT_FANOUT[k])]

DEFAULT_SYNC_RETRY == [minIntervalMs |-> 500, backoffMs |-> 3000]
ResolveSyncRetryConfig(env) ==
  [k \in DOMAIN DEFAULT_SYNC_RETRY |-> ParseNonNegInt(env[k], DEFAULT_SYNC_RETRY[k])]

(* A lot of no pages would be sent again for ever.                         *)
DEFAULT_DELTA_CHUNK_PAGES == 40
ResolveDeltaChunkPages(env) ==
  LET n == ParseNonNegInt(env, DEFAULT_DELTA_CHUNK_PAGES) IN IF n < 1 THEN 1 ELSE n

(* Quotas of a package: no row, or a database that fails, is the free one. *)
HAN_MUC_MAC_DINH ==
  [soMstToiDa |-> 1, ghInvoicesMoiPhut |-> 120, ghExportsMoiPhut |-> 20,
   ghReconcileMoiPhut |-> 20]
BIEN == [k \in DOMAIN HAN_MUC_MAC_DINH |->
           IF k = "soMstToiDa" THEN [min |-> 1, max |-> 1000] ELSE [min |-> 1, max |-> 10000]]
DocHanMucGoi(rows) ==
  IF rows = {} THEN HAN_MUC_MAC_DINH
  ELSE LET row == CHOOSE r \in rows : TRUE
       IN [k \in DOMAIN BIEN |->
             ClampInt(row[k], BIEN[k].min, BIEN[k].max, HAN_MUC_MAC_DINH[k])]

(* A limit for everybody: from the database if it is a number there, else  *)
(* from the environment, else the default.                                 *)
DocCauHinhToanCuc(thoDb, env, bien, macDinh) ==
  ClampInt(IF ParseFinite(thoDb) # {} THEN thoDb ELSE env, bien.min, bien.max, macDinh)

(* Retry-After is in seconds or a date, which may have passed; a 429 waits *)
(* so long or twice as long as before, but not over the ceiling.           *)
RetryAfterMs(header, now) ==
  IF header.seconds # {} THEN {1000 * s : s \in header.seconds}
  ELSE {IF t > now THEN t - now ELSE 0 : t \in header.date}
RateLimitedWait(header, now, attempt, retry) ==
  LET ms == Read(RetryAfterMs(header, now), retry.backoffMs * 2 ^ (attempt - 1))
  IN IF ms < retry.maxBackoffMs THEN ms ELSE retry.maxBackoffMs

-----------------------------------------------------------------------------
Texts == {Nothing} \cup
           {[number |-> {h}, prefix |-> {h \div 2}] : h \in {-3, 0, 1, 5, 80, 30001, 900000}}
           \cup {[number |-> {}, prefix |-> {p}] : p \in {-1, 0, 7}}    \* "7 pages"

(* No text turns the limiter off or makes it lenient by being wrong, nor   *)
(* stops a chain: the limits stay positive and lots have pages             *)
(* (resolveLimiterConfig, resolveDeltaChunkPages).                         *)
ASSUME VariablesAssumption ==
  \A text \in Texts :
    /\ \A k \in DOMAIN DEFAULT_LIMITER_CONFIG :
         LET n == ResolveLimiterConfig([j \in DOMAIN DEFAULT_LIMITER_CONFIG |-> text])[k]
         IN n > 0 /\ (n # DEFAULT_LIMITER_CONFIG[k] => n \in text.number)
    /\ \A k \in DOMAIN DEFAULT_FANOUT :
         ResolveFanoutConfig([j \in DOMAIN DEFAULT_FANOUT |-> text])[k] >= 0
    /\ ResolveSyncRetryConfig([j \in DOMAIN DEFAULT_SYNC_RETRY |-> text]).backoffMs >= 0
    /\ ResolveDeltaChunkPages(text) >= 1

(* A quota or limit is between its bounds whatever was stored, whether it  *)
(* was found or not, and a default that is out of bounds is too; a stored  *)
(* text that is no number never hides the environment's (docHanMucGoi,     *)
(* docCauHinhToanCuc).                                                     *)
ASSUME QuotasAssumption ==
  /\ \A text \in Texts, found \in BOOLEAN, k \in DOMAIN BIEN :
       DocHanMucGoi(IF found THEN {[j \in DOMAIN BIEN |-> text]} ELSE {})[k]
         \in BIEN[k].min .. BIEN[k].max
  /\ \A db, env \in Texts, macDinh \in {0, 3, 99} :
       LET n == DocCauHinhToanCuc(db, env, [min |-> 1, max |-> 50], macDinh)
       IN /\ n \in 1 .. 50
          /\ db.number = {} => n = DocCauHinhToanCuc(env, Nothing, [min |-> 1, max |-> 50], macDinh)

(* What GDT asks for is waited for, within the ceiling, and never less     *)
(* than nothing (retryAfterMs, fetchWithRetry).                            *)
ASSUME WaitsAssumption ==
  \A seconds, date \in {{}, {0}, {3}, {9000}}, now \in {0, 5}, attempt \in 1 .. 3 :
    LET header == [seconds |-> seconds, date |-> date]
        ms == RateLimitedWait(header, now, attempt, [backoffMs |-> 3000, maxBackoffMs |-> 30000])
    IN /\ ms \in 0 .. 30000
       /\ \A s \in seconds : s <= 30 => ms = 1000 * s
=============================================================================
