----------------------------- MODULE RetryPolicy -----------------------------
(***************************************************************************)
(* What the backend does after a request failed: the category of the error *)
(* (backend-core error.rs, backend-matrix map_matrix_error), whether the   *)
(* sync loop goes on, and how long it and a login wait before they ask     *)
(* again (backend-core retry.rs, backend-matrix login_password_with_retry).*)
(* Pure functions: module Runtime has the loops that use them.             *)
(***************************************************************************)
EXTENDS Integers

CONSTANTS BaseDelay,    \* base_delay_ms, 500 by default
          MaxDelay,     \* max_delay_ms, 30000 by default
          WordMax,      \* the largest u64
          DefaultWait,  \* what a rate-limited login waits without a hint, 2000
          LeastWait     \* and at least, 250

ASSUME RetryAssumption ==
    /\ {BaseDelay, MaxDelay, DefaultWait, LeastWait} \subseteq 1..WordMax
    /\ WordMax \in Nat

\* A duration in milliseconds, and the hint of a server, which may be none: not the
\* same as a hint of 0.
Durations == 0..WordMax
NoHint == -1
Hints == Durations \cup {NoHint}
HintOr(default, hint) == IF hint = NoHint THEN default ELSE hint
AtLeast(x, y) == IF x < y THEN y ELSE x
AtMost(x, y) == IF x > y THEN y ELSE x

-----------------------------------------------------------------------------
(* Errors.                                                                 *)

Categories == {"Config", "Auth", "Network", "RateLimited", "Crypto", "Storage",
               "Serialization", "Internal"}

ClassifyHttpStatus(status) ==
    CASE status \in {401, 403} -> "Auth"
      [] status \in {408, 429} -> "RateLimited"
      [] status \in 400..499 \ {401, 403, 408, 429} -> "Config"
      [] status \in 500..599 -> "Network"
      [] OTHER -> "Internal"

\* An SDK error: an answer of the server with its status and, for
\* M_LIMIT_EXCEEDED, its Retry-After; or one of the other classes.
SdkErrors ==
    [class : {"http"}, status : Nat, hint : Hints]
    \cup [class : {"transport", "unauthenticated", "crypto", "store", "json", "other"},
          status : {0}, hint : {NoHint}]

MapMatrixError(error) ==
    [category |->
        CASE error.class = "http" -> ClassifyHttpStatus(error.status)
          [] error.class = "transport" -> "Network"
          [] error.class = "unauthenticated" -> "Auth"
          [] error.class = "crypto" -> "Crypto"
          [] error.class = "store" -> "Storage"
          [] error.class = "json" -> "Serialization"
          [] error.class = "other" -> "Internal",
     hint |-> error.hint]

IsRecoverableSyncError(mapped) == mapped.category \in {"Network", "RateLimited"}

-----------------------------------------------------------------------------
(* Delays.                                                                 *)

\* 1 << shift, for shifts up to 20.
PowersOfTwo ==
    <<1, 2, 4, 8, 16, 32, 64, 128, 256, 512, 1024, 2048, 4096, 8192, 16384, 32768,
      65536, 131072, 262144, 524288, 1048576>>
Multiplier(attempt) == PowersOfTwo[AtMost(attempt, 20) + 1]

\* saturating_mul
Calculated(attempt) == AtMost(BaseDelay * Multiplier(attempt), WordMax)

DelayForAttempt(attempt, hint) ==
    AtMost(AtLeast(Calculated(attempt), HintOr(0, hint)), MaxDelay)

\* The sync loop: attempts are counted from 0 since the last response.
SyncWait(attempt, error) == DelayForAttempt(attempt, MapMatrixError(error).hint)

\* A rate-limited login: a hint of 0 waits for LeastWait, none for DefaultWait.
LoginWait(hint) == AtLeast(HintOr(DefaultWait, hint), LeastWait)

\* What retry.rs computes, said without powers: a delay doubled once per failure,
\* 20 times at most, and cut to the largest number at each step.
Doubled[a \in 0..20] == IF a = 0 THEN BaseDelay ELSE AtMost(2 * Doubled[a - 1], WordMax)
DelayDoubles(attempt, hint) ==
    DelayForAttempt(attempt, hint)
        = AtMost(AtLeast(Doubled[AtMost(attempt, 20)], HintOr(0, hint)), MaxDelay)
=============================================================================
