------------------------------ MODULE MCRuntime ------------------------------
(***************************************************************************)
(* The instance of Runtime that TLC checks, and two sentences of the       *)
(* repository's documentation that the runtime does not keep.              *)
(***************************************************************************)
EXTENDS Runtime, RetryPolicy

\* crates/backend-core/src/types.rs:17 calls Syncing "Backend sync loop is
\* running."  A task that ended on an error, or a logout that failed after
\* stopping it, leaves Syncing without one.
SyncingMeansRunning ==
    lifecycle = "Syncing" /\ pc = "idle" => slot /\ sync # "off"

\* README.md: "Remember password" controls whether session restore is
\* persisted.  A login excused by an existing session skips
\* finalize_successful_password_login and with it the choice.
RememberHonoured ==
    /\ lifecycle \in AuthenticatedContext /\ pc = "idle" /\ request # None
    /\ ~request.persist
    => keyring[initState] = None
\* delay_for_attempt against its reference, attempt by attempt.
ASSUME DelaysDouble ==
    \A a \in 0..30, hint \in {NoHint, 0, 1, MaxDelay - 1, MaxDelay, WordMax} :
        DelayDoubles(a, hint)
==============================================================================
