---------------------------- MODULE StateMachine ----------------------------
(***************************************************************************)
(* BackendStateMachine (crates/backend-core/src/state_machine.rs): the     *)
(* lifecycle a command may start from and where it leads.  The machine has *)
(* no other state, so it is a pair of operators.  The runtime clones it,   *)
(* applies the command to the clone and stores the clone only when the     *)
(* work succeeded, hence `Accepts' and `Target' are used apart.            *)
(***************************************************************************)

LifecycleStates ==
    {"Cold", "Configured", "Authenticating", "Authenticated", "Syncing",
     "LoggedOut", "Fatal"}

\* The room, timeline, media and recovery commands share one arm of `apply'.
\* They differ in the runtime: two fetch a page of history, most are answered
\* by an ack with the frontend's transaction id, the rest (ListRooms,
\* RedactMessage, GetRecoveryStatus) are not.
RoomCommands == {"OpenRoom", "PaginateBack", "AckedRequest", "PlainRequest"}

Commands ==
    {"Init", "LoginPassword", "RestoreSession", "StartSync", "StopSync", "Logout"}
        \cup RoomCommands

AuthCommands == {"LoginPassword", "RestoreSession"}

\* is_authenticated_context
AuthenticatedContext == {"Authenticated", "Syncing"}

\* The states `apply' takes the command from; elsewhere it is
\* invalid_state_transition and the state stays.
Sources(command) ==
    CASE command = "Init" -> {"Cold", "Configured", "LoggedOut"}
      [] command \in AuthCommands -> {"Configured", "LoggedOut"}
      [] command = "StartSync" -> {"Authenticated"}
      [] command = "StopSync" -> {"Syncing"}
      [] command = "Logout" ->
           {"Configured", "Authenticating", "Authenticated", "Syncing"}
      [] OTHER -> AuthenticatedContext

Accepts(state, command) == state \in Sources(command)

\* The state `apply' moves to; room commands stay where they are.
Target(state, command) ==
    CASE command = "Init" -> "Configured"
      [] command \in AuthCommands -> "Authenticating"
      [] command = "StartSync" -> "Syncing"
      [] command = "StopSync" -> "Authenticated"
      [] command = "Logout" -> "LoggedOut"
      [] OTHER -> state

\* on_auth_result, from Authenticating only (finish_auth ignores its refusal
\* anywhere else and the state stays).
AfterAuth(state, success) ==
    IF state # "Authenticating" THEN state
    ELSE IF success THEN "Authenticated" ELSE "Configured"
=============================================================================
