------------------------------- MODULE Runtime -------------------------------
(***************************************************************************)
(* MatrixRuntime (crates/backend-matrix/src/lib.rs) and the sync task of   *)
(* its MatrixBackend.  The runtime takes one command at a time; between    *)
(* two of its awaits the sync task, a thread of its own, may move.  `pc'   *)
(* is the await at which the runtime is suspended, `sync' the one of the   *)
(* sync task.  The matrix SDK, the homeserver and the keyring are external:*)
(* each of their answers is a choice.                                      *)
(***************************************************************************)
EXTENDS StateMachine, Naturals

CONSTANTS Homeservers,     \* homeservers an Init may name
          Users,           \* accounts
          Rooms,           \* rooms
          None,            \* no homeserver, account or request
          MaxLoginRetries  \* rate-limited logins tried again (3 in the code)

\* What a LoginPassword asks for, as far as the runtime keeps it.
LoginRequests == [user : Users, persist : BOOLEAN]

ASSUME RuntimeAssumption ==
    /\ None \notin Homeservers \cup Users \cup LoginRequests
    /\ MaxLoginRetries \in Nat

VARIABLES
    lifecycle,     \* state_machine
    pc,            \* where the runtime is suspended; "idle" waits for a command
    command,       \* the command being handled, or handled last
    request,       \* the last LoginPassword's account and persist_session
    attempt,       \* rate-limited login attempts of this command
    answer,        \* what the command's answer to the frontend has been so far
    backend,       \* is a MatrixBackend installed?
    initState,     \* init_state: the homeserver of the last Init
    client,        \* session() of the installed backend: account or None
    tokens,        \* pagination_tokens
    keyring,       \* persisted session per homeserver; survives a restart
    slot,          \* does the backend's sync_task hold a running task?
    cancelled,     \* has the sync task's stop token been cancelled?
    sync,          \* where the sync task is suspended; "off" without one
    shownRunning   \* the SyncStatus.running announced last

handlerVars == <<lifecycle, pc, command, request, attempt, answer>>
sessionVars == <<backend, initState, client, tokens>>
syncVars == <<slot, cancelled, sync, shownRunning>>
vars == <<handlerVars, sessionVars, keyring, syncVars>>

AuthPcs == {"login", "recover", "retryLogin", "finalize", "restore"}
Pcs == AuthPcs \cup {"idle", "startSync", "stopSync", "logoutStop", "logoutWipe"}
SyncPcs == {"off", "starting", "polling", "processing", "backoff", "exiting"}
Tokens == {"unopened", "end", "more"}
Answers == {"none", "authOk", "authFailed", "ack", "fatal", "twice"}
Unopened == [r \in Rooms |-> "unopened"]

Init ==
    /\ lifecycle = "Cold" /\ pc = "idle" /\ command = "none"
    /\ request = None /\ attempt = 0 /\ answer = "none"
    /\ backend = FALSE /\ initState = None /\ client = None
    /\ tokens = Unopened
    /\ keyring = [h \in Homeservers |-> None]
    /\ slot = FALSE /\ cancelled = FALSE /\ sync = "off" /\ shownRunning = FALSE

-----------------------------------------------------------------------------
(* Taking a command, answering it.                                         *)

\* The command is handled without an await that matters: taken, answered and
\* done in this step.
Handled(c, a) ==
    /\ pc = "idle"
    /\ command' = c /\ answer' = a
    /\ UNCHANGED <<pc, attempt>>

\* The handler of c starts and is suspended at `to'.
Begin(c, to) ==
    /\ pc = "idle" /\ pc' = to
    /\ command' = c /\ answer' = "none" /\ attempt' = 0

\* The suspended handler emits its answer and returns.
Return(a) ==
    /\ pc' = "idle"
    /\ answer' = IF answer = "none" THEN a ELSE "twice"
    /\ UNCHANGED <<command, request>>

\* finish_auth
FinishAuth(success) ==
    /\ lifecycle' = AfterAuth(lifecycle, success)
    /\ Return(IF success THEN "authOk" ELSE "authFailed")
    /\ attempt' = 0

\* The answer of a command whose transition or backend is refused:
\* emit_auth_failure, the acks with an error code, FatalError for the rest.
Refusal(c) ==
    CASE c \in AuthCommands -> "authFailed"
      [] c = "AckedRequest" -> "ack"
      [] OTHER -> "fatal"

CommandRefused(c) ==
    /\ ~Accepts(lifecycle, c)
    /\ Handled(c, Refusal(c))
    /\ UNCHANGED <<lifecycle, request, sessionVars, keyring, syncVars>>

-----------------------------------------------------------------------------
(* Init                                                                    *)

\* A new MatrixBackend, with a client without session and an empty sync slot,
\* takes the place of the old one.
InitSucceeds(h) ==
    /\ Accepts(lifecycle, "Init")
    /\ Handled("Init", "none")
    /\ lifecycle' = Target(lifecycle, "Init")
    /\ backend' = TRUE /\ initState' = h /\ client' = None
    /\ tokens' = Unopened
    /\ slot' = FALSE
    /\ UNCHANGED <<request, keyring, cancelled, sync, shownRunning>>

\* Zero tuning values, a passphrase file that cannot be used or a store that
\* does not open: nothing is committed.
InitFails ==
    /\ Accepts(lifecycle, "Init")
    /\ Handled("Init", "fatal")
    /\ UNCHANGED <<lifecycle, request, sessionVars, keyring, syncVars>>

-----------------------------------------------------------------------------
(* LoginPassword and RestoreSession                                        *)

BeginLogin(r) ==
    /\ Accepts(lifecycle, "LoginPassword")
    /\ Begin("LoginPassword", "login")
    /\ lifecycle' = Target(lifecycle, "LoginPassword")
    /\ request' = r
    /\ UNCHANGED <<sessionVars, keyring, syncVars>>

BeginRestore ==
    /\ Accepts(lifecycle, "RestoreSession")
    /\ Begin("RestoreSession", "restore")
    /\ lifecycle' = Target(lifecycle, "RestoreSession")
    /\ request' = None
    /\ UNCHANGED <<sessionVars, keyring, syncVars>>

\* require_backend fails: login was asked for after a logout, without Init.
AuthWithoutBackend ==
    /\ pc \in {"login", "restore"} /\ ~backend
    /\ FinishAuth(FALSE)
    /\ UNCHANGED <<sessionVars, keyring, syncVars>>

\* Mutant: one attempt too many (attempt > 3 instead of attempt >= 3).
LoginRateLimitedOnceMore ==
    /\ pc \in {"login", "retryLogin"} /\ backend
    /\ attempt <= MaxLoginRetries
    /\ attempt' = attempt + 1
    /\ UNCHANGED <<lifecycle, pc, command, request, answer,
                   sessionVars, keyring, syncVars>>

LoginRateLimited ==
    /\ pc \in {"login", "retryLogin"} /\ backend
    /\ attempt < MaxLoginRetries
    /\ attempt' = attempt + 1
    /\ UNCHANGED <<lifecycle, pc, command, request, answer,
                   sessionVars, keyring, syncVars>>

LoginAccepted ==
    /\ pc \in {"login", "retryLogin"} /\ backend
    /\ client = None
    /\ client' = request.user
    /\ pc' = "finalize"
    /\ UNCHANGED <<lifecycle, command, request, attempt, answer,
                   backend, initState, tokens, keyring, syncVars>>

\* An attempt that fails may have installed the session all the same: the
\* timeout drops its future, or the SDK's restore_session errs, after that.
LateSession(u) ==
    client' \in IF client = None THEN {None, u} ELSE {client}

\* Any error that is neither a store mismatch nor one that an existing
\* session excuses; in the login after a recovery, every error.
LoginFails ==
    /\ pc \in {"login", "retryLogin"} /\ backend
    /\ LateSession(request.user)
    /\ FinishAuth(FALSE)
    /\ UNCHANGED <<backend, initState, tokens, keyring, syncVars>>

\* Mutant: the error is excused without asking for an existing session.
LoginFallsBackBlindly ==
    /\ pc = "login" /\ backend
    /\ FinishAuth(TRUE)
    /\ UNCHANGED <<sessionVars, keyring, syncVars>>

\* is_session_login_fallback_error: rate-limited once too often, timed out,
\* or refused because the client already has a session.
LoginFallsBack ==
    /\ pc = "login" /\ backend
    /\ LateSession(request.user)
    /\ FinishAuth(client' # None)
    /\ UNCHANGED <<backend, initState, tokens, keyring, syncVars>>

\* The store belongs to another account: the backend is dropped.
LoginFindsMismatch ==
    /\ pc = "login" /\ backend
    /\ pc' = "recover"
    /\ backend' = FALSE /\ client' = None /\ slot' = FALSE
    /\ UNCHANGED <<lifecycle, command, request, attempt, answer,
                   initState, tokens, keyring, cancelled, sync, shownRunning>>

ForgetSession(h) == keyring' = [keyring EXCEPT ![h] = None]

\* recover_from_store_account_mismatch
RecoverSucceeds ==
    /\ pc = "recover"
    /\ ForgetSession(initState)
    /\ backend' = TRUE /\ client' = None /\ slot' = FALSE
    /\ pc' = "retryLogin" /\ attempt' = 0
    /\ UNCHANGED <<lifecycle, command, request, answer,
                   initState, tokens, cancelled, sync, shownRunning>>

\* The wipe deletes the session first and may fail there or later; so may the
\* new store.  The backend stays dropped.
RecoverFails ==
    /\ pc = "recover"
    /\ UNCHANGED keyring \/ ForgetSession(initState)
    /\ FinishAuth(FALSE)
    /\ UNCHANGED <<sessionVars, syncVars>>

\* finalize_successful_password_login: the session is stored or cleared, then
\* the device-id hint is written; each may fail.
SaveSession ==
    keyring' = [keyring EXCEPT ![initState] =
                   IF request.persist THEN client ELSE None]

FinalizeSucceeds ==
    /\ pc = "finalize"
    /\ SaveSession
    /\ FinishAuth(TRUE)
    /\ UNCHANGED <<sessionVars, syncVars>>

\* Mutant: the error of finalize_successful_password_login is only logged.
FinalizeFailsSilently ==
    /\ pc = "finalize"
    /\ UNCHANGED keyring \/ SaveSession
    /\ pc' = "idle"
    /\ UNCHANGED <<lifecycle, command, request, attempt, answer,
                   sessionVars, syncVars>>

FinalizeFails ==
    /\ pc = "finalize"
    /\ UNCHANGED keyring \/ SaveSession
    /\ FinishAuth(FALSE)
    /\ UNCHANGED <<sessionVars, syncVars>>

RestoreSucceeds ==
    /\ pc = "restore" /\ backend /\ client = None
    /\ keyring[initState] # None
    /\ client' = keyring[initState]
    /\ FinishAuth(TRUE)
    /\ UNCHANGED <<backend, initState, tokens, keyring, syncVars>>

\* Nothing stored, the keyring or the SDK refuses.
RestoreFails ==
    /\ pc = "restore" /\ backend
    /\ LateSession(keyring[initState])
    /\ FinishAuth(FALSE)
    /\ UNCHANGED <<backend, initState, tokens, keyring, syncVars>>

-----------------------------------------------------------------------------
(* StartSync and StopSync                                                  *)

\* MatrixBackend::start_sync spawns the task before the runtime commits.  The
\* error arm (no backend, sync_already_running) is never taken: SessionIsUsable
\* and StartSyncFindsFreeSlot exclude it.
SpawnSync ==
    /\ Accepts(lifecycle, "StartSync")
    /\ IF backend /\ ~slot
       THEN /\ Begin("StartSync", "startSync")
            /\ slot' = TRUE /\ cancelled' = FALSE /\ sync' = "starting"
            /\ UNCHANGED shownRunning
       ELSE Handled("StartSync", "fatal") /\ UNCHANGED syncVars
    /\ UNCHANGED <<lifecycle, request, sessionVars, keyring>>

CommitSync ==
    /\ pc = "startSync"
    /\ lifecycle' = Target(lifecycle, "StartSync")
    /\ pc' = "idle"
    /\ UNCHANGED <<command, request, attempt, answer,
                   sessionVars, keyring, syncVars>>

\* Mutant: the cancelled task is left in the slot.
TakeSyncTaskKeepsSlot ==
    /\ slot
    /\ cancelled' = TRUE
    /\ UNCHANGED <<slot, sync, shownRunning>>

\* stop_sync takes the task out of the slot and cancels its token.
TakeSyncTask ==
    /\ slot /\ slot' = FALSE
    /\ cancelled' = TRUE
    /\ UNCHANGED <<sync, shownRunning>>

\* Mutant: stop_sync cancels the task and does not wait for it.
SyncNotAwaited == TRUE

\* The `running.task.await` of stop_sync.
SyncJoined == sync = "off"

CancelSync ==
    /\ Accepts(lifecycle, "StopSync")
    /\ backend
    /\ TakeSyncTask
    /\ Begin("StopSync", "stopSync")
    /\ UNCHANGED <<lifecycle, request, sessionVars, keyring>>

CommitStop ==
    /\ pc = "stopSync" /\ SyncJoined
    /\ lifecycle' = Target(lifecycle, "StopSync")
    /\ pc' = "idle"
    /\ UNCHANGED <<command, request, attempt, answer,
                   sessionVars, keyring, syncVars>>

\* sync_not_running
StopSyncFails ==
    /\ Accepts(lifecycle, "StopSync")
    /\ ~backend \/ ~slot
    /\ Handled("StopSync", "fatal")
    /\ UNCHANGED <<lifecycle, request, sessionVars, keyring, syncVars>>

-----------------------------------------------------------------------------
(* Logout                                                                  *)

\* Mutant: the sync task is not stopped before the backend is dropped.
BeginLogoutKeepsSync ==
    /\ Accepts(lifecycle, "Logout") /\ backend
    /\ Begin("Logout", "logoutWipe")
    /\ UNCHANGED <<lifecycle, request, sessionVars, keyring, syncVars>>

\* A failing stop_sync is ignored: no task was in the slot.
BeginLogout ==
    /\ Accepts(lifecycle, "Logout") /\ backend
    /\ IF lifecycle = "Syncing" /\ slot
       THEN Begin("Logout", "logoutStop") /\ TakeSyncTask
       ELSE Begin("Logout", "logoutWipe") /\ UNCHANGED syncVars
    /\ UNCHANGED <<lifecycle, request, sessionVars, keyring>>

\* A login that failed in recovery leaves Configured without a backend.
LogoutWithoutBackend ==
    /\ Accepts(lifecycle, "Logout") /\ ~backend
    /\ Handled("Logout", "fatal")
    /\ UNCHANGED <<lifecycle, request, sessionVars, keyring, syncVars>>

LogoutJoinsSync ==
    /\ pc = "logoutStop" /\ SyncJoined
    /\ pc' = "logoutWipe"
    /\ UNCHANGED <<lifecycle, command, request, attempt, answer,
                   sessionVars, keyring, syncVars>>

\* Mutant: pagination_tokens.clear() is missing.
LogoutKeepsTokens ==
    /\ pc = "logoutWipe"
    /\ ForgetSession(initState)
    /\ lifecycle' = Target(lifecycle, "Logout")
    /\ backend' = FALSE /\ initState' = None /\ client' = None
    /\ slot' = FALSE
    /\ pc' = "idle"
    /\ UNCHANGED <<command, request, attempt, answer, tokens,
                   cancelled, sync, shownRunning>>

\* The remote logout's error is only logged; then everything local goes.
LogoutSucceeds ==
    /\ pc = "logoutWipe"
    /\ ForgetSession(initState)
    /\ lifecycle' = Target(lifecycle, "Logout")
    /\ backend' = FALSE /\ initState' = None /\ client' = None
    /\ tokens' = Unopened
    /\ slot' = FALSE
    /\ pc' = "idle"
    /\ UNCHANGED <<command, request, attempt, answer,
                   cancelled, sync, shownRunning>>

\* Mutant: the wipe's error is ignored like the remote logout's.
LogoutIgnoresWipe ==
    /\ pc = "logoutWipe"
    /\ UNCHANGED keyring \/ ForgetSession(initState)
    /\ lifecycle' = Target(lifecycle, "Logout")
    /\ backend' = FALSE /\ initState' = None /\ client' = None
    /\ tokens' = Unopened
    /\ slot' = FALSE
    /\ pc' = "idle"
    /\ UNCHANGED <<command, request, attempt, answer,
                   cancelled, sync, shownRunning>>

\* wipe_local_persistence fails at the session or after it; the lifecycle and
\* the backend stay, the sync task is gone already.
LogoutFails ==
    /\ pc = "logoutWipe"
    /\ UNCHANGED keyring \/ ForgetSession(initState)
    /\ Return("fatal")
    /\ UNCHANGED <<lifecycle, attempt, sessionVars, syncVars>>

-----------------------------------------------------------------------------
(* Room commands: OpenRoom and PaginateBack store the token of the page    *)
(* they fetched; the others change nothing the runtime keeps.              *)

PageFetched(c, r) ==
    /\ Accepts(lifecycle, c) /\ backend
    /\ Handled(c, "none")
    /\ \E t \in {"end", "more"} : tokens' = [tokens EXCEPT ![r] = t]
    /\ UNCHANGED <<lifecycle, request, backend, initState, client,
                   keyring, syncVars>>

RoomCommandDone(c) ==
    /\ Accepts(lifecycle, c) /\ backend
    /\ Handled(c, IF c = "AckedRequest" THEN "ack" ELSE "none")
    /\ UNCHANGED <<lifecycle, request, sessionVars, keyring, syncVars>>

RoomCommandFails(c) ==
    /\ Accepts(lifecycle, c)
    /\ Handled(c, Refusal(c))
    /\ UNCHANGED <<lifecycle, request, sessionVars, keyring, syncVars>>

-----------------------------------------------------------------------------
(* The sync task                                                           *)

SyncMoves(from, to) ==
    /\ sync \in from /\ sync' = to
    /\ UNCHANGED <<slot, cancelled, handlerVars, sessionVars, keyring>>

\* SyncStatus running: at the start, after each batch, before each backoff.
SyncAnnounces ==
    /\ SyncMoves({"starting", "processing"}, "polling")
    /\ shownRunning' = TRUE

\* A batch: timeline deltas, the room list, a refresh after room keys.  The
\* branch taken by select! is random, a cancelled task may still take it.
SyncResponds == SyncMoves({"polling"}, "processing") /\ UNCHANGED shownRunning

SyncErrs ==
    \/ SyncMoves({"polling"}, "backoff") /\ shownRunning' = TRUE
    \/ SyncMoves({"polling"}, "exiting") /\ UNCHANGED shownRunning

SyncRetries == SyncMoves({"backoff"}, "polling") /\ UNCHANGED shownRunning

\* Mutant: the stop token is looked at only while backing off.
SyncObservesCancelInBackoff ==
    /\ cancelled
    /\ SyncMoves({"backoff"}, "exiting")
    /\ UNCHANGED shownRunning

SyncObservesCancel ==
    /\ cancelled
    /\ SyncMoves({"polling", "backoff"}, "exiting")
    /\ UNCHANGED shownRunning

\* Mutant: the task returns from the loop without its last SyncStatus.
SyncExitsSilently == SyncMoves({"exiting"}, "off") /\ UNCHANGED shownRunning

SyncExits == SyncMoves({"exiting"}, "off") /\ shownRunning' = FALSE

SyncTask ==
    \/ SyncAnnounces \/ SyncResponds \/ SyncErrs \/ SyncRetries
    \/ SyncObservesCancel \/ SyncExits

-----------------------------------------------------------------------------
\* The process ends and is started again; only the keyring survives.
Restart ==
    /\ lifecycle' = "Cold" /\ pc' = "idle" /\ command' = "none"
    /\ request' = None /\ attempt' = 0 /\ answer' = "none"
    /\ backend' = FALSE /\ initState' = None /\ client' = None
    /\ tokens' = Unopened
    /\ slot' = FALSE /\ cancelled' = FALSE /\ sync' = "off" /\ shownRunning' = FALSE
    /\ UNCHANGED keyring

\* A command is taken from the queue.
TakeCommand ==
    \/ \E c \in Commands : CommandRefused(c)
    \/ \E h \in Homeservers : InitSucceeds(h)
    \/ InitFails
    \/ \E r \in LoginRequests : BeginLogin(r)
    \/ BeginRestore
    \/ SpawnSync
    \/ CancelSync \/ StopSyncFails
    \/ BeginLogout \/ LogoutWithoutBackend
    \/ \E c \in {"OpenRoom", "PaginateBack"}, r \in Rooms : PageFetched(c, r)
    \/ \E c \in {"AckedRequest", "PlainRequest"} : RoomCommandDone(c)
    \/ \E c \in RoomCommands : RoomCommandFails(c)

\* The suspended handler goes on.
ResumeAuth ==
    \/ AuthWithoutBackend \/ LoginRateLimited \/ LoginAccepted \/ LoginFails
    \/ LoginFallsBack \/ LoginFindsMismatch
    \/ RecoverSucceeds \/ RecoverFails
    \/ FinalizeSucceeds \/ FinalizeFails
    \/ RestoreSucceeds \/ RestoreFails

ResumeSession ==
    CommitSync \/ CommitStop \/ LogoutJoinsSync \/ LogoutSucceeds \/ LogoutFails

Resume == ResumeAuth \/ ResumeSession

Next == TakeCommand \/ Resume \/ SyncTask \/ Restart

\* External calls return (the login has a timeout), the runtime's thread and
\* the task's are scheduled, and select! polls its branches in random order:
\* a cancelled token seen again and again is taken in the end.
Fairness ==
    /\ WF_vars(Resume)
    /\ WF_vars(SyncTask)
    /\ SF_vars(SyncObservesCancel)

Spec == Init /\ [][Next]_vars /\ Fairness

-----------------------------------------------------------------------------
(* Properties                                                              *)

TypeOK ==
    /\ lifecycle \in LifecycleStates
    /\ pc \in Pcs
    /\ command \in Commands \cup {"none"}
    /\ request \in LoginRequests \cup {None}
    /\ attempt \in 0..MaxLoginRetries
    /\ answer \in Answers
    /\ backend \in BOOLEAN
    /\ initState \in Homeservers \cup {None}
    /\ client \in Users \cup {None}
    /\ tokens \in [Rooms -> Tokens]
    /\ keyring \in [Homeservers -> Users \cup {None}]
    /\ slot \in BOOLEAN
    /\ cancelled \in BOOLEAN
    /\ sync \in SyncPcs
    /\ shownRunning \in BOOLEAN

\* A frontend told Authenticated or Syncing talks to a backend that has a
\* session, through every failed, recovered, excused or timed-out login and
\* every half-failed logout (handle_login_password, handle_logout).
SessionIsUsable ==
    lifecycle \in AuthenticatedContext =>
        backend /\ client # None /\ initState # None

\* The sync task lives only inside the session that started it: a frontend
\* that was told Authenticated by StopSync, LoggedOut or Configured gets no
\* more sync events, and a backend is never replaced under a live task
\* (start_sync, stop_sync, handle_logout).
SyncStaysInSession ==
    sync # "off" => lifecycle = "Syncing" \/ pc = "startSync"

\* An accepted StartSync always finds the slot free: a task that died by
\* itself, a failed logout or a dropped backend leaves nothing behind that
\* would answer sync_already_running for the rest of the process.
StartSyncFindsFreeSlot ==
    lifecycle = "Authenticated" /\ pc = "idle" => ~slot /\ sync = "off"

\* The SyncStatus a frontend saw last does not outlive the sync: when the
\* runtime rests outside Syncing it says not running, because stop_sync waits
\* for the task's farewell before StateChanged is emitted.
StatusNotStale ==
    pc = "idle" /\ shownRunning => lifecycle = "Syncing" /\ sync # "off"

\* Every command that promises an answer has exactly one when the runtime
\* takes the next: one AuthResult per login or restore whatever path it took,
\* agreeing with the lifecycle, one ack per acked request, never two answers.
AnsweredOnce ==
    /\ answer # "twice"
    /\ pc = "idle" /\ command \in AuthCommands =>
          \/ answer = "authOk" /\ lifecycle \in AuthenticatedContext
          \/ answer = "authFailed" /\ lifecycle # "Authenticating"
    /\ pc = "idle" /\ command = "AckedRequest" => answer = "ack"

\* Pagination tokens belong to the session that fetched them: no token is left
\* when the next client takes over (handle_init, handle_logout, the recovery).
TokensStayInSession ==
    lifecycle \notin AuthenticatedContext => tokens = Unopened

\* LoggedOut is announced only when the account's stored session is gone and
\* no sync task is left, whatever failed on the way: a failed wipe leaves the
\* lifecycle where it was (handle_logout, wipe_local_persistence).
LogoutForgets ==
    [][lifecycle' = "LoggedOut" /\ lifecycle # "LoggedOut" =>
          /\ keyring'[initState] = None
          /\ ~backend' /\ sync' = "off" /\ tokens' = Unopened]_vars

\* The runtime implements what SessionService promises.
Service ==
    INSTANCE SessionService WITH
        phase <- lifecycle,
        who <- IF lifecycle \in AuthenticatedContext THEN client ELSE None,
        feed <- sync # "off"

\* Each session has one account, chosen by its authentication; the feed is
\* opened once and silent before the session is announced as over.
ImplementsService == Service!ServiceSpec

\* Every command is finished: no await of a login, a recovery, a logout or a
\* stop is left hanging, in particular not on a sync task that answers a
\* batch, backs off or dies while it is cancelled.
CommandsFinish == (pc # "idle") ~> (pc = "idle")

-----------------------------------------------------------------------------
(* The inductive invariant behind the safety properties.                   *)

\* Where a handler may be suspended in each lifecycle state.
PcMatchesLifecycle ==
    /\ lifecycle # "Fatal"
    /\ lifecycle = "Authenticating" <=> pc \in AuthPcs
    /\ pc = "startSync" => lifecycle = "Authenticated"
    /\ pc \in {"stopSync", "logoutStop"} => lifecycle = "Syncing"
    /\ pc = "logoutWipe" => lifecycle \in {"Configured"} \cup AuthenticatedContext

\* Which command a suspended handler handles; it has not answered yet.
HandlerOwesAnswer ==
    /\ pc # "idle" => answer = "none"
    /\ pc \in AuthPcs => command \in AuthCommands
    /\ pc = "startSync" => command = "StartSync"
    /\ pc = "stopSync" => command = "StopSync"
    /\ pc \in {"logoutStop", "logoutWipe"} => command = "Logout"
    /\ pc \in {"login", "recover", "retryLogin", "finalize"} => request # None

\* A session belongs to an installed backend, a backend to an Init, and the
\* handlers that use them without asking have them.
BackendWhereUsed ==
    /\ backend => initState # None
    /\ client # None => backend
    /\ pc \in {"retryLogin", "finalize", "logoutStop", "logoutWipe"} => backend
    /\ pc = "recover" => initState # None
    /\ pc = "finalize" => client # None

\* A live task is in the slot, or a handler that took it out waits for it.
SyncIsOwned ==
    /\ sync # "off" => slot \/ pc \in {"stopSync", "logoutStop"}
    /\ slot => lifecycle = "Syncing" \/ pc = "startSync"
    /\ pc \in {"stopSync", "logoutStop", "logoutWipe"} => ~slot
    /\ shownRunning => sync \notin {"off", "starting"}

RuntimeInv ==
    /\ TypeOK
    /\ PcMatchesLifecycle
    /\ HandlerOwesAnswer
    /\ BackendWhereUsed
    /\ SyncIsOwned
    /\ SessionIsUsable
    /\ TokensStayInSession
    /\ AnsweredOnce
=============================================================================
