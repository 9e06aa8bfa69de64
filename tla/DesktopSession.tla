---------------------------- MODULE DesktopSession ----------------------------
(***************************************************************************)
(* Signing in and out of the desktop app (apps/pikachat-desktop/src:       *)
(* bridge.rs, state.rs, auth_profile.rs).  Four actors share its state:    *)
(* the interface thread (submit_login, confirm_logout), the runtime that   *)
(* serves the command queue, the event worker that turns backend events    *)
(* into files and state, and the interface again, which draws a snapshot   *)
(* some time after it was posted.  All accounts live on one homeserver, so *)
(* they share the keyring's one session.                                   *)
(*                                                                         *)
(* The runtime is the one of module Runtime seen from its queues: each     *)
(* command is served in one step, with the outcomes Runtime allows.        *)
(***************************************************************************)
EXTENDS StateMachine, Sequences, Naturals

CONSTANTS Accounts,     \* accounts a user may type into the login form
          None,         \* no account, no intent
          QueueRoom,    \* the user waits while more than this is under way
          SlowScreen,   \* may the user act on a screen not yet redrawn?
          MaxRestarts   \* times the process may end and start again

\* AuthSessionIntent: what the login form asked for.
Intents == [user : Accounts, remember : BOOLEAN]

ASSUME DesktopAssumption ==
    /\ None \notin Accounts \cup Intents
    /\ QueueRoom \in Nat /\ MaxRestarts \in Nat /\ SlowScreen \in BOOLEAN

VARIABLES
    form,       \* DesktopState: login pane shown? login in flight?
    posted,     \* the snapshot posted last
    screen,     \* the snapshot drawn last: what the user sees
    ui,         \* how far submit_login has come
    typed,      \* its intent
    intent,     \* pending_auth_intent
    commands,   \* from the bridge to the runtime
    events,     \* from the runtime to the event worker
    worker,     \* what the event worker does next
    taken,      \* the intent it took, or None
    snapshot,   \* the snapshot it has yet to post, or None
    profile,    \* auth profile on disk: the account to restore, or None
    diskFault,  \* did the last write of the profile fail?
    lifecycle,  \* of the runtime
    backend,    \* is a backend installed?
    client,     \* the account of its session, or None
    persisted,  \* did the login of this session ask to be remembered?
    keyring,    \* the persisted session's account, or None
    restarts

uiVars == <<form, posted, screen, ui, typed>>
diskVars == <<profile, diskFault>>
workerVars == <<worker, taken, snapshot, diskVars>>
runtimeVars == <<lifecycle, backend, client, persisted, keyring>>
vars == <<uiVars, intent, commands, events, workerVars, runtimeVars, restarts>>

Command(op) == [op |-> op, user |-> None, persist |-> FALSE]
LoginCommand(i) ==
    [op |-> "LoginPassword", user |-> i.user, persist |-> i.remember]

Pane(shown, inFlight) == [shown |-> shown, inFlight |-> inFlight]

\* DesktopBridge::spawn with the profile p found on disk.
StartsWith(p) ==
    LET first == IF p = None THEN Pane(TRUE, FALSE) ELSE Pane(FALSE, TRUE)
    IN  /\ form' = first /\ posted' = first /\ screen' = first
        /\ intent' = IF p = None THEN None ELSE [user |-> p, remember |-> TRUE]
        /\ commands' = IF p = None THEN <<>>
                       ELSE <<Command("Init"), Command("RestoreSession")>>

Init ==
    /\ form = Pane(TRUE, FALSE) /\ posted = form /\ screen = form
    /\ ui = "idle" /\ typed = None /\ intent = None
    /\ commands = <<>> /\ events = <<>>
    /\ worker = "idle" /\ taken = None /\ snapshot = None
    /\ profile = None /\ diskFault = FALSE
    /\ lifecycle = "Cold" /\ backend = FALSE /\ client = None
    /\ persisted = FALSE /\ keyring = None
    /\ restarts = 0

\* The process ends between any two steps and is started again.
Restart ==
    /\ restarts < MaxRestarts /\ restarts' = restarts + 1
    /\ StartsWith(profile)
    /\ ui' = "idle" /\ typed' = None /\ events' = <<>>
    /\ worker' = "idle" /\ taken' = None /\ snapshot' = None
    /\ lifecycle' = "Cold" /\ backend' = FALSE /\ client' = None
    /\ persisted' = FALSE
    /\ UNCHANGED <<diskVars, keyring>>

-----------------------------------------------------------------------------
(* The interface thread                                                    *)

\* Set the reducer's pane and post the snapshot under the same lock.
Show(pane) == form' = pane /\ posted' = pane

UserMayAct ==
    /\ ui = "idle"
    /\ Len(commands) + Len(events) <= QueueRoom
    /\ SlowScreen \/ screen = posted

\* The Log In button and the Return key are enabled by what is drawn.
FormEnabled == screen.shown /\ ~screen.inFlight

Draw ==
    /\ screen # posted /\ screen' = posted
    /\ UNCHANGED <<form, posted, ui, typed, intent, commands, events,
                   workerVars, runtimeVars, restarts>>

\* submit_login refuses an invalid homeserver or an empty field.
RejectForm ==
    /\ UserMayAct /\ FormEnabled
    /\ Show(Pane(TRUE, FALSE))
    /\ UNCHANGED <<screen, ui, typed, intent, commands, events,
                   workerVars, runtimeVars, restarts>>

\* submit_login, lock by lock: the intent, the pane, the commands.
SubmitLogin(i) ==
    /\ UserMayAct /\ FormEnabled
    /\ intent' = i /\ typed' = i /\ ui' = "marking"
    /\ UNCHANGED <<form, posted, screen, commands, events,
                   workerVars, runtimeVars, restarts>>

MarkInFlight ==
    /\ ui = "marking" /\ ui' = "sending"
    /\ Show(Pane(TRUE, TRUE))
    /\ UNCHANGED <<screen, typed, intent, commands, events,
                   workerVars, runtimeVars, restarts>>

SendLogin ==
    /\ ui = "sending" /\ ui' = "idle"
    /\ commands' = commands \o <<Command("Init"), LoginCommand(typed)>>
    /\ typed' = None
    /\ UNCHANGED <<form, posted, screen, intent, events,
                   workerVars, runtimeVars, restarts>>

\* confirm_logout asks the reducer, not the screen; the dialog is left out.
ConfirmLogout ==
    /\ UserMayAct /\ ~form.shown
    /\ Show(form)
    /\ commands' = Append(commands, Command("Logout"))
    /\ UNCHANGED <<screen, ui, typed, intent, events,
                   workerVars, runtimeVars, restarts>>

\* Any other command of the room view.
UseRoom ==
    /\ UserMayAct /\ ~screen.shown
    /\ commands' = Append(commands, Command("PlainRequest"))
    /\ UNCHANGED <<uiVars, intent, events, workerVars, runtimeVars, restarts>>

-----------------------------------------------------------------------------
(* The runtime                                                             *)

\* Serve the first command if it is op; the events are emitted in one step.
Serve(op, emitted) ==
    /\ commands # <<>> /\ Head(commands).op = op
    /\ commands' = Tail(commands)
    /\ events' = events \o emitted
    /\ UNCHANGED <<uiVars, intent, workerVars, restarts>>

\* Mutant: a refused login is an error like any other command's.
RefusedIsFatal(op) ==
    /\ ~Accepts(lifecycle, op)
    /\ Serve(op, <<"fatal">>)
    /\ UNCHANGED runtimeVars

Refused(op) ==
    /\ ~Accepts(lifecycle, op)
    /\ Serve(op, IF op \in AuthCommands THEN <<"authFailed">> ELSE <<"fatal">>)
    /\ UNCHANGED runtimeVars

\* Init installs a client without session, or fails and leaves the old one.
ServeInit ==
    /\ Accepts(lifecycle, "Init")
    /\ \/ /\ Serve("Init", <<>>)
          /\ lifecycle' = Target(lifecycle, "Init")
          /\ backend' = TRUE /\ client' = None
          /\ UNCHANGED <<persisted, keyring>>
       \/ Serve("Init", <<"fatal">>) /\ UNCHANGED runtimeVars

\* Mutant: the transition of on_auth_result is not committed.
AuthenticatedUncommitted(op, success) ==
    /\ Serve(op, IF success THEN <<"authOk">> ELSE <<"authFailed">>)
    /\ lifecycle' = Target(lifecycle, op)

\* Mutant: a failed authentication is only logged.
AuthenticatedSilently(op, success) ==
    /\ Serve(op, IF success THEN <<"authOk">> ELSE <<>>)
    /\ lifecycle' = AfterAuth(Target(lifecycle, op), success)

\* finish_auth
Authenticated(op, success) ==
    /\ Serve(op, IF success THEN <<"authOk">> ELSE <<"authFailed">>)
    /\ lifecycle' = AfterAuth(Target(lifecycle, op), success)

\* A failed or excused attempt may have installed the session all the same.
LateSession(u) == client' \in IF client = None THEN {None, u} ELSE {client}

\* Signed in, perhaps after a recovery of the store; or excused by the session
\* the client has.
LoginSucceeds ==
    /\ backend /\ Accepts(lifecycle, "LoginPassword")
    /\ Authenticated("LoginPassword", TRUE)
    /\ persisted' = Head(commands).persist
    /\ \/ /\ client' = Head(commands).user
          /\ keyring' = IF Head(commands).persist THEN client' ELSE None
       \/ /\ LateSession(Head(commands).user) /\ client' # None
          /\ UNCHANGED keyring
    /\ UNCHANGED backend

\* A failed attempt, alone or after a recovery that cleared the stored session;
\* a session whose persistence failed half-way; a recovery that left no backend.
BackendLoginFails(u) ==
    \/ LateSession(u) /\ UNCHANGED <<backend, keyring>>
    \/ client' \in {None, u} /\ keyring' = None /\ UNCHANGED backend
    \/ /\ client' = u /\ UNCHANGED backend
       /\ keyring' = IF Head(commands).persist THEN u ELSE None
    \/ /\ backend' = FALSE /\ client' = None
       /\ keyring' \in {keyring, None}

LoginFails ==
    /\ Accepts(lifecycle, "LoginPassword")
    /\ Authenticated("LoginPassword", FALSE)
    /\ IF backend THEN BackendLoginFails(Head(commands).user)
       ELSE UNCHANGED <<backend, client, keyring>>
    /\ UNCHANGED persisted

RestoreSucceeds ==
    /\ backend /\ client = None /\ keyring # None
    /\ Accepts(lifecycle, "RestoreSession")
    /\ Authenticated("RestoreSession", TRUE)
    /\ client' = keyring /\ persisted' = TRUE
    /\ UNCHANGED <<backend, keyring>>

RestoreFails ==
    /\ Accepts(lifecycle, "RestoreSession")
    /\ Authenticated("RestoreSession", FALSE)
    /\ IF backend THEN LateSession(keyring) ELSE UNCHANGED client
    /\ UNCHANGED <<backend, persisted, keyring>>

\* Never refused by the backend: Runtime's StartSyncFindsFreeSlot.
ServeStartSync ==
    /\ Accepts(lifecycle, "StartSync")
    /\ Serve("StartSync", <<>>)
    /\ lifecycle' = Target(lifecycle, "StartSync")
    /\ UNCHANGED <<backend, client, persisted, keyring>>

ServeRoom ==
    /\ Accepts(lifecycle, "PlainRequest")
    /\ \E emitted \in {<<>>, <<"fatal">>} : Serve("PlainRequest", emitted)
    /\ UNCHANGED runtimeVars

LogoutSucceeds ==
    /\ backend /\ Accepts(lifecycle, "Logout")
    /\ Serve("Logout", <<"loggedOut">>)
    /\ lifecycle' = Target(lifecycle, "Logout")
    /\ backend' = FALSE /\ client' = None /\ keyring' = None
    /\ persisted' = FALSE

\* No backend, or the wipe failed at the stored session or after it.
LogoutFails ==
    /\ Accepts(lifecycle, "Logout")
    /\ Serve("Logout", <<"fatal">>)
    /\ UNCHANGED keyring \/ (backend /\ keyring' = None)
    /\ UNCHANGED <<lifecycle, backend, client, persisted>>

RuntimeServes ==
    \/ \E op \in Commands : Refused(op)
    \/ ServeInit \/ LoginSucceeds \/ LoginFails
    \/ RestoreSucceeds \/ RestoreFails
    \/ ServeStartSync \/ ServeRoom \/ LogoutSucceeds \/ LogoutFails

-----------------------------------------------------------------------------
(* The event worker.  Each step ends where it takes or releases a lock.    *)

NextEvent(event, next) ==
    /\ worker = "idle" /\ events # <<>> /\ Head(events) = event
    /\ events' = Tail(events)
    /\ worker' = next
    /\ UNCHANGED <<uiVars, runtimeVars, restarts>>

Continue(from, to) ==
    /\ worker = from /\ worker' = to
    /\ UNCHANGED <<events, runtimeVars, restarts>>

PostAuthCommands == <<Command("StartSync"), Command("PlainRequest")>>

\* Mutant: the post-auth commands are sent only for an intent that is there.
SignedInIfIntended ==
    /\ NextEvent("authOk", "takeIntent")
    /\ commands' = IF intent = None THEN commands
                   ELSE commands \o PostAuthCommands
    /\ UNCHANGED <<intent, taken, snapshot, diskVars>>

SignedIn ==
    /\ NextEvent("authOk", "takeIntent")
    /\ commands' = commands \o PostAuthCommands
    /\ UNCHANGED <<intent, taken, snapshot, diskVars>>

TakeIntent ==
    /\ Continue("takeIntent", "saveProfile")
    /\ taken' = intent /\ intent' = None
    /\ UNCHANGED <<uiVars, commands, snapshot, diskVars>>

\* save_auth_profile or clear_auth_profile; an error is only logged.
WriteProfile(p) ==
    \/ profile' = p /\ diskFault' = FALSE
    \/ diskFault' = TRUE /\ UNCHANGED profile

SaveProfile ==
    /\ Continue("saveProfile", "reduceSignedIn")
    /\ taken' = None
    /\ IF taken = None THEN UNCHANGED diskVars
       ELSE WriteProfile(IF taken.remember THEN taken.user ELSE None)
    /\ UNCHANGED <<uiVars, intent, commands, snapshot>>

AuthFailed ==
    /\ NextEvent("authFailed", "reduceFailed")
    /\ intent' = None
    /\ UNCHANGED <<commands, taken, snapshot, diskVars>>

\* Mutant: the profile is left to the wipe of the data directory.
LoggedOutKeepsProfile ==
    /\ NextEvent("loggedOut", "dropIntent")
    /\ UNCHANGED <<intent, commands, taken, snapshot, diskVars>>

\* The profile goes, first by its name, then with the data directory around it;
\* each may fail.
LoggedOut ==
    /\ NextEvent("loggedOut", "dropIntent")
    /\ WriteProfile(None)
    /\ UNCHANGED <<intent, commands, taken, snapshot>>

DropIntent ==
    /\ Continue("dropIntent", "reduceLoggedOut")
    /\ intent' = None
    /\ UNCHANGED <<uiVars, commands, taken, snapshot, diskVars>>

BackendFault ==
    /\ NextEvent("fatal", "reduceFault")
    /\ UNCHANGED <<intent, commands, taken, snapshot, diskVars>>

\* Mutant: a failed authentication leaves the pane as it was.
ReducedKeepsPane(stage) ==
    CASE stage = "reduceSignedIn" -> Pane(FALSE, FALSE)
      [] stage = "reduceLoggedOut" -> Pane(TRUE, FALSE)
      [] stage \in {"reduceFailed", "reduceFault"} -> Pane(form.shown, FALSE)

\* handle_backend_event: the pane after the event at this stage.
Reduced(stage) ==
    CASE stage = "reduceSignedIn" -> Pane(FALSE, FALSE)
      [] stage \in {"reduceFailed", "reduceLoggedOut"} -> Pane(TRUE, FALSE)
      [] stage = "reduceFault" -> Pane(form.shown, FALSE)

ReduceStages ==
    {"reduceSignedIn", "reduceFailed", "reduceLoggedOut", "reduceFault"}

\* The state lock is released before the snapshot is posted.
Reduce ==
    /\ worker \in ReduceStages
    /\ Continue(worker, "post")
    /\ form' = Reduced(worker) /\ snapshot' = form'
    /\ UNCHANGED <<posted, screen, ui, typed, intent, commands, taken, diskVars>>

PostSnapshot ==
    /\ Continue("post", "idle")
    /\ posted' = snapshot /\ snapshot' = None
    /\ UNCHANGED <<form, screen, ui, typed, intent, commands, taken, diskVars>>

EventWorker ==
    \/ SignedIn \/ TakeIntent \/ SaveProfile \/ AuthFailed
    \/ LoggedOut \/ DropIntent \/ BackendFault \/ Reduce \/ PostSnapshot

-----------------------------------------------------------------------------
User ==
    \/ RejectForm \/ ConfirmLogout \/ UseRoom
    \/ \E i \in Intents : SubmitLogin(i)

SubmitGoesOn == MarkInFlight \/ SendLogin

Next ==
    User \/ SubmitGoesOn \/ Draw \/ RuntimeServes \/ EventWorker \/ Restart

\* The three threads run; the user and the restarts are free.
Fairness ==
    /\ WF_vars(SubmitGoesOn)
    /\ WF_vars(RuntimeServes)
    /\ WF_vars(EventWorker)

Spec == Init /\ [][Next]_vars /\ Fairness

-----------------------------------------------------------------------------
(* Properties                                                              *)

OnItsWay == {commands[k].op : k \in DOMAIN commands} \cup
            {events[k] : k \in DOMAIN events}

\* Nothing is under way between the four actors.
AtRest == OnItsWay = {} /\ worker = "idle" /\ ui = "idle"

Panes == {Pane(s, f) : s \in BOOLEAN, f \in BOOLEAN}
Stages == ReduceStages \cup
          {"idle", "takeIntent", "saveProfile", "dropIntent", "post"}

TypeOK ==
    /\ form \in Panes /\ posted \in Panes /\ screen \in Panes
    /\ ui \in {"idle", "marking", "sending"}
    /\ typed \in Intents \cup {None} /\ intent \in Intents \cup {None}
    /\ commands \in Seq([op : Commands, user : Accounts \cup {None},
                         persist : BOOLEAN])
    /\ events \in Seq({"authOk", "authFailed", "loggedOut", "fatal"})
    /\ worker \in Stages
    /\ taken \in Intents \cup {None} /\ snapshot \in Panes \cup {None}
    /\ profile \in Accounts \cup {None} /\ diskFault \in BOOLEAN
    /\ lifecycle \in LifecycleStates \ {"Authenticating", "Fatal"}
    /\ backend \in BOOLEAN /\ client \in Accounts \cup {None}
    /\ persisted \in BOOLEAN /\ keyring \in Accounts \cup {None}
    /\ restarts \in 0..MaxRestarts

\* A login form in flight and a pending intent always wait for an AuthResult
\* that is still to come: no failed Init, refused login, logout or restart
\* leaves a form that stays locked, or an intent that a later, unrelated
\* AuthResult would write to the profile (submit_login, the event worker).
IntentIsAwaited ==
    ui = "idle" /\ (intent # None \/ form.inFlight) =>
        \/ OnItsWay \cap (AuthCommands \cup {"authOk", "authFailed"}) # {}
        \/ worker \in {"takeIntent", "saveProfile", "reduceSignedIn", "reduceFailed"}
        \/ worker \in {"dropIntent", "reduceLoggedOut"} /\ ~form.inFlight

\* Every session ends up syncing: StartSync and ListRooms follow each
\* AuthResult whatever became of its intent (post_auth_command_sequence).
SessionSyncs == AtRest => lifecycle # "Authenticated"

\* The room view is never left without a session behind it: once all events
\* are handled, a hidden login pane means a running session.
RoomViewHasSession ==
    AtRest /\ ~form.shown => lifecycle \in AuthenticatedContext

\* After a logout nothing is left to restore, whatever was written while it
\* was under way, unless the profile could not be deleted.
LogoutLeavesNothing ==
    AtRest /\ lifecycle = "LoggedOut" /\ ~diskFault =>
        profile = None /\ keyring = None /\ form.shown

\* A login form in flight is released.
FormIsReleased == form.inFlight ~> ~form.inFlight
=============================================================================
