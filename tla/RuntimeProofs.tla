---------------------------- MODULE RuntimeProofs ----------------------------
(***************************************************************************)
(* Theorems about Runtime, for every set of homeservers, accounts and      *)
(* rooms and every retry bound, and about the delays of RetryPolicy.       *)
(***************************************************************************)
EXTENDS Runtime, RetryPolicy, WellFoundedInduction, TLAPS

\* What the state machine answers for each command.
LEMMA MachineFacts ==
    ASSUME NEW s
    PROVE  /\ Target(s, "Init") = "Configured"
           /\ Target(s, "LoginPassword") = "Authenticating"
           /\ Target(s, "RestoreSession") = "Authenticating"
           /\ Target(s, "StartSync") = "Syncing"
           /\ Target(s, "StopSync") = "Authenticated"
           /\ Target(s, "Logout") = "LoggedOut"
           /\ Accepts(s, "Init") <=> s \in {"Cold", "Configured", "LoggedOut"}
           /\ Accepts(s, "LoginPassword") <=> s \in {"Configured", "LoggedOut"}
           /\ Accepts(s, "RestoreSession") <=> s \in {"Configured", "LoggedOut"}
           /\ Accepts(s, "StartSync") <=> s = "Authenticated"
           /\ Accepts(s, "StopSync") <=> s = "Syncing"
           /\ Accepts(s, "Logout") <=>
                s \in {"Configured", "Authenticating", "Authenticated", "Syncing"}
           /\ \A c \in RoomCommands : Accepts(s, c) <=> s \in AuthenticatedContext
  BY DEF Target, Accepts, Sources, AuthCommands, RoomCommands

LEMMA InitEstablishes == Init => RuntimeInv
<1> SUFFICES ASSUME Init PROVE RuntimeInv
  OBVIOUS
<1> USE DEF Init
<1>1. TypeOK
  <2>1. lifecycle \in LifecycleStates /\ pc \in Pcs /\ sync \in SyncPcs /\ answer \in Answers
    BY DEF LifecycleStates, Pcs, SyncPcs, Answers
  <2>2. backend \in BOOLEAN /\ slot \in BOOLEAN /\ cancelled \in BOOLEAN
          /\ shownRunning \in BOOLEAN
    BY Zenon
  <2>3. attempt \in 0..MaxLoginRetries
    BY RuntimeAssumption
  <2>4. tokens \in [Rooms -> Tokens] /\ keyring \in [Homeservers -> Users \cup {None}]
    BY DEF Tokens, Unopened
  <2> QED
    BY <2>1, <2>2, <2>3, <2>4 DEF TypeOK
<1>2. PcMatchesLifecycle
  BY DEF PcMatchesLifecycle, AuthPcs
<1>3. HandlerOwesAnswer
  BY DEF HandlerOwesAnswer, AuthPcs
<1>4. BackendWhereUsed /\ SyncIsOwned /\ SessionIsUsable /\ TokensStayInSession
  BY DEF BackendWhereUsed, SyncIsOwned, SessionIsUsable, TokensStayInSession,
     AuthenticatedContext
<1>5. AnsweredOnce
  BY DEF AnsweredOnce, AuthCommands
<1> QED
  BY <1>1, <1>2, <1>3, <1>4, <1>5 DEF RuntimeInv

-----------------------------------------------------------------------------
(* The invariant is inductive: one lemma per group of actions, in it one    *)
(* step per conjunct.                                                      *)

\* Taking a command: what it refuses, answers at once or suspends on.
LEMMA TakeCommandKeepsInv == RuntimeInv /\ TakeCommand => RuntimeInv'
<1> SUFFICES ASSUME RuntimeInv, TakeCommand PROVE RuntimeInv'
  OBVIOUS
<1> USE RuntimeAssumption, MachineFacts DEF RuntimeInv, handlerVars,
    sessionVars, syncVars, TakeCommand, CommandRefused, InitSucceeds,
    InitFails, BeginLogin, BeginRestore, SpawnSync,
    CancelSync, StopSyncFails, BeginLogout, LogoutWithoutBackend,
    PageFetched, RoomCommandDone, RoomCommandFails, TakeSyncTask, Handled,
    Begin, Refusal
<1>1. (/\ lifecycle \in LifecycleStates /\ pc \in Pcs /\ sync \in SyncPcs
       /\ answer \in Answers /\ command \in Commands \cup {"none"})'
  BY DEF TypeOK, LifecycleStates, Pcs, SyncPcs, Answers, AuthPcs, Commands,
     RoomCommands, AuthCommands
<1>2. (/\ request \in LoginRequests \cup {None} /\ attempt \in 0..MaxLoginRetries
       /\ initState \in Homeservers \cup {None} /\ client \in Users \cup {None})'
  BY DEF TypeOK, LoginRequests, HandlerOwesAnswer, BackendWhereUsed
<1>3. (/\ tokens \in [Rooms -> Tokens]
       /\ keyring \in [Homeservers -> Users \cup {None}])'
  BY DEF TypeOK, Tokens, Unopened, LoginRequests, HandlerOwesAnswer,
     BackendWhereUsed
<1>4. (/\ backend \in BOOLEAN /\ slot \in BOOLEAN /\ cancelled \in BOOLEAN
       /\ shownRunning \in BOOLEAN)'
  BY Zenon DEF TypeOK
<1>5. PcMatchesLifecycle'
  BY DEF PcMatchesLifecycle, AuthPcs, AuthenticatedContext
<1>6. HandlerOwesAnswer'
  BY DEF HandlerOwesAnswer, PcMatchesLifecycle, AuthPcs, AuthCommands
<1>7. BackendWhereUsed'
  BY DEF BackendWhereUsed, SessionIsUsable, PcMatchesLifecycle,
     HandlerOwesAnswer, TypeOK, LoginRequests, AuthPcs, AuthenticatedContext
<1>8. SyncIsOwned'
  BY DEF SyncIsOwned, PcMatchesLifecycle, AuthPcs, AuthenticatedContext
<1>9. SessionIsUsable'
  BY DEF SessionIsUsable, BackendWhereUsed, PcMatchesLifecycle, AuthPcs,
     AuthenticatedContext
<1>10. TokensStayInSession'
  BY DEF TokensStayInSession, PcMatchesLifecycle, AuthPcs,
     AuthenticatedContext, RoomCommands
<1>11. AnsweredOnce'
  BY DEF AnsweredOnce, PcMatchesLifecycle, HandlerOwesAnswer, AuthPcs,
     AuthCommands, AuthenticatedContext
<1> QED
  BY <1>1, <1>2, <1>3, <1>4, <1>5, <1>6, <1>7, <1>8, <1>9, <1>10, <1>11 DEF
     TypeOK

\* A login or a restore goes on: each way out goes through finish_auth.
LEMMA ResumeAuthKeepsInv == RuntimeInv /\ ResumeAuth => RuntimeInv'
<1> SUFFICES ASSUME RuntimeInv, ResumeAuth PROVE RuntimeInv'
  OBVIOUS
<1> USE RuntimeAssumption, MachineFacts DEF RuntimeInv, handlerVars,
    sessionVars, syncVars, ResumeAuth, AuthWithoutBackend, LoginRateLimited,
    LoginAccepted, LoginFails, LoginFallsBack, LateSession,
    LoginFindsMismatch, RecoverSucceeds, RecoverFails, FinalizeSucceeds,
    FinalizeFails, RestoreSucceeds, RestoreFails, FinishAuth, Return,
    AfterAuth, SaveSession, ForgetSession
<1>1. (/\ lifecycle \in LifecycleStates /\ pc \in Pcs /\ sync \in SyncPcs
       /\ answer \in Answers /\ command \in Commands \cup {"none"})'
  BY DEF TypeOK, LifecycleStates, Pcs, SyncPcs, Answers, AuthPcs, Commands,
     RoomCommands, AuthCommands
<1>2. (/\ request \in LoginRequests \cup {None} /\ attempt \in 0..MaxLoginRetries
       /\ initState \in Homeservers \cup {None} /\ client \in Users \cup {None})'
  BY DEF TypeOK, LoginRequests, HandlerOwesAnswer, BackendWhereUsed
<1>3. (/\ tokens \in [Rooms -> Tokens]
       /\ keyring \in [Homeservers -> Users \cup {None}])'
  BY DEF TypeOK, Tokens, Unopened, LoginRequests, HandlerOwesAnswer,
     BackendWhereUsed
<1>4. (/\ backend \in BOOLEAN /\ slot \in BOOLEAN /\ cancelled \in BOOLEAN
       /\ shownRunning \in BOOLEAN)'
  BY Zenon DEF TypeOK
<1>5. PcMatchesLifecycle'
  BY DEF PcMatchesLifecycle, AuthPcs, AuthenticatedContext
<1>6. HandlerOwesAnswer'
  BY DEF HandlerOwesAnswer, PcMatchesLifecycle, AuthPcs, AuthCommands
<1>7. BackendWhereUsed'
  BY DEF BackendWhereUsed, SessionIsUsable, PcMatchesLifecycle,
     HandlerOwesAnswer, TypeOK, LoginRequests, AuthPcs, AuthenticatedContext
<1>8. SyncIsOwned'
  BY DEF SyncIsOwned, PcMatchesLifecycle, AuthPcs, AuthenticatedContext
<1>9. SessionIsUsable'
  BY DEF SessionIsUsable, BackendWhereUsed, PcMatchesLifecycle, AuthPcs,
     AuthenticatedContext
<1>10. TokensStayInSession'
  BY DEF TokensStayInSession, PcMatchesLifecycle, AuthPcs,
     AuthenticatedContext, RoomCommands
<1>11. AnsweredOnce'
  BY DEF AnsweredOnce, PcMatchesLifecycle, HandlerOwesAnswer, AuthPcs,
     AuthCommands, AuthenticatedContext
<1> QED
  BY <1>1, <1>2, <1>3, <1>4, <1>5, <1>6, <1>7, <1>8, <1>9, <1>10, <1>11 DEF
     TypeOK

\* StartSync commits, StopSync and Logout have waited for the task.
LEMMA ResumeSessionKeepsInv == RuntimeInv /\ ResumeSession => RuntimeInv'
<1> SUFFICES ASSUME RuntimeInv, ResumeSession PROVE RuntimeInv'
  OBVIOUS
<1> USE RuntimeAssumption, MachineFacts DEF RuntimeInv, handlerVars,
    sessionVars, syncVars, ResumeSession, CommitSync, CommitStop,
    LogoutJoinsSync, LogoutSucceeds, LogoutFails, Return, ForgetSession,
    SyncJoined
<1>1. (/\ lifecycle \in LifecycleStates /\ pc \in Pcs /\ sync \in SyncPcs
       /\ answer \in Answers /\ command \in Commands \cup {"none"})'
  BY DEF TypeOK, LifecycleStates, Pcs, SyncPcs, Answers, AuthPcs, Commands,
     RoomCommands, AuthCommands
<1>2. (/\ request \in LoginRequests \cup {None} /\ attempt \in 0..MaxLoginRetries
       /\ initState \in Homeservers \cup {None} /\ client \in Users \cup {None})'
  BY DEF TypeOK, LoginRequests, HandlerOwesAnswer, BackendWhereUsed
<1>3. (/\ tokens \in [Rooms -> Tokens]
       /\ keyring \in [Homeservers -> Users \cup {None}])'
  BY DEF TypeOK, Tokens, Unopened, LoginRequests, HandlerOwesAnswer,
     BackendWhereUsed
<1>4. (/\ backend \in BOOLEAN /\ slot \in BOOLEAN /\ cancelled \in BOOLEAN
       /\ shownRunning \in BOOLEAN)'
  BY Zenon DEF TypeOK
<1>5. PcMatchesLifecycle'
  BY DEF PcMatchesLifecycle, AuthPcs, AuthenticatedContext
<1>6. HandlerOwesAnswer'
  BY DEF HandlerOwesAnswer, PcMatchesLifecycle, AuthPcs, AuthCommands
<1>7. BackendWhereUsed'
  BY DEF BackendWhereUsed, SessionIsUsable, PcMatchesLifecycle,
     HandlerOwesAnswer, TypeOK, LoginRequests, AuthPcs, AuthenticatedContext
<1>8. SyncIsOwned'
  BY DEF SyncIsOwned, PcMatchesLifecycle, AuthPcs, AuthenticatedContext
<1>9. SessionIsUsable'
  BY DEF SessionIsUsable, BackendWhereUsed, PcMatchesLifecycle, AuthPcs,
     AuthenticatedContext
<1>10. TokensStayInSession'
  BY DEF TokensStayInSession, PcMatchesLifecycle, AuthPcs,
     AuthenticatedContext, RoomCommands
<1>11. AnsweredOnce'
  BY DEF AnsweredOnce, PcMatchesLifecycle, HandlerOwesAnswer, AuthPcs,
     AuthCommands, AuthenticatedContext
<1> QED
  BY <1>1, <1>2, <1>3, <1>4, <1>5, <1>6, <1>7, <1>8, <1>9, <1>10, <1>11 DEF
     TypeOK

\* The sync task moves under any handler that may be suspended meanwhile.
LEMMA SyncTaskKeepsInv == RuntimeInv /\ SyncTask => RuntimeInv'
<1> SUFFICES ASSUME RuntimeInv, SyncTask PROVE RuntimeInv'
  OBVIOUS
<1> USE RuntimeAssumption, MachineFacts DEF RuntimeInv, handlerVars,
    sessionVars, syncVars, SyncTask, SyncAnnounces, SyncResponds, SyncErrs,
    SyncRetries, SyncObservesCancel, SyncExits, SyncMoves
<1>1. (/\ lifecycle \in LifecycleStates /\ pc \in Pcs /\ sync \in SyncPcs
       /\ answer \in Answers /\ command \in Commands \cup {"none"})'
  BY DEF TypeOK, LifecycleStates, Pcs, SyncPcs, Answers, AuthPcs, Commands,
     RoomCommands, AuthCommands
<1>2. (/\ request \in LoginRequests \cup {None} /\ attempt \in 0..MaxLoginRetries
       /\ initState \in Homeservers \cup {None} /\ client \in Users \cup {None})'
  BY DEF TypeOK, LoginRequests, HandlerOwesAnswer, BackendWhereUsed
<1>3. (/\ tokens \in [Rooms -> Tokens]
       /\ keyring \in [Homeservers -> Users \cup {None}])'
  BY DEF TypeOK, Tokens, Unopened, LoginRequests, HandlerOwesAnswer,
     BackendWhereUsed
<1>4. (/\ backend \in BOOLEAN /\ slot \in BOOLEAN /\ cancelled \in BOOLEAN
       /\ shownRunning \in BOOLEAN)'
  BY Zenon DEF TypeOK
<1>5. PcMatchesLifecycle'
  BY DEF PcMatchesLifecycle, AuthPcs, AuthenticatedContext
<1>6. HandlerOwesAnswer'
  BY DEF HandlerOwesAnswer, PcMatchesLifecycle, AuthPcs, AuthCommands
<1>7. BackendWhereUsed'
  BY DEF BackendWhereUsed, SessionIsUsable, PcMatchesLifecycle,
     HandlerOwesAnswer, TypeOK, LoginRequests, AuthPcs, AuthenticatedContext
<1>8. SyncIsOwned'
  BY DEF SyncIsOwned, PcMatchesLifecycle, AuthPcs, AuthenticatedContext
<1>9. SessionIsUsable'
  BY DEF SessionIsUsable, BackendWhereUsed, PcMatchesLifecycle, AuthPcs,
     AuthenticatedContext
<1>10. TokensStayInSession'
  BY DEF TokensStayInSession, PcMatchesLifecycle, AuthPcs,
     AuthenticatedContext, RoomCommands
<1>11. AnsweredOnce'
  BY DEF AnsweredOnce, PcMatchesLifecycle, HandlerOwesAnswer, AuthPcs,
     AuthCommands, AuthenticatedContext
<1> QED
  BY <1>1, <1>2, <1>3, <1>4, <1>5, <1>6, <1>7, <1>8, <1>9, <1>10, <1>11 DEF
     TypeOK

\* A restart forgets everything but the keyring.
LEMMA RestartKeepsInv == RuntimeInv /\ Restart => RuntimeInv'
<1> SUFFICES ASSUME RuntimeInv, Restart PROVE RuntimeInv'
  OBVIOUS
<1> USE RuntimeAssumption, MachineFacts DEF RuntimeInv, handlerVars,
    sessionVars, syncVars, Restart
<1>1. (/\ lifecycle \in LifecycleStates /\ pc \in Pcs /\ sync \in SyncPcs
       /\ answer \in Answers /\ command \in Commands \cup {"none"})'
  BY DEF TypeOK, LifecycleStates, Pcs, SyncPcs, Answers, AuthPcs, Commands,
     RoomCommands, AuthCommands
<1>2. (/\ request \in LoginRequests \cup {None} /\ attempt \in 0..MaxLoginRetries
       /\ initState \in Homeservers \cup {None} /\ client \in Users \cup {None})'
  BY DEF TypeOK, LoginRequests, HandlerOwesAnswer, BackendWhereUsed
<1>3. (/\ tokens \in [Rooms -> Tokens]
       /\ keyring \in [Homeservers -> Users \cup {None}])'
  BY DEF TypeOK, Tokens, Unopened, LoginRequests, HandlerOwesAnswer,
     BackendWhereUsed
<1>4. (/\ backend \in BOOLEAN /\ slot \in BOOLEAN /\ cancelled \in BOOLEAN
       /\ shownRunning \in BOOLEAN)'
  BY Zenon DEF TypeOK
<1>5. PcMatchesLifecycle'
  BY DEF PcMatchesLifecycle, AuthPcs, AuthenticatedContext
<1>6. HandlerOwesAnswer'
  BY DEF HandlerOwesAnswer, PcMatchesLifecycle, AuthPcs, AuthCommands
<1>7. BackendWhereUsed'
  BY DEF BackendWhereUsed, SessionIsUsable, PcMatchesLifecycle,
     HandlerOwesAnswer, TypeOK, LoginRequests, AuthPcs, AuthenticatedContext
<1>8. SyncIsOwned'
  BY DEF SyncIsOwned, PcMatchesLifecycle, AuthPcs, AuthenticatedContext
<1>9. SessionIsUsable'
  BY DEF SessionIsUsable, BackendWhereUsed, PcMatchesLifecycle, AuthPcs,
     AuthenticatedContext
<1>10. TokensStayInSession'
  BY DEF TokensStayInSession, PcMatchesLifecycle, AuthPcs,
     AuthenticatedContext, RoomCommands
<1>11. AnsweredOnce'
  BY DEF AnsweredOnce, PcMatchesLifecycle, HandlerOwesAnswer, AuthPcs,
     AuthCommands, AuthenticatedContext
<1> QED
  BY <1>1, <1>2, <1>3, <1>4, <1>5, <1>6, <1>7, <1>8, <1>9, <1>10, <1>11 DEF
     TypeOK

LEMMA StutterKeepsInv == RuntimeInv /\ UNCHANGED vars => RuntimeInv'
  BY DEF RuntimeInv, vars, handlerVars, sessionVars, syncVars, TypeOK,
     PcMatchesLifecycle, HandlerOwesAnswer, BackendWhereUsed, SyncIsOwned,
     SessionIsUsable, TokensStayInSession, AnsweredOnce

\* The runtime keeps its invariant whatever the homeserver, the keyring, the
\* sync task and the commands' order are.
THEOREM RuntimeInvariant == Spec => []RuntimeInv
<1>1. RuntimeInv /\ [Next]_vars => RuntimeInv'
  BY TakeCommandKeepsInv, ResumeAuthKeepsInv, ResumeSessionKeepsInv,
     SyncTaskKeepsInv, RestartKeepsInv, StutterKeepsInv DEF Next, Resume
<1> QED
  BY InitEstablishes, <1>1, PTL DEF Spec

-----------------------------------------------------------------------------
(* What follows for the frontend.                                          *)

THEOREM TypeCorrect == Spec => []TypeOK
<1>1. RuntimeInv => TypeOK
  BY DEF RuntimeInv
<1> QED
  BY RuntimeInvariant, <1>1, PTL

\* A frontend told Authenticated or Syncing has a backend with a session.
THEOREM SessionAlwaysUsable == Spec => []SessionIsUsable
<1>1. RuntimeInv => SessionIsUsable
  BY DEF RuntimeInv
<1> QED
  BY RuntimeInvariant, <1>1, PTL

\* No sync task outlives the session that started it.
THEOREM SyncAlwaysInSession == Spec => []SyncStaysInSession
<1>1. RuntimeInv => SyncStaysInSession
  BY DEF RuntimeInv, SyncIsOwned, PcMatchesLifecycle, SyncStaysInSession
<1> QED
  BY RuntimeInvariant, <1>1, PTL

\* StartSync is never refused for a task left behind.
THEOREM SlotAlwaysFree == Spec => []StartSyncFindsFreeSlot
<1>1. RuntimeInv => StartSyncFindsFreeSlot
  BY DEF RuntimeInv, SyncIsOwned, PcMatchesLifecycle, StartSyncFindsFreeSlot
<1> QED
  BY RuntimeInvariant, <1>1, PTL

\* The last SyncStatus says running only while a task lives in Syncing.
THEOREM StatusNeverStale == Spec => []StatusNotStale
<1>1. RuntimeInv => StatusNotStale
  BY DEF RuntimeInv, SyncIsOwned, PcMatchesLifecycle, StatusNotStale
<1> QED
  BY RuntimeInvariant, <1>1, PTL

\* Each login, restore and acked request is answered exactly once.
THEOREM AlwaysAnsweredOnce == Spec => []AnsweredOnce
<1>1. RuntimeInv => AnsweredOnce
  BY DEF RuntimeInv
<1> QED
  BY RuntimeInvariant, <1>1, PTL

\* No pagination token crosses from one session to the next.
THEOREM TokensAlwaysInSession == Spec => []TokensStayInSession
<1>1. RuntimeInv => TokensStayInSession
  BY DEF RuntimeInv
<1> QED
  BY RuntimeInvariant, <1>1, PTL

\* The only step into LoggedOut is the end of a logout whose wipe succeeded.
THEOREM LogoutAlwaysForgets == Spec => LogoutForgets
<1> DEFINE Forgets == lifecycle' = "LoggedOut" /\ lifecycle # "LoggedOut" =>
                         /\ keyring'[initState] = None
                         /\ ~backend' /\ sync' = "off" /\ tokens' = Unopened
<1>1. RuntimeInv /\ [Next]_vars => [Forgets]_vars
  <2> SUFFICES ASSUME RuntimeInv, [Next]_vars, lifecycle' = "LoggedOut",
                      lifecycle # "LoggedOut"
               PROVE  /\ keyring'[initState] = None
                      /\ ~backend' /\ sync' = "off" /\ tokens' = Unopened
    OBVIOUS
  <2> USE MachineFacts
  <2>1. LogoutSucceeds
    <3>1. ~TakeCommand
      BY DEF TakeCommand, CommandRefused, InitSucceeds, InitFails, BeginLogin,
         BeginRestore, SpawnSync, CancelSync, StopSyncFails,
         BeginLogout, LogoutWithoutBackend, PageFetched, RoomCommandDone,
         RoomCommandFails
    <3>2. ~ResumeAuth
      BY DEF ResumeAuth, AuthWithoutBackend, LoginRateLimited, LoginAccepted,
         LoginFails, LoginFallsBack, LateSession, LoginFindsMismatch,
         RecoverSucceeds, RecoverFails, FinalizeSucceeds, FinalizeFails,
         RestoreSucceeds, RestoreFails, FinishAuth, AfterAuth
    <3>3. ~(CommitSync \/ CommitStop \/ LogoutJoinsSync \/ LogoutFails)
      BY DEF CommitSync, CommitStop, LogoutJoinsSync, LogoutFails
    <3>4. ~(SyncTask \/ Restart \/ UNCHANGED vars)
      BY DEF SyncTask, SyncAnnounces, SyncResponds, SyncErrs, SyncRetries,
         SyncObservesCancel, SyncExits, SyncMoves, Restart, vars, handlerVars
    <3> QED
      BY <3>1, <3>2, <3>3, <3>4 DEF Next, Resume, ResumeSession
  <2>2. initState \in Homeservers
    BY <2>1 DEF RuntimeInv, TypeOK, LogoutSucceeds, BackendWhereUsed
  <2> QED
    BY <2>1, <2>2 DEF RuntimeInv, TypeOK, LogoutSucceeds, ForgetSession, SyncIsOwned
<1> QED
  BY RuntimeInvariant, <1>1, PTL DEF LogoutForgets, Spec

-----------------------------------------------------------------------------
(* Refinement: each group of actions does what SessionService allows.      *)

LEMMA ServiceInitHolds == Init => Service!ServiceInit
  BY DEF Init, Service!ServiceInit, AuthenticatedContext

\* The machine of the abstract specification is the runtime's.
LEMMA SameMachine ==
    ASSUME NEW s
    PROVE  /\ \A c : Service!Accepts(s, c) <=> Accepts(s, c)
           /\ \A c : Service!Target(s, c) = Target(s, c)
           /\ \A success : Service!AfterAuth(s, success) = AfterAuth(s, success)
  BY DEF Service!Accepts, Service!Sources, Service!Target, Service!AfterAuth,
     Service!AuthCommands, Service!AuthenticatedContext, Accepts, Sources,
     Target, AfterAuth, AuthCommands, AuthenticatedContext

\* A step that keeps the lifecycle, the account and the task is a stutter.
LEMMA StutterServes ==
    UNCHANGED <<lifecycle, client, sync>> => UNCHANGED Service!serviceVars
  BY DEF Service!serviceVars

\* Taking a command configures, begins an authentication, opens the feed or
\* shows nothing.
LEMMA TakeCommandServes ==
    RuntimeInv /\ TakeCommand => [Service!ServiceNext]_Service!serviceVars
<1> SUFFICES ASSUME RuntimeInv, TakeCommand
             PROVE  Service!ServiceNext \/ UNCHANGED Service!serviceVars
  OBVIOUS
<1> USE MachineFacts, SameMachine DEF handlerVars, sessionVars, syncVars
<1>1. ASSUME NEW h \in Homeservers, InitSucceeds(h) PROVE Service!Configure
  <2>1. lifecycle \in {"Cold", "Configured", "LoggedOut"}
    BY <1>1 DEF InitSucceeds
  <2>2. Service!Accepts(lifecycle, "Init")
    BY <2>1
  <2>3. lifecycle' = Service!Target(lifecycle, "Init") /\ lifecycle' = "Configured"
    BY <1>1 DEF InitSucceeds
  <2>4. sync' = sync
    BY <1>1 DEF InitSucceeds
  <2> QED
    BY <2>1, <2>2, <2>3, <2>4 DEF Service!Configure, AuthenticatedContext
<1>2. ASSUME (\E r \in LoginRequests : BeginLogin(r)) \/ BeginRestore
      PROVE  Service!BeginAuth
  BY <1>2 DEF BeginLogin, BeginRestore, Service!BeginAuth, AuthenticatedContext
<1>3. CASE SpawnSync
  <2>1. lifecycle = "Authenticated" /\ pc = "idle"
    BY <1>3 DEF SpawnSync, Begin, Handled
  <2>2. backend /\ ~slot /\ sync = "off"
    BY <2>1 DEF RuntimeInv, SyncIsOwned, SessionIsUsable, AuthenticatedContext
  <2> QED
    BY <1>3, <2>1, <2>2 DEF SpawnSync, Service!OpenFeed, Service!ServiceNext
<1>4. ASSUME \/ \E c \in Commands : CommandRefused(c)
             \/ InitFails \/ CancelSync \/ StopSyncFails
             \/ BeginLogout \/ LogoutWithoutBackend
             \/ \E c \in {"OpenRoom", "PaginateBack"}, r \in Rooms : PageFetched(c, r)
             \/ \E c \in {"AckedRequest", "PlainRequest"} : RoomCommandDone(c)
             \/ \E c \in RoomCommands : RoomCommandFails(c)
      PROVE  UNCHANGED <<lifecycle, client, sync>>
  BY <1>4 DEF CommandRefused, InitFails, CancelSync,
     StopSyncFails, BeginLogout, LogoutWithoutBackend, PageFetched,
     RoomCommandDone, RoomCommandFails, TakeSyncTask
<1> QED
  BY <1>1, <1>2, <1>3, <1>4, StutterServes DEF TakeCommand, Service!ServiceNext

\* An authentication that goes on succeeds, fails or is not over yet; only a
\* session the client holds at the end is announced.
LEMMA ResumeAuthServes ==
    RuntimeInv /\ ResumeAuth => [Service!ServiceNext]_Service!serviceVars
<1> SUFFICES ASSUME RuntimeInv, ResumeAuth
             PROVE  Service!ServiceNext \/ UNCHANGED Service!serviceVars
  OBVIOUS
<1> USE SameMachine DEF handlerVars, sessionVars, syncVars, FinishAuth, AfterAuth
<1>1. lifecycle = "Authenticating"
  BY DEF ResumeAuth, AuthWithoutBackend, LoginRateLimited, LoginAccepted,
     LoginFails, LoginFallsBack, LateSession, LoginFindsMismatch,
     RecoverSucceeds, RecoverFails, FinalizeSucceeds, FinalizeFails,
     RestoreSucceeds, RestoreFails, RuntimeInv, PcMatchesLifecycle, AuthPcs
<1>2. ASSUME LoginRateLimited \/ LoginAccepted \/ LoginFindsMismatch \/ RecoverSucceeds
      PROVE  UNCHANGED Service!serviceVars
  BY <1>1, <1>2 DEF LoginRateLimited, LoginAccepted, LoginFindsMismatch,
     RecoverSucceeds, Service!serviceVars, AuthenticatedContext
<1>3. ASSUME \/ AuthWithoutBackend \/ LoginFails
             \/ RecoverFails \/ FinalizeFails \/ RestoreFails
             \/ (LoginFallsBack /\ client' = None)
      PROVE  Service!AuthFails
  BY <1>1, <1>3 DEF AuthWithoutBackend, LoginFails, LateSession, RecoverFails,
     FinalizeFails, RestoreFails, LoginFallsBack, Service!AuthFails,
     AuthenticatedContext
<1>4. ASSUME FinalizeSucceeds \/ RestoreSucceeds \/ (LoginFallsBack /\ client' # None)
      PROVE  client' \in Users /\ Service!AuthSucceeds(client')
  <2>1. client' # None
    BY <1>4 DEF FinalizeSucceeds, RestoreSucceeds, RuntimeInv, BackendWhereUsed
  <2>2. client' \in Users
    BY <2>1, ResumeAuthKeepsInv DEF RuntimeInv, TypeOK
  <2>3. lifecycle' = "Authenticated" /\ sync' = sync
    BY <1>1, <1>4 DEF FinalizeSucceeds, RestoreSucceeds, LoginFallsBack
  <2> QED
    BY <1>1, <2>2, <2>3 DEF Service!AuthSucceeds, AuthenticatedContext
<1> HIDE DEF FinishAuth, AfterAuth, handlerVars, sessionVars, syncVars
<1>5. \/ LoginRateLimited \/ LoginAccepted \/ LoginFindsMismatch \/ RecoverSucceeds
      \/ AuthWithoutBackend \/ LoginFails
      \/ RecoverFails \/ FinalizeFails \/ RestoreFails
      \/ (LoginFallsBack /\ client' = None)
      \/ FinalizeSucceeds \/ RestoreSucceeds \/ (LoginFallsBack /\ client' # None)
  BY DEF ResumeAuth
<1>6. CASE FinalizeSucceeds \/ RestoreSucceeds \/ (LoginFallsBack /\ client' # None)
  BY <1>4, <1>6, Zenon DEF Service!ServiceNext
<1> QED
  BY <1>2, <1>3, <1>5, <1>6, Zenon DEF Service!ServiceNext

\* The session's handlers enter sync, or leave it and sign out once the task
\* is gone.
LEMMA ResumeSessionServes ==
    RuntimeInv /\ ResumeSession => [Service!ServiceNext]_Service!serviceVars
<1> SUFFICES ASSUME RuntimeInv, ResumeSession
             PROVE  Service!ServiceNext \/ UNCHANGED Service!serviceVars
  OBVIOUS
<1> USE MachineFacts, SameMachine DEF handlerVars, sessionVars, syncVars, RuntimeInv,
    PcMatchesLifecycle, SyncIsOwned
<1>1. CommitSync => Service!EnterSync
  BY DEF CommitSync, Service!EnterSync, AuthenticatedContext
<1>2. CommitStop => Service!LeaveSync
  BY DEF CommitStop, SyncJoined, Service!LeaveSync, AuthenticatedContext
<1>3. LogoutSucceeds => Service!SignOut
  BY DEF LogoutSucceeds, Service!SignOut, AuthenticatedContext
<1>4. LogoutJoinsSync \/ LogoutFails => UNCHANGED <<lifecycle, client, sync>>
  BY DEF LogoutJoinsSync, LogoutFails
<1> QED
  BY <1>1, <1>2, <1>3, <1>4, StutterServes DEF ResumeSession, Service!ServiceNext

\* The task shows the frontend's side only its end.
LEMMA SyncTaskServes == SyncTask => [Service!ServiceNext]_Service!serviceVars
<1> SUFFICES ASSUME SyncTask
             PROVE  Service!ServiceNext \/ UNCHANGED Service!serviceVars
  OBVIOUS
<1>1. UNCHANGED <<lifecycle, client>> /\ sync # "off"
  BY DEF SyncTask, SyncAnnounces, SyncResponds, SyncErrs, SyncRetries,
     SyncObservesCancel, SyncExits, SyncMoves, handlerVars, sessionVars
<1>2. CASE sync' = "off"
  BY <1>1, <1>2 DEF Service!FeedEnds, Service!ServiceNext
<1>3. CASE sync' # "off"
  BY <1>1, <1>3 DEF Service!serviceVars
<1> QED
  BY <1>2, <1>3

\* The runtime implements SessionService: one account per session, a feed only
\* inside it.
THEOREM RuntimeImplementsService == Spec => ImplementsService
<1>1. RuntimeInv /\ [Next]_vars => [Service!ServiceNext]_Service!serviceVars
  <2>1. Restart => Service!Restart
    BY DEF Restart, Service!Restart, AuthenticatedContext
  <2>2. UNCHANGED vars => UNCHANGED <<lifecycle, client, sync>>
    BY DEF vars, handlerVars, sessionVars, syncVars
  <2> QED
    BY <2>1, <2>2, StutterServes, TakeCommandServes, ResumeAuthServes,
       ResumeSessionServes, SyncTaskServes DEF Next, Resume, Service!ServiceNext
<1> QED
  BY RuntimeInvariant, ServiceInitHolds, <1>1, PTL
     DEF ImplementsService, Service!ServiceSpec, Spec

-----------------------------------------------------------------------------
(* The delays of RetryPolicy, for every policy, attempt and hint.          *)

LEMMA Powers ==
    /\ \A k \in 1..21 : PowersOfTwo[k] \in Nat /\ PowersOfTwo[k] >= 1
    /\ \A k \in 1..21, l \in 1..21 : k <= l => PowersOfTwo[k] <= PowersOfTwo[l]
BY DEF PowersOfTwo

LEMMA MultiplierFacts ==
    ASSUME NEW a \in Nat, NEW b \in Nat, a <= b
    PROVE  /\ Multiplier(a) \in Nat /\ Multiplier(a) >= 1
           /\ Multiplier(b) \in Nat
           /\ Multiplier(a) <= Multiplier(b)
<1>1. /\ AtMost(a, 20) + 1 \in 1..21 /\ AtMost(b, 20) + 1 \in 1..21
      /\ AtMost(a, 20) + 1 <= AtMost(b, 20) + 1
  BY DEF AtMost
<1>2. QED BY <1>1, Powers DEF Multiplier

LEMMA ProductGrows ==
    ASSUME NEW x \in Nat, NEW m \in Nat, NEW n \in Nat, m <= n
    PROVE  x * m \in Nat /\ x * n \in Nat /\ x * m <= x * n
OBVIOUS

LEMMA CalculatedFacts ==
    ASSUME NEW a \in Nat, NEW b \in Nat, a <= b
    PROVE  /\ Calculated(a) \in 1..WordMax
           /\ Calculated(b) \in 1..WordMax
           /\ Calculated(a) <= Calculated(b)
<1>1. BaseDelay \in Nat /\ BaseDelay >= 1 /\ WordMax \in Nat /\ WordMax >= 1
  BY RetryAssumption
<1>2. /\ Multiplier(a) \in Nat /\ Multiplier(a) >= 1 /\ Multiplier(b) \in Nat
      /\ Multiplier(a) <= Multiplier(b) /\ 1 <= Multiplier(b)
  BY MultiplierFacts
<1>3. /\ BaseDelay * Multiplier(a) \in Nat /\ BaseDelay * Multiplier(b) \in Nat
      /\ BaseDelay * Multiplier(a) <= BaseDelay * Multiplier(b)
  BY <1>1, <1>2, ProductGrows
<1>4. BaseDelay * 1 <= BaseDelay * Multiplier(a)
  BY <1>1, <1>2, ProductGrows
<1>5. BaseDelay * 1 >= 1
  BY <1>1
<1>6. QED
  BY <1>1, <1>3, <1>4, <1>5 DEF Calculated, AtMost

\* RetryPolicy::delay_for_attempt never makes a caller spin and never makes it
\* wait longer than the policy's maximum, however long the failures last, since
\* the shift is cut at 20 and the product saturates.
THEOREM DelayInBounds ==
    ASSUME NEW a \in Nat, NEW hint \in Hints
    PROVE  DelayForAttempt(a, hint) \in 1..MaxDelay
<1>1. Calculated(a) \in 1..WordMax
  BY CalculatedFacts
<1>2. MaxDelay \in Nat /\ MaxDelay >= 1 /\ WordMax \in Nat
  BY RetryAssumption
<1>3. QED
  BY <1>1, <1>2 DEF DelayForAttempt, HintOr, AtLeast, AtMost, Hints, NoHint, Durations

\* Each failure in a row makes delay_for_attempt wait at least as long as the
\* one before, with the same hint.
THEOREM DelayGrows ==
    ASSUME NEW a \in Nat, NEW b \in Nat, NEW hint \in Hints, a <= b
    PROVE  DelayForAttempt(a, hint) <= DelayForAttempt(b, hint)
<1>1. /\ Calculated(a) \in 1..WordMax /\ Calculated(b) \in 1..WordMax
      /\ Calculated(a) <= Calculated(b)
  BY CalculatedFacts
<1>2. MaxDelay \in Nat /\ WordMax \in Nat
  BY RetryAssumption
<1>3. QED
  BY <1>1, <1>2 DEF DelayForAttempt, HintOr, AtLeast, AtMost, Hints, NoHint, Durations

\* A server that says how long to wait is obeyed by the sync loop exactly when
\* the policy's maximum allows it (a longer hint is cut to the maximum and the
\* server asked too early), and by a login always.  A login waits for LeastWait at
\* least, whatever the server says or does not say: a hint of 0 is no spin.
THEOREM HintIsObeyed ==
    ASSUME NEW a \in Nat, NEW error \in SdkErrors
    PROVE  /\ error.hint # NoHint =>
                 /\ error.hint <= SyncWait(a, error) <=> error.hint <= MaxDelay
                 /\ error.hint <= LoginWait(error.hint)
           /\ LoginWait(error.hint) >= LeastWait /\ LeastWait >= 1
<1>1. Calculated(a) \in 1..WordMax
  BY CalculatedFacts
<1>2. /\ MaxDelay \in Nat /\ WordMax \in Nat /\ DefaultWait \in Nat
      /\ LeastWait \in Nat /\ LeastWait >= 1
  BY RetryAssumption
<1>3. error.hint \in Hints /\ MapMatrixError(error).hint = error.hint
  BY DEF SdkErrors, Hints, MapMatrixError
<1>4. error.hint = NoHint \/ error.hint \in Nat
  BY <1>2, <1>3 DEF Hints, Durations
<1>5. ASSUME error.hint # NoHint
      PROVE  error.hint <= SyncWait(a, error) <=> error.hint <= MaxDelay
  BY <1>1, <1>2, <1>3, <1>4, <1>5 DEF SyncWait, DelayForAttempt, HintOr, AtLeast, AtMost
<1>6. ASSUME error.hint # NoHint PROVE error.hint <= LoginWait(error.hint)
  BY <1>2, <1>4, <1>6 DEF LoginWait, HintOr, AtLeast
<1>7. LoginWait(error.hint) >= LeastWait
  BY <1>2, <1>4 DEF LoginWait, HintOr, AtLeast
<1>8. QED BY <1>2, <1>5, <1>6, <1>7

\* The sync loop goes on after everything that may pass: a server that limits
\* or fails, or cannot be reached; and it ends at once when the session is not
\* accepted any more, so that it does not ask for ever with a dead token.
THEOREM WhatIsRetried ==
    ASSUME NEW error \in SdkErrors
    PROVE  /\ error.class = "transport" \/ error.status \in {408, 429} \cup 500..599
                => IsRecoverableSyncError(MapMatrixError(error))
           /\ error.class = "unauthenticated" \/ error.status \in {401, 403}
                => ~IsRecoverableSyncError(MapMatrixError(error))
<1>1. CASE error \in [class : {"http"}, status : Nat, hint : Hints]
  BY <1>1 DEF IsRecoverableSyncError, MapMatrixError, ClassifyHttpStatus
<1>2. CASE error \in [class : {"transport", "unauthenticated", "crypto", "store",
                               "json", "other"}, status : {0}, hint : {NoHint}]
  BY <1>2 DEF IsRecoverableSyncError, MapMatrixError, ClassifyHttpStatus
<1>3. QED BY <1>1, <1>2 DEF SdkErrors

\* The numbers are well ordered.
LEMMA LessThan ==
    \A n, m \in Nat : <<n, m>> \notin OpToRel(<, Nat) => m <= n
BY DEF OpToRel

LEMMA LeastNumber ==
    ASSUME NEW S \in SUBSET Nat, S # {}
    PROVE  \E m \in S : \A n \in S : m <= n
<1>1. \E m \in S : \A n \in S : <<n, m>> \notin OpToRel(<, Nat)
  BY NatLessThanWellFounded, WFMin
<1>2. QED BY <1>1, LessThan

LEMMA PowersDouble ==
    \A k \in 1..20 : PowersOfTwo[k + 1] = 2 * PowersOfTwo[k]
BY DEF PowersOfTwo

\* Cutting at each step is cutting at the end.
LEMMA CutProduct ==
    ASSUME NEW x \in Nat, NEW w \in Nat
    PROVE  AtMost(2 * AtMost(x, w), w) = AtMost(2 * x, w)
BY DEF AtMost

LEMMA CalculatedDoubles ==
    /\ Calculated(0) = BaseDelay
    /\ \A a \in 1..20 : Calculated(a) = AtMost(2 * Calculated(a - 1), WordMax)
<1>1. BaseDelay \in Nat /\ BaseDelay >= 1 /\ WordMax \in Nat /\ BaseDelay <= WordMax
  BY RetryAssumption
<1>2. Calculated(0) = BaseDelay
  <2>1. Multiplier(0) = 1
    BY DEF Multiplier, AtMost, PowersOfTwo
  <2>2. QED BY <1>1, <2>1 DEF Calculated, AtMost
<1>3. ASSUME NEW a \in 1..20
      PROVE  Calculated(a) = AtMost(2 * Calculated(a - 1), WordMax)
  <2>1. Multiplier(a) = PowersOfTwo[a + 1] /\ Multiplier(a - 1) = PowersOfTwo[a]
    BY DEF Multiplier, AtMost
  <2>2. PowersOfTwo[a] \in Nat /\ PowersOfTwo[a + 1] = 2 * PowersOfTwo[a]
    BY Powers, PowersDouble
  <2> DEFINE p == PowersOfTwo[a]
  <2>3. p \in Nat /\ Multiplier(a) = 2 * p /\ Multiplier(a - 1) = p
    BY <2>1, <2>2
  <2> HIDE DEF p
  <2>4. BaseDelay * p \in Nat /\ BaseDelay * (2 * p) = 2 * (BaseDelay * p)
    BY <1>1, <2>3
  <2>5. Calculated(a) = AtMost(2 * (BaseDelay * p), WordMax)
        /\ Calculated(a - 1) = AtMost(BaseDelay * p, WordMax)
    BY <2>3, <2>4 DEF Calculated
  <2>6. QED BY <1>1, <2>4, <2>5, CutProduct
<1>4. QED BY <1>2, <1>3

\* The function Doubled exists.
LEMMA DoubledIsDefined ==
    Doubled = [a \in 0..20 |-> IF a = 0 THEN BaseDelay ELSE AtMost(2 * Doubled[a - 1], WordMax)]
<1> DEFINE Right(f) ==
      f = [a \in 0..20 |-> IF a = 0 THEN BaseDelay ELSE AtMost(2 * f[a - 1], WordMax)]
           g == [a \in 0..20 |-> Calculated(a)]
<1>1. \A a \in 0..20 : g[a] = IF a = 0 THEN BaseDelay ELSE AtMost(2 * g[a - 1], WordMax)
  <2>1. ASSUME NEW a \in 0..20
        PROVE  g[a] = IF a = 0 THEN BaseDelay ELSE AtMost(2 * g[a - 1], WordMax)
    <3>1. CASE a = 0
      BY <3>1, CalculatedDoubles
    <3>2. CASE a # 0
      <4>1. a \in 1..20 /\ a - 1 \in 0..20
        BY <3>2
      <4>2. g[a - 1] = Calculated(a - 1) /\ g[a] = Calculated(a)
        BY <4>1
      <4>3. QED BY <3>2, <4>1, <4>2, CalculatedDoubles
    <3>3. QED BY <3>1, <3>2
  <2>2. QED BY <2>1
<1>2. Right(g)
  BY <1>1
<1>3. \E f : Right(f)
  BY <1>2
<1>4. Doubled = CHOOSE f : Right(f)
  BY DEF Doubled
<1> HIDE DEF Right
<1>5. Right(Doubled)
  BY <1>3, <1>4
<1>6. QED BY <1>5 DEF Right

\* ... and is what the code computes.
LEMMA DoubledIsCalculated == \A a \in 0..20 : Doubled[a] = Calculated(a)
<1> DEFINE wrong == {a \in 0..20 : Doubled[a] # Calculated(a)}
<1>1. SUFFICES ASSUME wrong # {} PROVE FALSE
  OBVIOUS
<1>2. wrong \in SUBSET Nat
  OBVIOUS
<1> HIDE DEF wrong
<1>3. PICK m \in wrong : \A n \in wrong : m <= n
  BY <1>1, <1>2, LeastNumber
<1>4. m \in 0..20 /\ Doubled[m] # Calculated(m)
  BY <1>3 DEF wrong
<1>5. Doubled[m] = IF m = 0 THEN BaseDelay ELSE AtMost(2 * Doubled[m - 1], WordMax)
  BY <1>4, DoubledIsDefined
<1>6. m # 0
  BY <1>4, <1>5, CalculatedDoubles
<1>7. m - 1 \in 0..20 /\ m - 1 \notin wrong
  BY <1>2, <1>3, <1>4, <1>6
<1>8. Doubled[m - 1] = Calculated(m - 1)
  BY <1>7 DEF wrong
<1>9. QED BY <1>4, <1>5, <1>6, <1>8, CalculatedDoubles

\* retry.rs's shift, product and two cuts are the doubling they stand for: each
\* failure doubles the delay, 20 times at most, and no product ever wraps.
THEOREM DelayAlwaysDoubles ==
    ASSUME NEW a \in Nat, NEW hint \in Hints
    PROVE  DelayDoubles(a, hint)
<1>1. AtMost(a, 20) \in 0..20
  BY DEF AtMost
<1>2. Calculated(AtMost(a, 20)) = Calculated(a)
  BY DEF Calculated, Multiplier, AtMost
<1>3. Doubled[AtMost(a, 20)] = Calculated(a)
  BY <1>1, <1>2, DoubledIsCalculated
<1>4. QED BY <1>3 DEF DelayDoubles, DelayForAttempt
=============================================================================
