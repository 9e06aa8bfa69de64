------------------------- MODULE DesktopSessionProofs -------------------------
(***************************************************************************)
(* Signing in and out, proved for any accounts, any length of the queues,  *)
(* any number of restarts and a screen drawn as late as it likes.          *)
(*                                                                         *)
(* All four results say that at rest something is settled, so their        *)
(* invariants say who still has to settle it.  Every command of the two    *)
(* queues leaves the event that its sender counts on, and the last event   *)
(* that moves the login pane is right about the runtime's lifecycle.       *)
(***************************************************************************)
EXTENDS DesktopSession, SequenceTheorems, TLAPS

CommandType == [op : Commands, user : Accounts \cup {None}, persist : BOOLEAN]
EventType == {"authOk", "authFailed", "loggedOut", "fatal"}

Has(s, S) == \E k \in 1..Len(s) : s[k] \in S
HasOp(s, ops) == \E k \in 1..Len(s) : s[k].op \in ops

\* Every authOk of s has one of S behind it.
OkFollowedBy(s, S) ==
    \A k \in 1..Len(s) : s[k] = "authOk" =>
        \E j \in 1..Len(s) : j > k /\ s[j] \in S

\* TypeOK, and what the threads hold between their steps.
Typed ==
    /\ TypeOK
    /\ ui # "idle" => typed # None
    /\ worker = "post" => snapshot \in Panes

AuthComes ==
    HasOp(commands, AuthCommands) \/ Has(events, {"authOk", "authFailed"})

\* Who clears the intent, and who releases the form.
Awaited ==
    /\ ui = "idle" /\ intent # None => AuthComes \/ worker = "takeIntent"
    /\ ui = "idle" /\ form.inFlight =>
          \/ AuthComes
          \/ worker \in {"takeIntent", "saveProfile", "reduceSignedIn", "reduceFailed"}

\* Who starts the sync.
SyncComes ==
    lifecycle = "Authenticated" =>
        Has(events, {"authOk"}) \/ HasOp(commands, {"StartSync"})

\* Who shows the login pane again.
ToForm == {"authFailed", "loggedOut"}
FormComes ==
    lifecycle \notin AuthenticatedContext =>
        /\ OkFollowedBy(events, ToForm)
        /\ worker \in {"takeIntent", "saveProfile", "reduceSignedIn"}
              => Has(events, ToForm)
        /\ ~form.shown =>
              \/ Has(events, ToForm)
              \/ worker \in {"reduceFailed", "dropIntent", "reduceLoggedOut"}
              \/ HasOp(commands, AuthCommands)
              \/ ui # "idle"

\* Who deletes the profile.
WipeComes ==
    lifecycle = "LoggedOut" =>
        /\ keyring = None
        /\ OkFollowedBy(events, {"loggedOut"})
        /\ worker \in {"takeIntent", "saveProfile"} => Has(events, {"loggedOut"})
        /\ profile # None /\ ~diskFault => Has(events, {"loggedOut"})

-----------------------------------------------------------------------------
(* The queues.                                                             *)

LEMMA TailFacts ==
    ASSUME NEW T, NEW s \in Seq(T), s # <<>>
    PROVE  /\ Head(s) \in T /\ Tail(s) \in Seq(T)
           /\ Len(s) \in Nat /\ Len(s) > 0 /\ Len(Tail(s)) = Len(s) - 1
           /\ s[1] = Head(s)
           /\ \A k \in 1..Len(Tail(s)) : Tail(s)[k] = s[k + 1]
OBVIOUS

LEMMA TailHas ==
    ASSUME NEW T, NEW s \in Seq(T), s # <<>>, NEW S
    PROVE  /\ Has(s, S) => Head(s) \in S \/ Has(Tail(s), S)
           /\ HasOp(s, S) => Head(s).op \in S \/ HasOp(Tail(s), S)
<1>1. ASSUME NEW k \in 1..Len(s), k # 1
      PROVE  k - 1 \in 1..Len(Tail(s)) /\ Tail(s)[k - 1] = s[k]
  BY <1>1, TailFacts
<1> QED
  BY <1>1, TailFacts DEF Has, HasOp

LEMMA TailFollowed ==
    ASSUME NEW T, NEW s \in Seq(T), s # <<>>, NEW S, OkFollowedBy(s, S)
    PROVE  /\ OkFollowedBy(Tail(s), S)
           /\ Head(s) = "authOk" => Has(Tail(s), S)
<1>1. ASSUME NEW k \in 1..Len(s), k # 1
      PROVE  k - 1 \in 1..Len(Tail(s)) /\ Tail(s)[k - 1] = s[k]
  BY <1>1, TailFacts
<1>2. ASSUME NEW k \in 1..Len(Tail(s)), Tail(s)[k] = "authOk"
      PROVE  \E j \in 1..Len(Tail(s)) : j > k /\ Tail(s)[j] \in S
  <2>1. k + 1 \in 1..Len(s) /\ s[k + 1] = "authOk"
    BY <1>2, TailFacts
  <2>2. PICK j \in 1..Len(s) : j > k + 1 /\ s[j] \in S
    BY <2>1 DEF OkFollowedBy
  <2>3. j # 1 /\ j - 1 > k
    BY <2>2, TailFacts
  <2> QED
    BY <1>1, <2>2, <2>3
<1>3. ASSUME Head(s) = "authOk"
      PROVE  Has(Tail(s), S)
  <2>1. 1 \in 1..Len(s) /\ s[1] = "authOk"
    BY <1>3, TailFacts
  <2>2. PICK j \in 1..Len(s) : j > 1 /\ s[j] \in S
    BY <2>1 DEF OkFollowedBy
  <2> QED
    BY <1>1, <2>2 DEF Has
<1> QED
  BY <1>2, <1>3 DEF OkFollowedBy

LEMMA ConcatFacts ==
    ASSUME NEW T, NEW s \in Seq(T), NEW t \in Seq(T)
    PROVE  /\ s \o t \in Seq(T)
           /\ Len(s) \in Nat /\ Len(t) \in Nat /\ Len(s \o t) = Len(s) + Len(t)
           /\ \A k \in 1..Len(s) : k \in 1..Len(s \o t) /\ (s \o t)[k] = s[k]
           /\ \A k \in 1..Len(t) :
                 Len(s) + k \in 1..Len(s \o t) /\ (s \o t)[Len(s) + k] = t[k]
           /\ \A k \in 1..Len(s \o t) :
                 k > Len(s) => k - Len(s) \in 1..Len(t) /\ (s \o t)[k] = t[k - Len(s)]
OBVIOUS

LEMMA ConcatSecond ==
    ASSUME NEW T, NEW s \in Seq(T), NEW t \in Seq(T), NEW k \in 1..Len(t)
    PROVE  Len(s) + k \in 1..Len(s \o t) /\ (s \o t)[Len(s) + k] = t[k]
BY ConcatFacts

LEMMA ConcatHas ==
    ASSUME NEW T, NEW s \in Seq(T), NEW t \in Seq(T), NEW S
    PROVE  /\ Has(s, S) \/ Has(t, S) => Has(s \o t, S)
           /\ HasOp(s, S) \/ HasOp(t, S) => HasOp(s \o t, S)
<1>1. /\ \A k \in 1..Len(s) : k \in 1..Len(s \o t) /\ (s \o t)[k] = s[k]
      /\ \A k \in 1..Len(t) :
            Len(s) + k \in 1..Len(s \o t) /\ (s \o t)[Len(s) + k] = t[k]
  BY ConcatFacts
<1>2. Has(s, S) => Has(s \o t, S)
  BY <1>1 DEF Has
<1>3. Has(t, S) => Has(s \o t, S)
  BY <1>1 DEF Has
<1>4. HasOp(s, S) => HasOp(s \o t, S)
  BY <1>1 DEF HasOp
<1>5. HasOp(t, S) => HasOp(s \o t, S)
  BY <1>1 DEF HasOp
<1> QED
  BY <1>2, <1>3, <1>4, <1>5

LEMMA ConcatFollowed ==
    ASSUME NEW T, NEW s \in Seq(T), NEW t \in Seq(T), NEW S,
           OkFollowedBy(s, S), ~Has(t, {"authOk"})
    PROVE  OkFollowedBy(s \o t, S)
<1> SUFFICES ASSUME NEW k \in 1..Len(s \o t), (s \o t)[k] = "authOk"
             PROVE  \E j \in 1..Len(s \o t) : j > k /\ (s \o t)[j] \in S
  BY DEF OkFollowedBy
<1>1. k <= Len(s)
  BY ConcatFacts DEF Has
<1>2. k \in 1..Len(s) /\ s[k] = "authOk"
  BY <1>1, ConcatFacts
<1>3. PICK j \in 1..Len(s) : j > k /\ s[j] \in S
  BY <1>2 DEF OkFollowedBy
<1> QED
  BY <1>3, ConcatFacts

\* An event of S behind all others settles them.
LEMMA EndFollows ==
    ASSUME NEW T, NEW s \in Seq(T), NEW t \in Seq(T), NEW S,
           Has(t, S), ~Has(t, {"authOk"})
    PROVE  OkFollowedBy(s \o t, S) /\ Has(s \o t, S)
<1>1. PICK n \in 1..Len(t) : t[n] \in S
  BY DEF Has
<1>2. Len(s) + n \in 1..Len(s \o t) /\ (s \o t)[Len(s) + n] = t[n]
  BY ConcatSecond
<1>3. ASSUME NEW k \in 1..Len(s \o t), (s \o t)[k] = "authOk"
      PROVE  Len(s) + n > k
  <2>1. k <= Len(s)
    BY <1>3, ConcatFacts DEF Has
  <2> QED
    BY <2>1
<1> QED
  BY <1>1, <1>2, <1>3 DEF OkFollowedBy, Has

\* <<e>> is a queue of one.
LEMMA Singleton ==
    ASSUME NEW T, NEW e \in T, NEW S
    PROVE  /\ <<e>> \in Seq(T)
           /\ Has(<<e>>, S) <=> e \in S
           /\ HasOp(<<e>>, S) <=> e.op \in S
<1>1. <<e>> \in Seq(T) /\ Len(<<e>>) = 1 /\ <<e>>[1] = e
  OBVIOUS
<1>2. \A k \in 1..Len(<<e>>) : k = 1
  BY <1>1
<1>3. 1 \in 1..Len(<<e>>)
  BY <1>1
<1> QED
  BY <1>1, <1>2, <1>3 DEF Has, HasOp

-----------------------------------------------------------------------------
(* Types.                                                                  *)

LEMMA CommandsAreTyped ==
    /\ \A op \in Commands : Command(op) \in CommandType /\ Command(op).op = op
    /\ \A i \in Intents :
          LoginCommand(i) \in CommandType /\ LoginCommand(i).op = "LoginPassword"
BY DEF Command, LoginCommand, CommandType, Commands, Intents

LEMMA IntentsAreNotNone ==
    /\ \A i \in Intents : i # None /\ i.user \in Accounts /\ i.remember \in BOOLEAN
    /\ \A a \in Accounts : a # None /\ [user |-> a, remember |-> TRUE] \in Intents
BY DesktopAssumption DEF Intents

LEMMA PanesAreRecords ==
    /\ \A s, f \in BOOLEAN :
          Pane(s, f) \in Panes /\ Pane(s, f).shown = s /\ Pane(s, f).inFlight = f
    /\ \A p \in Panes :
          p.shown \in BOOLEAN /\ p.inFlight \in BOOLEAN /\ p = Pane(p.shown, p.inFlight)
<1>1. \A s, f \in BOOLEAN :
         Pane(s, f) \in Panes /\ Pane(s, f).shown = s /\ Pane(s, f).inFlight = f
  BY DEF Panes, Pane
<1>2. ASSUME NEW p \in Panes
      PROVE  p.shown \in BOOLEAN /\ p.inFlight \in BOOLEAN /\ p = Pane(p.shown, p.inFlight)
  <2>1. PICK s \in BOOLEAN, f \in BOOLEAN : p = Pane(s, f)
    BY DEF Panes
  <2> QED
    BY <1>1, <2>1
<1> QED
  BY <1>1, <1>2

\* What the runtime does to the queues and the lifecycle, by the event it emits.
LEMMA RuntimeSteps ==
    ASSUME Typed, RuntimeServes
    PROVE  \/ \E op \in AuthCommands :
                 Serve(op, <<"authOk">>) /\ lifecycle' = "Authenticated"
           \/ \E op \in AuthCommands :
                 /\ Serve(op, <<"authFailed">>)
                 /\ lifecycle' = "Configured" \/ UNCHANGED <<lifecycle, keyring>>
           \/ /\ Serve("Logout", <<"loggedOut">>)
              /\ lifecycle' = "LoggedOut" /\ keyring' = None
           \/ Serve("StartSync", <<>>) /\ lifecycle' = "Syncing"
           \/ /\ Serve("Init", <<>>)
              /\ lifecycle' = "Configured" /\ lifecycle \notin AuthenticatedContext
           \/ \E op \in Commands \ AuthCommands, emitted \in {<<>>, <<"fatal">>} :
                 /\ Serve(op, emitted)
                 /\ UNCHANGED lifecycle /\ keyring' \in {keyring, None}
                 /\ op = "StartSync" => lifecycle # "Authenticated"
<1> USE DEF Accepts, Sources, Target, AfterAuth, AuthCommands, AuthenticatedContext,
            Commands, RoomCommands
<1>1. ASSUME NEW op \in Commands, Refused(op)
      PROVE  \/ \E o \in AuthCommands :
                   Serve(o, <<"authFailed">>) /\ UNCHANGED <<lifecycle, keyring>>
             \/ \E o \in Commands \ AuthCommands, emitted \in {<<>>, <<"fatal">>} :
                   /\ Serve(o, emitted)
                   /\ UNCHANGED lifecycle /\ keyring' \in {keyring, None}
                   /\ o = "StartSync" => lifecycle # "Authenticated"
  <2>1. /\ UNCHANGED <<lifecycle, keyring>>
        /\ op \in AuthCommands => Serve(op, <<"authFailed">>)
        /\ op \notin AuthCommands => Serve(op, <<"fatal">>)
    BY <1>1 DEF Refused, runtimeVars
  <2>2. op = "StartSync" => lifecycle # "Authenticated"
    BY <1>1 DEF Refused
  <2> QED
    BY <2>1, <2>2
<1>2. CASE ServeInit
  BY <1>2 DEF ServeInit, runtimeVars
<1>3. CASE LoginSucceeds
  BY <1>3 DEF LoginSucceeds, Authenticated
<1>4. CASE LoginFails
  BY <1>4 DEF LoginFails, Authenticated
<1>5. CASE RestoreSucceeds
  BY <1>5 DEF RestoreSucceeds, Authenticated
<1>6. CASE RestoreFails
  BY <1>6 DEF RestoreFails, Authenticated
<1>7. CASE ServeStartSync
  BY <1>7 DEF ServeStartSync
<1>8. CASE ServeRoom
  BY <1>8 DEF ServeRoom, runtimeVars
<1>9. CASE LogoutSucceeds
  BY <1>9 DEF LogoutSucceeds
<1>10. CASE LogoutFails
  BY <1>10 DEF LogoutFails
<1> QED
  BY <1>1, <1>2, <1>3, <1>4, <1>5, <1>6, <1>7, <1>8, <1>9, <1>10 DEF RuntimeServes

LEMMA TypedInit == Init => Typed
<1> SUFFICES ASSUME Init
             PROVE  Typed
  OBVIOUS
<1>1. form \in Panes /\ posted \in Panes /\ screen \in Panes
  BY PanesAreRecords DEF Init
<1>2. restarts \in 0..MaxRestarts
  BY DesktopAssumption DEF Init
<1>3. commands \in Seq(CommandType) /\ events \in Seq(EventType)
  BY DEF Init
<1>4. /\ worker \in Stages /\ worker # "post" /\ ui = "idle"
      /\ lifecycle \in LifecycleStates \ {"Authenticating", "Fatal"}
  BY DEF Init, Stages, LifecycleStates
<1>5. /\ typed = None /\ intent = None /\ taken = None /\ snapshot = None
      /\ profile = None /\ diskFault = FALSE /\ backend = FALSE /\ client = None
      /\ persisted = FALSE /\ keyring = None
  BY DEF Init
<1> QED
  BY <1>1, <1>2, <1>3, <1>4, <1>5 DEF Typed, TypeOK, CommandType, EventType

LEMMA TypedServe ==
    ASSUME Typed, NEW op, NEW emitted \in Seq(EventType), Serve(op, emitted)
    PROVE  /\ commands' \in Seq(CommandType) /\ events' \in Seq(EventType)
           /\ Head(commands) \in CommandType /\ commands # <<>>
           /\ UNCHANGED <<uiVars, intent, workerVars, restarts>>
<1>1. /\ commands \in Seq(CommandType) /\ events \in Seq(EventType)
      /\ commands # <<>> /\ commands' = Tail(commands)
      /\ events' = events \o emitted
      /\ UNCHANGED <<uiVars, intent, workerVars, restarts>>
  BY DEF Serve, Typed, TypeOK, CommandType, EventType
<1>2. Head(commands) \in CommandType /\ Tail(commands) \in Seq(CommandType)
  BY <1>1
<1>3. events \o emitted \in Seq(EventType)
  BY <1>1
<1> QED
  BY <1>1, <1>2, <1>3

\* Each step of the runtime keeps what is not in its queues typed.
LEMMA TypedRuntime ==
    ASSUME Typed, RuntimeServes
    PROVE  Typed'
<1> USE DEF Accepts, Sources, Target, AfterAuth, AuthCommands, AuthenticatedContext,
            Commands, RoomCommands, LifecycleStates
<1>1. /\ <<>> \in Seq(EventType) /\ <<"authOk">> \in Seq(EventType)
      /\ <<"authFailed">> \in Seq(EventType) /\ <<"fatal">> \in Seq(EventType)
      /\ <<"loggedOut">> \in Seq(EventType)
  BY DEF EventType
<1>2. \E op \in Commands, emitted \in Seq(EventType) : Serve(op, emitted)
  BY <1>1, RuntimeSteps
<1>3. /\ commands' \in Seq(CommandType) /\ events' \in Seq(EventType)
      /\ Head(commands) \in CommandType
      /\ UNCHANGED <<uiVars, intent, workerVars, restarts>>
  BY <1>2, TypedServe
<1>4. /\ Head(commands).user \in Accounts \cup {None}
      /\ Head(commands).persist \in BOOLEAN
  BY <1>3 DEF CommandType
<1>5. /\ lifecycle \in LifecycleStates \ {"Authenticating", "Fatal"}
      /\ backend \in BOOLEAN /\ client \in Accounts \cup {None}
      /\ persisted \in BOOLEAN /\ keyring \in Accounts \cup {None}
  BY DEF Typed, TypeOK
<1>6. /\ lifecycle' \in LifecycleStates \ {"Authenticating", "Fatal"}
      /\ backend' \in BOOLEAN /\ client' \in Accounts \cup {None}
      /\ persisted' \in BOOLEAN /\ keyring' \in Accounts \cup {None}
  <2>1. ASSUME NEW op \in Commands, Refused(op)
        PROVE  UNCHANGED runtimeVars
    BY <2>1 DEF Refused
  <2>2. CASE ServeInit
    BY <1>5, <2>2 DEF ServeInit, runtimeVars
  <2>3. CASE LoginSucceeds
    BY <1>4, <1>5, <2>3 DEF LoginSucceeds, Authenticated, LateSession
  <2>4. CASE LoginFails
    BY <1>4, <1>5, <2>4 DEF LoginFails, BackendLoginFails, Authenticated, LateSession
  <2>5. CASE RestoreSucceeds
    BY <1>5, <2>5 DEF RestoreSucceeds, Authenticated
  <2>6. CASE RestoreFails
    BY <1>5, <2>6 DEF RestoreFails, Authenticated, LateSession
  <2>7. CASE ServeStartSync
    BY <1>5, <2>7 DEF ServeStartSync
  <2>8. CASE ServeRoom
    BY <1>5, <2>8 DEF ServeRoom, runtimeVars
  <2>9. CASE LogoutSucceeds
    BY <1>5, <2>9 DEF LogoutSucceeds
  <2>10. CASE LogoutFails
    BY <1>5, <2>10 DEF LogoutFails
  <2> QED
    BY <1>5, <2>1, <2>2, <2>3, <2>4, <2>5, <2>6, <2>7, <2>8, <2>9, <2>10
       DEF RuntimeServes, runtimeVars
<1> QED
  BY <1>3, <1>6
     DEF Typed, TypeOK, CommandType, EventType, uiVars, workerVars, diskVars

LEMMA TypedInterface ==
    ASSUME Typed, User \/ SubmitGoesOn \/ Draw
    PROVE  Typed'
<1>1. /\ commands \in Seq(CommandType) /\ events \in Seq(EventType)
      /\ form \in Panes /\ posted \in Panes /\ screen \in Panes
      /\ typed \in Intents \cup {None} /\ intent \in Intents \cup {None}
      /\ ui \in {"idle", "marking", "sending"} /\ (ui # "idle" => typed # None)
  BY DEF Typed, TypeOK, CommandType, EventType
<1>2. \A op \in Commands : Append(commands, Command(op)) \in Seq(CommandType)
  BY <1>1, CommandsAreTyped
<1>3. {"Logout", "PlainRequest", "Init"} \subseteq Commands
  BY DEF Commands, RoomCommands
<1> USE DEF uiVars, workerVars, diskVars, runtimeVars
<1>4. CASE Draw
  BY <1>4 DEF Draw, Typed, TypeOK
<1>5. CASE RejectForm
  BY <1>5, PanesAreRecords DEF RejectForm, Show, Typed, TypeOK
<1>6. CASE ConfirmLogout
  <2>1. commands' \in Seq(CommandType)
    BY <1>2, <1>3, <1>6 DEF ConfirmLogout
  <2> QED
    BY <1>6, <2>1 DEF ConfirmLogout, Show, Typed, TypeOK, CommandType
<1>7. CASE UseRoom
  <2>1. commands' \in Seq(CommandType)
    BY <1>2, <1>3, <1>7 DEF UseRoom
  <2> QED
    BY <1>7, <2>1 DEF UseRoom, Typed, TypeOK, CommandType
<1>8. ASSUME NEW i \in Intents, SubmitLogin(i)
      PROVE  Typed'
  BY <1>8, IntentsAreNotNone DEF SubmitLogin, Typed, TypeOK
<1>9. CASE MarkInFlight
  BY <1>9, PanesAreRecords DEF MarkInFlight, Show, Typed, TypeOK
<1>10. CASE SendLogin
  <2>1. typed \in Intents
    BY <1>1, <1>10 DEF SendLogin
  <2>2. <<Command("Init"), LoginCommand(typed)>> \in Seq(CommandType)
    BY <1>3, <2>1, CommandsAreTyped
  <2>3. commands' \in Seq(CommandType)
    BY <1>1, <1>10, <2>2 DEF SendLogin
  <2> QED
    BY <1>10, <2>3 DEF SendLogin, Typed, TypeOK, CommandType
<1> QED
  BY <1>4, <1>5, <1>6, <1>7, <1>8, <1>9, <1>10 DEF User, SubmitGoesOn

LEMMA TypedWorker ==
    ASSUME Typed, EventWorker
    PROVE  Typed'
<1>1. /\ commands \in Seq(CommandType) /\ events \in Seq(EventType)
      /\ form \in Panes
      /\ taken \in Intents \cup {None} /\ intent \in Intents \cup {None}
      /\ snapshot \in Panes \cup {None} /\ (worker = "post" => snapshot \in Panes)
      /\ profile \in Accounts \cup {None} /\ diskFault \in BOOLEAN
  BY DEF Typed, TypeOK, CommandType, EventType
<1>2. events # <<>> => Tail(events) \in Seq(EventType)
  BY <1>1
<1>3. PostAuthCommands \in Seq(CommandType)
  BY CommandsAreTyped DEF PostAuthCommands, Commands, RoomCommands
<1>4. commands \o PostAuthCommands \in Seq(CommandType)
  BY <1>1, <1>3
<1> USE DEF uiVars, diskVars, runtimeVars, Stages, ReduceStages, NextEvent, Continue
<1>5. CASE SignedIn
  BY <1>2, <1>4, <1>5 DEF SignedIn, Typed, TypeOK, CommandType, EventType
<1>6. CASE TakeIntent
  BY <1>6 DEF TakeIntent, Typed, TypeOK
<1>7. CASE SaveProfile
  <2>1. taken # None => taken.user \in Accounts
    BY <1>1, IntentsAreNotNone
  <2>2. profile' \in Accounts \cup {None} /\ diskFault' \in BOOLEAN
    BY <1>1, <1>7, <2>1 DEF SaveProfile, WriteProfile
  <2> QED
    BY <1>7, <2>2 DEF SaveProfile, Typed, TypeOK
<1>8. CASE AuthFailed
  BY <1>2, <1>8 DEF AuthFailed, Typed, TypeOK, EventType
<1>9. CASE LoggedOut
  <2>1. profile' \in Accounts \cup {None} /\ diskFault' \in BOOLEAN
    BY <1>1, <1>9 DEF LoggedOut, WriteProfile
  <2> QED
    BY <1>2, <1>9, <2>1 DEF LoggedOut, Typed, TypeOK, EventType
<1>10. CASE DropIntent
  BY <1>10 DEF DropIntent, Typed, TypeOK
<1>11. CASE BackendFault
  BY <1>2, <1>11 DEF BackendFault, Typed, TypeOK, EventType
<1>12. CASE Reduce
  <2>1. Reduced(worker) \in Panes
    BY <1>1, <1>12, PanesAreRecords DEF Reduce, Reduced
  <2> QED
    BY <1>12, <2>1 DEF Reduce, Typed, TypeOK
<1>13. CASE PostSnapshot
  BY <1>1, <1>13 DEF PostSnapshot, Typed, TypeOK
<1> QED
  BY <1>5, <1>6, <1>7, <1>8, <1>9, <1>10, <1>11, <1>12, <1>13 DEF EventWorker

LEMMA RestartFacts ==
    ASSUME Typed, Restart
    PROVE  /\ Typed' /\ events' = <<>> /\ ui' = "idle" /\ worker' = "idle"
           /\ lifecycle' = "Cold"
           /\ profile = None => intent' = None /\ form' = Pane(TRUE, FALSE)
           /\ profile # None => HasOp(commands', AuthCommands)
<1>1. /\ Command("Init") \in CommandType /\ Command("RestoreSession") \in CommandType
      /\ Command("RestoreSession").op \in AuthCommands
  BY CommandsAreTyped DEF Commands, AuthCommands
<1> DEFINE first == <<Command("Init"), Command("RestoreSession")>>
<1>2. first \in Seq(CommandType) /\ HasOp(first, AuthCommands)
  BY <1>1 DEF HasOp
<1>3. /\ profile \in Accounts \cup {None}
      /\ profile # None => [user |-> profile, remember |-> TRUE] \in Intents
  BY IntentsAreNotNone DEF Typed, TypeOK
<1>4. /\ form' = IF profile = None THEN Pane(TRUE, FALSE) ELSE Pane(FALSE, TRUE)
      /\ posted' = form' /\ screen' = form'
      /\ intent' = IF profile = None THEN None ELSE [user |-> profile, remember |-> TRUE]
      /\ commands' = IF profile = None THEN <<>> ELSE first
      /\ events' = <<>> /\ ui' = "idle" /\ worker' = "idle" /\ lifecycle' = "Cold"
      /\ typed' = None /\ taken' = None /\ snapshot' = None
      /\ backend' = FALSE /\ client' = None /\ persisted' = FALSE
      /\ UNCHANGED <<profile, diskFault, keyring>>
      /\ restarts < MaxRestarts /\ restarts' = restarts + 1
  BY DEF Restart, StartsWith, diskVars
<1> HIDE DEF first
<1>5. form' \in Panes
  BY <1>4, PanesAreRecords
<1>6. commands' \in Seq(CommandType) /\ events' \in Seq(EventType)
  BY <1>2, <1>4
<1>7. restarts' \in 0..MaxRestarts
  BY <1>4, DesktopAssumption DEF Typed, TypeOK
<1>8. worker' \in Stages /\ lifecycle' \in LifecycleStates \ {"Authenticating", "Fatal"}
  BY <1>4 DEF Stages, LifecycleStates
<1>9. Typed'
  BY <1>3, <1>4, <1>5, <1>6, <1>7, <1>8 DEF Typed, TypeOK, CommandType, EventType
<1> QED
  BY <1>2, <1>4, <1>9

LEMMA TypedNext == Typed /\ [Next]_vars => Typed'
<1> SUFFICES ASSUME Typed, [Next]_vars
             PROVE  Typed'
  OBVIOUS
<1>1. CASE User \/ SubmitGoesOn \/ Draw
  BY <1>1, TypedInterface
<1>2. CASE RuntimeServes
  BY <1>2, TypedRuntime
<1>3. CASE EventWorker
  BY <1>3, TypedWorker
<1>4. CASE Restart
  BY <1>4, RestartFacts
<1>5. CASE UNCHANGED vars
  BY <1>5 DEF Typed, TypeOK, vars, uiVars, workerVars, diskVars, runtimeVars
<1> QED
  BY <1>1, <1>2, <1>3, <1>4, <1>5 DEF Next

\* Panes, intents, queues, lifecycle and disk keep their types: the bridge never
\* sends a login without an intent nor posts a snapshot that was not made.
THEOREM DesktopTyped == Spec => []TypeOK
<1>1. Spec => []Typed
  BY TypedInit, TypedNext, PTL DEF Spec
<1>2. Typed => TypeOK
  BY DEF Typed
<1> QED
  BY <1>1, <1>2, PTL

-----------------------------------------------------------------------------
(* What a step does to what is under way.                                  *)

LEMMA Emitted ==
    ASSUME NEW e \in EventType, NEW S
    PROVE  <<e>> \in Seq(EventType) /\ (Has(<<e>>, S) <=> e \in S)
BY Singleton

LEMMA NothingEmitted == <<>> \in Seq(EventType) /\ \A S : ~Has(<<>>, S)
BY DEF Has

LEMMA ServeQueues ==
    ASSUME Typed, NEW op, NEW emitted \in Seq(EventType), Serve(op, emitted), NEW S
    PROVE  /\ Has(events, S) => Has(events', S)
           /\ Has(emitted, S) => Has(events', S)
           /\ HasOp(commands, S) => op \in S \/ HasOp(commands', S)
           /\ OkFollowedBy(events, S) /\ ~Has(emitted, {"authOk"})
                 => OkFollowedBy(events', S)
           /\ Has(emitted, S) /\ ~Has(emitted, {"authOk"})
                 => OkFollowedBy(events', S)
<1>1. /\ commands \in Seq(CommandType) /\ events \in Seq(EventType)
      /\ commands # <<>> /\ Head(commands).op = op /\ commands' = Tail(commands)
      /\ events' = events \o emitted
  BY DEF Serve, Typed, TypeOK, CommandType, EventType
<1>2. HasOp(commands, S) => op \in S \/ HasOp(commands', S)
  BY <1>1, TailHas
<1>3. Has(events, S) \/ Has(emitted, S) => Has(events', S)
  BY <1>1, ConcatHas
<1>4. ASSUME OkFollowedBy(events, S), ~Has(emitted, {"authOk"})
      PROVE  OkFollowedBy(events', S)
  BY <1>1, <1>4, ConcatFollowed
<1>5. ASSUME Has(emitted, S), ~Has(emitted, {"authOk"})
      PROVE  OkFollowedBy(events', S)
  BY <1>1, <1>5, EndFollows
<1> QED
  BY <1>2, <1>3, <1>4, <1>5

LEMMA EventQueues ==
    ASSUME Typed, NEW e, NEW next, NextEvent(e, next), NEW S
    PROVE  /\ Has(events, S) => e \in S \/ Has(events', S)
           /\ OkFollowedBy(events, S) => OkFollowedBy(events', S)
           /\ OkFollowedBy(events, S) /\ e = "authOk" => Has(events', S)
           /\ worker = "idle" /\ worker' = next
           /\ UNCHANGED <<uiVars, runtimeVars, restarts>>
<1>1. /\ events \in Seq(EventType) /\ events # <<>> /\ Head(events) = e
      /\ events' = Tail(events)
      /\ worker = "idle" /\ worker' = next
      /\ UNCHANGED <<uiVars, runtimeVars, restarts>>
  BY DEF NextEvent, Typed, TypeOK, EventType
<1> QED
  BY <1>1, TailHas, TailFollowed

\* The interface and the event worker only add commands.
LEMMA CommandsAdded ==
    ASSUME Typed, User \/ SubmitGoesOn \/ Draw \/ EventWorker, NEW S
    PROVE  HasOp(commands, S) => HasOp(commands', S)
<1>1. commands \in Seq(CommandType)
  BY DEF Typed, TypeOK, CommandType
<1>2. ASSUME NEW t \in Seq(CommandType), commands' = commands \o t
      PROVE  HasOp(commands, S) => HasOp(commands', S)
  BY <1>1, <1>2, ConcatHas
<1>3. ASSUME NEW c \in CommandType, commands' = Append(commands, c)
      PROVE  HasOp(commands, S) => HasOp(commands', S)
  <2>1. Append(commands, c) = commands \o <<c>> /\ <<c>> \in Seq(CommandType)
    BY <1>1
  <2> QED
    BY <1>2, <1>3, <2>1
<1>4. /\ Command("Init") \in CommandType /\ Command("Logout") \in CommandType
      /\ Command("PlainRequest") \in CommandType /\ Command("StartSync") \in CommandType
  BY CommandsAreTyped DEF Commands, RoomCommands
<1>5. CASE ConfirmLogout
  BY <1>3, <1>4, <1>5 DEF ConfirmLogout
<1>6. CASE UseRoom
  BY <1>3, <1>4, <1>6 DEF UseRoom
<1>7. CASE SendLogin
  <2>1. typed \in Intents
    BY <1>7 DEF SendLogin, Typed, TypeOK
  <2>2. <<Command("Init"), LoginCommand(typed)>> \in Seq(CommandType)
    BY <1>4, <2>1, CommandsAreTyped
  <2> QED
    BY <1>2, <1>7, <2>2 DEF SendLogin
<1>8. CASE SignedIn
  <2>1. PostAuthCommands \in Seq(CommandType)
    BY <1>4 DEF PostAuthCommands
  <2> QED
    BY <1>2, <1>8, <2>1 DEF SignedIn
<1>9. CASE UNCHANGED commands
  BY <1>9
<1>10. \A i \in Intents : SubmitLogin(i) => UNCHANGED commands
  BY DEF SubmitLogin
<1>11. Draw \/ RejectForm \/ MarkInFlight => UNCHANGED commands
  BY DEF Draw, RejectForm, MarkInFlight
<1>12. TakeIntent \/ SaveProfile \/ AuthFailed \/ LoggedOut \/ DropIntent
       \/ BackendFault \/ Reduce \/ PostSnapshot => UNCHANGED commands
  BY DEF TakeIntent, SaveProfile, AuthFailed, LoggedOut, DropIntent, BackendFault,
         Reduce, PostSnapshot
<1> QED
  BY <1>5, <1>6, <1>7, <1>8, <1>9, <1>10, <1>11, <1>12
     DEF User, SubmitGoesOn, EventWorker

\* A login is sent with its command, the sync with its own.
LEMMA CommandsSent ==
    ASSUME Typed
    PROVE  /\ SendLogin => HasOp(commands', AuthCommands)
           /\ SignedIn => HasOp(commands', {"StartSync"})
<1>1. commands \in Seq(CommandType)
  BY DEF Typed, TypeOK, CommandType
<1>2. ASSUME SendLogin
      PROVE  HasOp(commands', AuthCommands)
  <2>1. typed \in Intents /\ commands' = commands \o <<Command("Init"), LoginCommand(typed)>>
    BY <1>2 DEF SendLogin, Typed, TypeOK
  <2>2. /\ LoginCommand(typed) \in CommandType /\ Command("Init") \in CommandType
        /\ LoginCommand(typed).op \in AuthCommands
    BY <2>1, CommandsAreTyped DEF Commands, AuthCommands
  <2>3. <<Command("Init"), LoginCommand(typed)>> \in Seq(CommandType)
    BY <2>2
  <2>4. HasOp(<<Command("Init"), LoginCommand(typed)>>, AuthCommands)
    BY <2>2 DEF HasOp
  <2> QED
    BY <1>1, <2>1, <2>3, <2>4, ConcatHas
<1>3. ASSUME SignedIn
      PROVE  HasOp(commands', {"StartSync"})
  <2>1. commands' = commands \o PostAuthCommands
    BY <1>3 DEF SignedIn
  <2>2. /\ Command("StartSync") \in CommandType /\ Command("PlainRequest") \in CommandType
        /\ Command("StartSync").op = "StartSync"
    BY CommandsAreTyped DEF Commands, RoomCommands
  <2>3. PostAuthCommands \in Seq(CommandType)
    BY <2>2 DEF PostAuthCommands
  <2>4. HasOp(PostAuthCommands, {"StartSync"})
    BY <2>2 DEF HasOp, PostAuthCommands
  <2> QED
    BY <1>1, <2>1, <2>3, <2>4, ConcatHas
<1> QED
  BY <1>2, <1>3

-----------------------------------------------------------------------------
(* A pending intent and a form in flight wait for an AuthResult.           *)

LEMMA AwaitedRuntime ==
    ASSUME Typed, Awaited, RuntimeServes
    PROVE  Awaited'
<1>1. \E op \in Commands, emitted \in Seq(EventType) :
         /\ Serve(op, emitted)
         /\ op \in AuthCommands => Has(emitted, {"authOk", "authFailed"})
  <2>1. /\ <<>> \in Seq(EventType) /\ <<"fatal">> \in Seq(EventType)
        /\ <<"loggedOut">> \in Seq(EventType)
        /\ <<"authOk">> \in Seq(EventType) /\ <<"authFailed">> \in Seq(EventType)
        /\ Has(<<"authOk">>, {"authOk", "authFailed"})
        /\ Has(<<"authFailed">>, {"authOk", "authFailed"})
    BY Emitted, NothingEmitted DEF EventType
  <2>2. /\ AuthCommands \subseteq Commands /\ {"Logout", "StartSync", "Init"} \subseteq Commands
        /\ \A op \in {"Logout", "StartSync", "Init"} : op \notin AuthCommands
    BY DEF Commands, AuthCommands
  <2>3. \/ \E op \in AuthCommands : Serve(op, <<"authOk">>) \/ Serve(op, <<"authFailed">>)
        \/ \E op \in Commands \ AuthCommands :
              \/ Serve(op, <<>>) \/ Serve(op, <<"fatal">>) \/ Serve(op, <<"loggedOut">>)
    BY <2>2, RuntimeSteps
  <2> QED
    BY <2>1, <2>2, <2>3
<1>2. PICK op \in Commands, emitted \in Seq(EventType) :
         /\ Serve(op, emitted)
         /\ op \in AuthCommands => Has(emitted, {"authOk", "authFailed"})
  BY <1>1
<1>3. AuthComes => AuthComes'
  BY <1>2, ServeQueues DEF AuthComes
<1>4. UNCHANGED <<uiVars, intent, workerVars>>
  BY <1>2 DEF Serve
<1> QED
  BY <1>3, <1>4 DEF Awaited, uiVars, workerVars

LEMMA AwaitedInterface ==
    ASSUME Typed, Awaited, User \/ SubmitGoesOn \/ Draw
    PROVE  Awaited'
<1>1. UNCHANGED <<events, workerVars>>
  BY DEF User, SubmitGoesOn, Draw, RejectForm, ConfirmLogout, UseRoom, SubmitLogin,
         MarkInFlight, SendLogin
<1>2. AuthComes => AuthComes'
  BY <1>1, CommandsAdded DEF AuthComes
<1>3. CASE SendLogin
  BY <1>3, CommandsSent DEF Awaited, AuthComes
<1>4. CASE RejectForm
  BY <1>1, <1>2, <1>4, PanesAreRecords DEF RejectForm, Show, Awaited, workerVars
<1>5. ASSUME UNCHANGED <<ui, intent, form>>
      PROVE  Awaited'
  BY <1>1, <1>2, <1>5 DEF Awaited, workerVars
<1>6. ASSUME ui' # "idle"
      PROVE  Awaited'
  BY <1>6 DEF Awaited
<1>7. Draw \/ ConfirmLogout \/ UseRoom => UNCHANGED <<ui, intent, form>>
  BY DEF Draw, ConfirmLogout, UseRoom, Show, uiVars
<1>8. /\ \A i \in Intents : SubmitLogin(i) => ui' # "idle"
      /\ MarkInFlight => ui' # "idle"
  BY DEF SubmitLogin, MarkInFlight
<1> QED
  BY <1>3, <1>4, <1>5, <1>6, <1>7, <1>8 DEF User, SubmitGoesOn

LEMMA AwaitedWorker ==
    ASSUME Typed, Awaited, EventWorker
    PROVE  Awaited'
<1>1. HasOp(commands, AuthCommands) => HasOp(commands', AuthCommands)
  BY CommandsAdded
<1>2. ASSUME NEW e \in {"loggedOut", "fatal"}, NEW next, NextEvent(e, next)
      PROVE  AuthComes => AuthComes'
  BY <1>1, <1>2, EventQueues DEF AuthComes
<1>3. UNCHANGED events => (AuthComes => AuthComes')
  BY <1>1 DEF AuthComes
<1>4. form \in Panes /\ form.inFlight \in BOOLEAN
  BY PanesAreRecords DEF Typed, TypeOK
<1> USE DEF Awaited, uiVars
<1>5. CASE SignedIn
  BY <1>5, EventQueues DEF SignedIn
<1>6. CASE TakeIntent
  BY <1>3, <1>6 DEF TakeIntent, Continue
<1>7. CASE SaveProfile
  BY <1>3, <1>7 DEF SaveProfile, Continue
<1>8. CASE AuthFailed
  BY <1>8, EventQueues DEF AuthFailed
<1>9. CASE LoggedOut
  <2>1. NextEvent("loggedOut", "dropIntent") /\ UNCHANGED intent
    BY <1>9 DEF LoggedOut
  <2>2. (AuthComes => AuthComes') /\ worker = "idle" /\ UNCHANGED <<ui, form>>
    BY <2>1, <1>2, EventQueues
  <2> QED
    BY <2>1, <2>2
<1>10. CASE DropIntent
  BY <1>3, <1>10 DEF DropIntent, Continue
<1>11. CASE BackendFault
  <2>1. NextEvent("fatal", "reduceFault") /\ UNCHANGED intent
    BY <1>11 DEF BackendFault
  <2>2. (AuthComes => AuthComes') /\ worker = "idle" /\ UNCHANGED <<ui, form>>
    BY <2>1, <1>2, EventQueues
  <2> QED
    BY <2>1, <2>2
<1>12. CASE Reduce
  <2>1. ~form'.inFlight
    BY <1>4, <1>12, PanesAreRecords DEF Reduce, Reduced, ReduceStages
  <2>2. worker # "takeIntent" /\ UNCHANGED <<ui, intent, events>>
    BY <1>12 DEF Reduce, ReduceStages, Continue
  <2> QED
    BY <1>3, <2>1, <2>2
<1>13. CASE PostSnapshot
  BY <1>3, <1>13 DEF PostSnapshot, Continue
<1> QED
  BY <1>5, <1>6, <1>7, <1>8, <1>9, <1>10, <1>11, <1>12, <1>13 DEF EventWorker

LEMMA AwaitedNext == Typed /\ Awaited /\ [Next]_vars => Awaited'
<1> SUFFICES ASSUME Typed, Awaited, [Next]_vars
             PROVE  Awaited'
  OBVIOUS
<1>1. CASE User \/ SubmitGoesOn \/ Draw
  BY <1>1, AwaitedInterface
<1>2. CASE RuntimeServes
  BY <1>2, AwaitedRuntime
<1>3. CASE EventWorker
  BY <1>3, AwaitedWorker
<1>4. CASE Restart
  <2>1. profile = None => intent' = None /\ ~form'.inFlight
    BY <1>4, RestartFacts, PanesAreRecords
  <2>2. profile # None => AuthComes'
    BY <1>4, RestartFacts DEF AuthComes
  <2> QED
    BY <2>1, <2>2 DEF Awaited
<1>5. CASE UNCHANGED vars
  BY <1>5 DEF Awaited, AuthComes, vars, uiVars, workerVars
<1> QED
  BY <1>1, <1>2, <1>3, <1>4, <1>5 DEF Next

\* A login form in flight and a pending intent wait for an AuthResult that is
\* still to come, or for a worker that is about to clear them.
THEOREM DesktopIntentIsAwaited == Spec => []IntentIsAwaited
<1>1. Init => Awaited
  BY PanesAreRecords DEF Init, Awaited
<1>2. Spec => [](Typed /\ Awaited)
  BY <1>1, TypedInit, TypedNext, AwaitedNext, PTL DEF Spec
<1>3. Typed /\ Awaited => IntentIsAwaited
  <2> SUFFICES ASSUME Typed, Awaited, ui = "idle", intent # None \/ form.inFlight
               PROVE  \/ OnItsWay \cap (AuthCommands \cup {"authOk", "authFailed"}) # {}
                      \/ worker \in {"takeIntent", "saveProfile", "reduceSignedIn", "reduceFailed"}
    BY DEF IntentIsAwaited
  <2>1. commands \in Seq(CommandType) /\ events \in Seq(EventType)
    BY DEF Typed, TypeOK, CommandType, EventType
  <2>2. DOMAIN commands = 1..Len(commands) /\ DOMAIN events = 1..Len(events)
    BY <2>1
  <2>3. AuthComes => OnItsWay \cap (AuthCommands \cup {"authOk", "authFailed"}) # {}
    BY <2>2 DEF AuthComes, Has, HasOp, OnItsWay
  <2> QED
    BY <2>3 DEF Awaited
<1> QED
  BY <1>2, <1>3, PTL

-----------------------------------------------------------------------------
(* A session ends up syncing.                                              *)

LEMMA SyncRuntime ==
    ASSUME Typed, SyncComes, RuntimeServes
    PROVE  SyncComes'
<1>1. ASSUME NEW op \in AuthCommands, Serve(op, <<"authOk">>)
      PROVE  Has(events', {"authOk"})
  BY <1>1, Emitted, ServeQueues DEF EventType
<1>2. ASSUME NEW op, NEW emitted \in Seq(EventType), Serve(op, emitted), op # "StartSync",
             UNCHANGED lifecycle
      PROVE  SyncComes'
  BY <1>2, ServeQueues DEF SyncComes
<1>3. ASSUME NEW op \in AuthCommands, Serve(op, <<"authFailed">>),
             lifecycle' = "Configured" \/ UNCHANGED lifecycle
      PROVE  SyncComes'
  <2>1. <<"authFailed">> \in Seq(EventType) /\ op # "StartSync"
    BY Emitted DEF EventType, AuthCommands
  <2> QED
    BY <1>2, <1>3, <2>1 DEF SyncComes
<1>4. ASSUME NEW op \in Commands \ AuthCommands, NEW emitted \in {<<>>, <<"fatal">>},
             Serve(op, emitted), UNCHANGED lifecycle,
             op = "StartSync" => lifecycle # "Authenticated"
      PROVE  SyncComes'
  <2>1. emitted \in Seq(EventType)
    BY Emitted, NothingEmitted DEF EventType
  <2> QED
    BY <1>2, <1>4, <2>1 DEF SyncComes
<1>5. ASSUME lifecycle' # "Authenticated"
      PROVE  SyncComes'
  BY <1>5 DEF SyncComes
<1>6. (\E op \in AuthCommands : Serve(op, <<"authOk">>)) => SyncComes'
  BY <1>1 DEF SyncComes
<1> QED
  BY <1>3, <1>4, <1>5, <1>6, RuntimeSteps

LEMMA SyncNext == Typed /\ SyncComes /\ [Next]_vars => SyncComes'
<1> SUFFICES ASSUME Typed, SyncComes, [Next]_vars
             PROVE  SyncComes'
  OBVIOUS
<1>1. CASE User \/ SubmitGoesOn \/ Draw
  <2>1. UNCHANGED <<events, lifecycle>>
    BY <1>1 DEF User, SubmitGoesOn, Draw, RejectForm, ConfirmLogout, UseRoom, SubmitLogin,
                MarkInFlight, SendLogin, runtimeVars
  <2> QED
    BY <1>1, <2>1, CommandsAdded DEF SyncComes
<1>2. CASE RuntimeServes
  BY <1>2, SyncRuntime
<1>3. CASE EventWorker
  <2>1. HasOp(commands, {"StartSync"}) => HasOp(commands', {"StartSync"})
    BY <1>3, CommandsAdded
  <2>2. CASE SignedIn
    BY <2>2, CommandsSent DEF SyncComes
  <2>3. ASSUME NEW e \in {"authFailed", "loggedOut", "fatal"}, NEW next, NextEvent(e, next)
        PROVE  SyncComes'
    BY <2>1, <2>3, EventQueues DEF SyncComes, runtimeVars
  <2>4. CASE AuthFailed \/ LoggedOut \/ BackendFault
    BY <2>3, <2>4 DEF AuthFailed, LoggedOut, BackendFault
  <2>5. CASE TakeIntent \/ SaveProfile \/ DropIntent \/ Reduce \/ PostSnapshot
    <3>1. UNCHANGED <<events, lifecycle>>
      BY <2>5 DEF TakeIntent, SaveProfile, DropIntent, Reduce, PostSnapshot, Continue,
                  runtimeVars
    <3> QED
      BY <2>1, <3>1 DEF SyncComes
  <2> QED
    BY <1>3, <2>2, <2>4, <2>5 DEF EventWorker
<1>4. CASE Restart
  BY <1>4, RestartFacts DEF SyncComes
<1>5. CASE UNCHANGED vars
  BY <1>5 DEF SyncComes, vars, runtimeVars
<1> QED
  BY <1>1, <1>2, <1>3, <1>4, <1>5 DEF Next

\* What is under way at rest: nothing.
LEMMA NothingAtRest ==
    ASSUME Typed, AtRest, NEW S
    PROVE  ~Has(events, S) /\ ~HasOp(commands, S) /\ ui = "idle" /\ worker = "idle"
<1>1. commands \in Seq(CommandType) /\ events \in Seq(EventType)
  BY DEF Typed, TypeOK, CommandType, EventType
<1>2. DOMAIN commands = 1..Len(commands) /\ DOMAIN events = 1..Len(events)
  BY <1>1
<1> QED
  BY <1>2 DEF AtRest, OnItsWay, Has, HasOp

\* At rest no session is left that does not sync.
THEOREM DesktopSessionSyncs == Spec => []SessionSyncs
<1>1. Init => SyncComes
  BY DEF Init, SyncComes
<1>2. Spec => [](Typed /\ SyncComes)
  BY <1>1, TypedInit, TypedNext, SyncNext, PTL DEF Spec
<1>3. Typed /\ SyncComes => SessionSyncs
  BY NothingAtRest DEF SyncComes, SessionSyncs
<1> QED
  BY <1>2, <1>3, PTL

-----------------------------------------------------------------------------
(* A hidden login pane has a session behind it.                            *)

\* The shape of FormComes and WipeComes: an event of S closes all before it.
LEMMA Closed ==
    ASSUME Typed, NEW op, NEW e \in EventType, Serve(op, <<e>>), NEW S, e \in S,
           e # "authOk"
    PROVE  OkFollowedBy(events', S) /\ Has(events', S)
<1>1. /\ <<e>> \in Seq(EventType) /\ Has(<<e>>, S) /\ ~Has(<<e>>, {"authOk"})
  BY Emitted
<1> QED
  BY <1>1, ServeQueues

LEMMA FormRuntime ==
    ASSUME Typed, FormComes, RuntimeServes
    PROVE  FormComes'
<1>1. ASSUME NEW op, NEW e \in ToForm, Serve(op, <<e>>)
      PROVE  FormComes'
  <2>1. e \in EventType /\ e # "authOk"
    BY DEF ToForm, EventType
  <2> QED
    BY <1>1, <2>1, Closed DEF FormComes
<1>2. ASSUME NEW op \in Commands \ AuthCommands, NEW emitted \in Seq(EventType),
             Serve(op, emitted), ~Has(emitted, {"authOk"}),
             lifecycle' \notin AuthenticatedContext => lifecycle \notin AuthenticatedContext
      PROVE  FormComes'
  <2>1. /\ OkFollowedBy(events, ToForm) => OkFollowedBy(events', ToForm)
        /\ Has(events, ToForm) => Has(events', ToForm)
        /\ HasOp(commands, AuthCommands) => HasOp(commands', AuthCommands)
    BY <1>2, ServeQueues
  <2>2. UNCHANGED <<form, ui, worker>>
    BY <1>2 DEF Serve, uiVars, workerVars
  <2> QED
    BY <1>2, <2>1, <2>2 DEF FormComes
<1>3. /\ <<>> \in Seq(EventType) /\ ~Has(<<>>, {"authOk"})
      /\ <<"fatal">> \in Seq(EventType) /\ ~Has(<<"fatal">>, {"authOk"})
  BY Emitted, NothingEmitted DEF EventType
<1>4. ASSUME lifecycle' \in AuthenticatedContext
      PROVE  FormComes'
  BY <1>4 DEF FormComes
<1>5. (\E op \in AuthCommands : Serve(op, <<"authFailed">>)) => FormComes'
  BY <1>1 DEF ToForm
<1>6. Serve("Logout", <<"loggedOut">>) => FormComes'
  BY <1>1 DEF ToForm
<1>7. Serve("Init", <<>>) /\ lifecycle \notin AuthenticatedContext => FormComes'
  <2>1. "Init" \in Commands \ AuthCommands
    BY DEF Commands, AuthCommands
  <2> QED
    BY <1>2, <1>3, <2>1
<1>8. (\E op \in Commands \ AuthCommands, emitted \in {<<>>, <<"fatal">>} :
          Serve(op, emitted) /\ UNCHANGED lifecycle) => FormComes'
  BY <1>2, <1>3
<1>9. {"Authenticated", "Syncing"} = AuthenticatedContext
  BY DEF AuthenticatedContext
<1> QED
  BY <1>4, <1>5, <1>6, <1>7, <1>8, <1>9, RuntimeSteps

LEMMA FormInterface ==
    ASSUME Typed, FormComes, User \/ SubmitGoesOn \/ Draw
    PROVE  FormComes'
<1>1. UNCHANGED <<events, worker, lifecycle>>
  BY DEF User, SubmitGoesOn, Draw, RejectForm, ConfirmLogout, UseRoom, SubmitLogin,
         MarkInFlight, SendLogin, workerVars, runtimeVars
<1>2. HasOp(commands, AuthCommands) => HasOp(commands', AuthCommands)
  BY CommandsAdded
<1>3. CASE SendLogin
  BY <1>1, <1>3, CommandsSent DEF FormComes
<1>4. CASE RejectForm \/ MarkInFlight
  BY <1>1, <1>4, PanesAreRecords DEF RejectForm, MarkInFlight, Show, FormComes
<1>5. ASSUME UNCHANGED form, ui' = ui \/ ui' # "idle"
      PROVE  FormComes'
  BY <1>1, <1>2, <1>5 DEF FormComes
<1>6. Draw \/ ConfirmLogout \/ UseRoom => UNCHANGED form /\ ui' = ui
  BY DEF Draw, ConfirmLogout, UseRoom, Show, uiVars
<1>7. \A i \in Intents : SubmitLogin(i) => UNCHANGED form /\ ui' # "idle"
  BY DEF SubmitLogin
<1> QED
  BY <1>3, <1>4, <1>5, <1>6, <1>7 DEF User, SubmitGoesOn

LEMMA FormWorker ==
    ASSUME Typed, FormComes, EventWorker
    PROVE  FormComes'
<1>1. HasOp(commands, AuthCommands) => HasOp(commands', AuthCommands)
  BY CommandsAdded
<1>2. UNCHANGED <<lifecycle, ui>>
  BY DEF EventWorker, SignedIn, TakeIntent, SaveProfile, AuthFailed, LoggedOut, DropIntent,
         BackendFault, Reduce, PostSnapshot, NextEvent, Continue, uiVars, runtimeVars
<1>3. ASSUME NEW e, NEW next \in Stages, NextEvent(e, next),
             e \in ToForm => next \in {"reduceFailed", "dropIntent"},
             next \in {"takeIntent", "saveProfile", "reduceSignedIn"} => e = "authOk"
      PROVE  FormComes'
  <2>1. UNCHANGED form
    BY <1>3 DEF NextEvent, uiVars
  <2> QED
    BY <1>1, <1>2, <1>3, <2>1, EventQueues DEF FormComes, ToForm
<1>4. CASE SignedIn \/ AuthFailed \/ LoggedOut \/ BackendFault
  BY <1>3, <1>4 DEF SignedIn, AuthFailed, LoggedOut, BackendFault, Stages, ReduceStages, ToForm
<1>5. CASE TakeIntent \/ SaveProfile \/ DropIntent
  BY <1>1, <1>2, <1>5 DEF TakeIntent, SaveProfile, DropIntent, Continue, FormComes, uiVars
<1>6. CASE Reduce
  <2>1. /\ worker' = "post" /\ worker \in ReduceStages /\ form' = Reduced(worker)
        /\ UNCHANGED <<events, commands>>
    BY <1>6 DEF Reduce, Continue
  <2>2. /\ worker \in {"reduceFailed", "reduceLoggedOut"} => form'.shown
        /\ worker = "reduceFault" => form'.shown = form.shown
    BY <2>1, PanesAreRecords DEF Reduced, Typed, TypeOK
  <2> QED
    BY <1>2, <2>1, <2>2 DEF FormComes, ReduceStages
<1>7. CASE PostSnapshot
  BY <1>2, <1>7 DEF PostSnapshot, Continue, FormComes
<1> QED
  BY <1>4, <1>5, <1>6, <1>7 DEF EventWorker

LEMMA FormNext == Typed /\ FormComes /\ [Next]_vars => FormComes'
<1> SUFFICES ASSUME Typed, FormComes, [Next]_vars
             PROVE  FormComes'
  OBVIOUS
<1>1. CASE User \/ SubmitGoesOn \/ Draw
  BY <1>1, FormInterface
<1>2. CASE RuntimeServes
  BY <1>2, FormRuntime
<1>3. CASE EventWorker
  BY <1>3, FormWorker
<1>4. CASE Restart
  <2>1. OkFollowedBy(events', ToForm)
    BY <1>4, RestartFacts DEF OkFollowedBy
  <2>2. profile = None => form'.shown
    BY <1>4, RestartFacts, PanesAreRecords
  <2> QED
    BY <1>4, <2>1, <2>2, RestartFacts DEF FormComes
<1>5. CASE UNCHANGED vars
  BY <1>5 DEF FormComes, vars, uiVars, workerVars, runtimeVars
<1> QED
  BY <1>1, <1>2, <1>3, <1>4, <1>5 DEF Next

LEMMA FormInit == Init => FormComes
<1> SUFFICES ASSUME Init
             PROVE  FormComes
  OBVIOUS
<1>1. OkFollowedBy(events, ToForm)
  BY DEF Init, OkFollowedBy
<1>2. form.shown /\ worker = "idle"
  BY PanesAreRecords DEF Init
<1> QED
  BY <1>1, <1>2 DEF FormComes

\* At rest the room view has a running session.
THEOREM DesktopRoomViewHasSession == Spec => []RoomViewHasSession
<1>1. Spec => [](Typed /\ FormComes)
  BY FormInit, TypedInit, TypedNext, FormNext, PTL DEF Spec
<1>2. Typed /\ FormComes => RoomViewHasSession
  BY NothingAtRest DEF FormComes, RoomViewHasSession
<1> QED
  BY <1>1, <1>2, PTL

-----------------------------------------------------------------------------
(* A logout leaves nothing to restore.                                     *)

LEMMA WipeRuntime ==
    ASSUME Typed, WipeComes, RuntimeServes
    PROVE  WipeComes'
<1>1. ASSUME lifecycle' # "LoggedOut"
      PROVE  WipeComes'
  BY <1>1 DEF WipeComes
<1>2. ASSUME Serve("Logout", <<"loggedOut">>), keyring' = None
      PROVE  WipeComes'
  <2>1. OkFollowedBy(events', {"loggedOut"}) /\ Has(events', {"loggedOut"})
    BY <1>2, Closed DEF EventType
  <2> QED
    BY <1>2, <2>1 DEF WipeComes
<1>3. ASSUME NEW op, NEW emitted \in Seq(EventType), Serve(op, emitted),
             ~Has(emitted, {"authOk"}), UNCHANGED lifecycle, keyring' \in {keyring, None}
      PROVE  WipeComes'
  <2>1. /\ OkFollowedBy(events, {"loggedOut"}) => OkFollowedBy(events', {"loggedOut"})
        /\ Has(events, {"loggedOut"}) => Has(events', {"loggedOut"})
    BY <1>3, ServeQueues
  <2>2. UNCHANGED <<worker, profile, diskFault>>
    BY <1>3 DEF Serve, workerVars, diskVars
  <2> QED
    BY <1>3, <2>1, <2>2 DEF WipeComes
<1>4. /\ <<>> \in Seq(EventType) /\ ~Has(<<>>, {"authOk"})
      /\ <<"fatal">> \in Seq(EventType) /\ ~Has(<<"fatal">>, {"authOk"})
      /\ <<"authFailed">> \in Seq(EventType) /\ ~Has(<<"authFailed">>, {"authOk"})
  BY Emitted, NothingEmitted DEF EventType
<1>5. (\E op \in AuthCommands :
          Serve(op, <<"authFailed">>) /\ UNCHANGED <<lifecycle, keyring>>) => WipeComes'
  BY <1>3, <1>4
<1>6. (\E op \in Commands \ AuthCommands, emitted \in {<<>>, <<"fatal">>} :
          Serve(op, emitted) /\ UNCHANGED lifecycle /\ keyring' \in {keyring, None})
      => WipeComes'
  BY <1>3, <1>4
<1> QED
  BY <1>1, <1>2, <1>5, <1>6, RuntimeSteps

LEMMA WipeWorker ==
    ASSUME Typed, WipeComes, EventWorker
    PROVE  WipeComes'
<1>1. UNCHANGED <<lifecycle, keyring>>
  BY DEF EventWorker, SignedIn, TakeIntent, SaveProfile, AuthFailed, LoggedOut, DropIntent,
         BackendFault, Reduce, PostSnapshot, NextEvent, Continue, runtimeVars
<1>2. ASSUME NEW e \in EventType \ {"loggedOut"}, NEW next, NextEvent(e, next),
             next \in {"takeIntent", "saveProfile"} => e = "authOk",
             UNCHANGED diskVars
      PROVE  WipeComes'
  BY <1>1, <1>2, EventQueues DEF WipeComes, diskVars
<1>3. CASE SignedIn \/ AuthFailed \/ BackendFault
  BY <1>2, <1>3 DEF SignedIn, AuthFailed, BackendFault, EventType
<1>4. CASE LoggedOut
  <2>1. NextEvent("loggedOut", "dropIntent") /\ (profile' = None \/ diskFault' = TRUE)
    BY <1>4 DEF LoggedOut, WriteProfile
  <2> QED
    BY <1>1, <2>1, EventQueues DEF WipeComes
<1>5. CASE TakeIntent \/ DropIntent \/ PostSnapshot
  BY <1>1, <1>5 DEF TakeIntent, DropIntent, PostSnapshot, Continue, WipeComes, diskVars
<1>6. CASE SaveProfile
  BY <1>1, <1>6 DEF SaveProfile, Continue, WipeComes
<1>7. CASE Reduce
  BY <1>1, <1>7 DEF Reduce, Continue, WipeComes, diskVars
<1> QED
  BY <1>3, <1>4, <1>5, <1>6, <1>7 DEF EventWorker

LEMMA WipeNext == Typed /\ WipeComes /\ [Next]_vars => WipeComes'
<1> SUFFICES ASSUME Typed, WipeComes, [Next]_vars
             PROVE  WipeComes'
  OBVIOUS
<1>1. CASE User \/ SubmitGoesOn \/ Draw
  <2>1. UNCHANGED <<events, workerVars, runtimeVars>>
    BY <1>1 DEF User, SubmitGoesOn, Draw, RejectForm, ConfirmLogout, UseRoom, SubmitLogin,
                MarkInFlight, SendLogin
  <2> QED
    BY <2>1 DEF WipeComes, workerVars, runtimeVars, diskVars
<1>2. CASE RuntimeServes
  BY <1>2, WipeRuntime
<1>3. CASE EventWorker
  BY <1>3, WipeWorker
<1>4. CASE Restart
  BY <1>4, RestartFacts DEF WipeComes
<1>5. CASE UNCHANGED vars
  BY <1>5 DEF WipeComes, vars, workerVars, runtimeVars, diskVars
<1> QED
  BY <1>1, <1>2, <1>3, <1>4, <1>5 DEF Next

\* At rest after a logout neither the profile nor the keyring has a session to
\* restore, unless the profile could not be written, and the login form is shown.
THEOREM DesktopLogoutLeavesNothing == Spec => []LogoutLeavesNothing
<1>1. Init => WipeComes
  BY DEF Init, WipeComes
<1>2. Spec => [](Typed /\ FormComes /\ WipeComes)
  BY <1>1, FormInit, TypedInit, TypedNext, FormNext, WipeNext, PTL DEF Spec
<1>3. Typed /\ FormComes /\ WipeComes => LogoutLeavesNothing
  BY NothingAtRest DEF FormComes, WipeComes, LogoutLeavesNothing, AuthenticatedContext
<1> QED
  BY <1>2, <1>3, PTL
=============================================================================
