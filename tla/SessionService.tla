--------------------------- MODULE SessionService ---------------------------
(***************************************************************************)
(* What the backend promises a frontend, whatever happens inside: the      *)
(* phases it announces with StateChanged, who is signed in during them,    *)
(* and when a live feed of sync events may exist at all.                   *)
(*   - an account is signed in by an authentication that was begun, stays  *)
(*     the same until it is signed out, and is never replaced in a session;*)
(*   - the feed is opened only by a signed-in session and at most once at  *)
(*     a time; it may die by itself, but the session is announced as       *)
(*     stopped or logged out only once it is silent.                       *)
(***************************************************************************)
EXTENDS StateMachine

CONSTANTS Users,    \* the accounts
          None      \* nobody

VARIABLES phase,    \* the lifecycle state announced last
          who,      \* the account of the running session, or None
          feed      \* TRUE while a sync task may emit events

serviceVars == <<phase, who, feed>>

ServiceTypeOK ==
    /\ phase \in LifecycleStates
    /\ who \in Users \cup {None}
    /\ feed \in BOOLEAN

ServiceInit == phase = "Cold" /\ who = None /\ feed = FALSE

Configure ==
    /\ Accepts(phase, "Init")
    /\ phase' = Target(phase, "Init")
    /\ UNCHANGED <<who, feed>>

BeginAuth ==
    /\ Accepts(phase, "LoginPassword")
    /\ phase' = Target(phase, "LoginPassword")
    /\ UNCHANGED <<who, feed>>

AuthSucceeds(u) ==
    /\ phase = "Authenticating"
    /\ phase' = AfterAuth(phase, TRUE)
    /\ who' = u
    /\ UNCHANGED feed

AuthFails ==
    /\ phase = "Authenticating"
    /\ phase' = AfterAuth(phase, FALSE)
    /\ UNCHANGED <<who, feed>>

OpenFeed ==
    /\ phase = "Authenticated"
    /\ ~feed
    /\ feed' = TRUE
    /\ UNCHANGED <<phase, who>>

EnterSync ==
    /\ Accepts(phase, "StartSync")
    /\ phase' = Target(phase, "StartSync")
    /\ UNCHANGED <<who, feed>>

FeedEnds ==
    /\ feed
    /\ feed' = FALSE
    /\ UNCHANGED <<phase, who>>

LeaveSync ==
    /\ Accepts(phase, "StopSync")
    /\ ~feed
    /\ phase' = Target(phase, "StopSync")
    /\ UNCHANGED <<who, feed>>

SignOut ==
    /\ Accepts(phase, "Logout")
    /\ ~feed
    /\ phase' = Target(phase, "Logout")
    /\ who' = None
    /\ UNCHANGED feed

Restart == phase' = "Cold" /\ who' = None /\ feed' = FALSE

ServiceNext ==
    \/ Configure
    \/ BeginAuth
    \/ \E u \in Users : AuthSucceeds(u)
    \/ AuthFails
    \/ OpenFeed
    \/ EnterSync
    \/ FeedEnds
    \/ LeaveSync
    \/ SignOut
    \/ Restart

ServiceSpec == ServiceInit /\ [][ServiceNext]_serviceVars
=============================================================================
