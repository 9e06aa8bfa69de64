------------------------------- MODULE Panels -------------------------------
(***************************************************************************)
(* What the desktop app shows while it waits for an answer: the invites of *)
(* the room list, the page of history asked for by scrolling and the       *)
(* identity-backup dialog (state.rs), with the commands the bridge queues  *)
(* for them (bridge.rs), the runtime that answers one command after the    *)
(* other (backend-matrix) and the sync task whose events come in between.  *)
(*                                                                         *)
(* A command first takes effect on the server and is then answered: the    *)
(* sync task, the user and the event worker act between the two.  Commands *)
(* and events are not lost here, see MediaRows for a stream that lags.     *)
(***************************************************************************)
EXTENDS Naturals, Sequences, SequencesExt, FiniteSets

CONSTANTS Rooms,
          None,
          MaxAsks,    \* commands of the user
          MaxSteps    \* commands of the user and steps of the sync task, together

ASSUME PanelsAssumption == None \notin Rooms /\ {MaxAsks, MaxSteps} \subseteq Nat

VARIABLES
    \* DesktopState
    listed,    \* rooms: membership of each, "none" when it is not in the list
    pending,   \* pending_invite_actions: the rooms in it.  The room of a
               \* transaction (.._by_txn) is the one its answer names
    selected,  \* selected_room_id
    inFlight,  \* pagination.in_flight
    dialog,    \* the security dialog, see Dialog
    pane,      \* show_login_screen
    \* Bridge and interface thread
    commands,  \* queued for the runtime
    copying,   \* the recovery key read for the clipboard, 0 for none
    clipboard, \* the recovery key in it
    drawn,     \* what the screen, or a snapshot it has not drawn yet, offers
    asked,     \* next_txn_id
    \* Runtime and client
    running,   \* the command under way and the events of its answer, or Idle
    online,    \* a command of the session is valid
    member,    \* membership of each room, as the client knows it
    backup,    \* the key that opens the server's backup, 0 for none
    keys,      \* keys made
    events,    \* for the event worker
    turns,
    \* Not in the code
    strayed,   \* rooms whose pending request was forgotten before its answer
    shownAt,   \* commands asked for when the key was shown
    broken,    \* a reset or a creation stopped half-way
    mistaken   \* the key that was marked as copied in place of another

reducerVars == <<listed, pending, selected, inFlight, dialog, pane>>
bridgeVars == <<commands, copying, clipboard, drawn, asked>>
runtimeVars == <<running, online, member, backup, keys, turns>>
historyVars == <<strayed, shownAt, broken, mistaken>>
vars == <<reducerVars, bridgeVars, runtimeVars, events, historyVars>>

Memberships == {"none", "invited", "joined"}
Dialog == [mode : {"none", "info", "status", "creating", "key"}, key : Nat,
           copied : BOOLEAN, input : BOOLEAN, restoring : BOOLEAN]
Invites == {"accept", "reject"}
Makers == {"enable", "reset"}

\* The transactions of recovery commands are told apart.
Command(kind, room) ==
    [kind |-> kind, room |-> room, txn |-> IF room = None THEN asked ELSE 0]
NoCommand == [kind |-> "none", room |-> None, txn |-> 0]
Idle == [of |-> NoCommand, out |-> <<>>]

\* The event that answers a command, and one that answers none.
Reply(kind, of) == [kind |-> kind, of |-> of.kind, room |-> of.room, txn |-> of.txn,
                    ok |-> TRUE, key |-> 0, rooms |-> <<>>]
Failed(event) == [event EXCEPT !.ok = FALSE]
News(kind) == Reply(kind, NoCommand)
NewsOf(room) == [News("delta") EXCEPT !.room = room]
RoomList(members) == [News("list") EXCEPT !.rooms = members]

Closed == [mode |-> "none", key |-> 0, copied |-> FALSE, input |-> FALSE,
           restoring |-> FALSE]
\* show_security_dialog and its kin: each clears the key and the input.
Shown(mode) == [Closed EXCEPT !.mode = mode]
KeyShown(key) == [Closed EXCEPT !.mode = "key", !.key = key]
RestorePrompt == [Closed EXCEPT !.mode = "info", !.input = TRUE]

Init ==
    /\ member = [r \in Rooms |-> "invited"] /\ listed = member
    /\ pending = {} /\ selected = None /\ inFlight = {}
    /\ dialog = Closed /\ pane = FALSE
    /\ commands = <<>> /\ copying = 0 /\ clipboard = 0 /\ drawn = {} /\ asked = 0
    /\ running = Idle /\ online = TRUE /\ backup = 0 /\ keys = 0
    /\ events = <<>> /\ turns = 0
    /\ strayed = {} /\ shownAt = 0 /\ broken = FALSE /\ mistaken = 0

-----------------------------------------------------------------------------
(* The user, on the interface thread: busy while it copies.                *)

\* The restore button and the login form as the state has them.
Offered ==
    (IF dialog.input /\ ~dialog.restoring THEN {"prompt"} ELSE {})
    \cup (IF pane THEN {"form"} ELSE {})

\* The screen has drawn every snapshot posted.
Draw ==
    /\ copying = 0
    /\ drawn # Offered
    /\ drawn' = Offered
    /\ UNCHANGED <<reducerVars, commands, copying, clipboard, asked, runtimeVars, events,
                   historyVars>>

\* enqueue_command, with the transaction id of the command.
Ask(kind, room) ==
    /\ copying = 0
    /\ asked < MaxAsks /\ asked + turns < MaxSteps
    /\ asked' = asked + 1
    /\ commands' = Append(commands, Command(kind, room))
    /\ UNCHANGED <<copying, clipboard, drawn>>

\* accept_room_invite, reject_room_invite.
RequestInvite(r, action) ==
    /\ listed[r] = "invited"
    /\ r \notin pending
    /\ Ask(action, r)
    /\ pending' = pending \cup {r}
    /\ UNCHANGED <<listed, selected, inFlight, dialog, pane, runtimeVars, events,
                   historyVars>>

\* select_room.
SelectRoom(r) ==
    /\ listed[r] # "none" /\ r # selected
    /\ Ask("open", r)
    /\ selected' = r
    /\ UNCHANGED <<listed, pending, inFlight, dialog, pane, runtimeVars, events,
                   historyVars>>

\* on_timeline_scrolled near the top, any time after the last request.
Scroll ==
    /\ selected # None /\ selected \notin inFlight
    /\ Ask("page", selected)
    /\ inFlight' = inFlight \cup {selected}
    /\ UNCHANGED <<listed, pending, selected, dialog, pane, runtimeVars, events,
                   historyVars>>

\* request_recovery_status, backup_identity, reset_identity_backup.
OpenDialog(kind) ==
    /\ Ask(kind, None)
    /\ dialog' = Shown(IF kind = "status" THEN "status" ELSE "creating")
    /\ UNCHANGED <<listed, pending, selected, inFlight, pane, runtimeVars, events,
                   historyVars>>

\* restore_identity, with a key that is not empty, from a prompt that the screen
\* shows: the state may have gone on to another dialog, or to none.
Restore ==
    /\ "prompt" \in drawn /\ ~dialog.restoring
    /\ Ask("restore", None)
    /\ dialog' = [dialog EXCEPT !.restoring = TRUE]
    /\ UNCHANGED <<listed, pending, selected, inFlight, pane, runtimeVars, events,
                   historyVars>>

\* prompt_restore_identity, dismiss_security_dialog.
Turn(next) ==
    /\ copying = 0
    /\ dialog # next
    /\ dialog' = next
    /\ drawn' = IF next.input THEN drawn \cup {"prompt"} ELSE drawn
    /\ UNCHANGED <<listed, pending, selected, inFlight, pane, commands, copying,
                   clipboard, asked, runtimeVars, events, historyVars>>

\* Logout is confirmed, unless the state has the login pane by now; a login is
\* submitted from whatever form the screen shows.
Leave ==
    /\ \/ ~pane /\ Ask("logout", None)
       \/ "form" \in drawn /\ Ask("login", None)
    /\ UNCHANGED <<reducerVars, runtimeVars, events, historyVars>>

\* copy_recovery_key reads the key, then writes the clipboard without the lock.
ReadKey ==
    /\ copying = 0 /\ dialog.key # 0
    /\ ~(dialog.copied /\ clipboard = dialog.key)
    /\ copying' = dialog.key
    /\ UNCHANGED <<reducerVars, commands, clipboard, drawn, asked, runtimeVars, events,
                   historyVars>>

\* mark_recovery_key_copied marks whatever key is shown by then.
CopyKey ==
    /\ copying # 0
    /\ copying' = 0
    /\ \/ /\ clipboard' = copying
          /\ dialog' = [dialog EXCEPT !.copied = dialog.key # 0]
          /\ mistaken' = IF dialog.key \in {0, copying} THEN mistaken ELSE dialog.key
       \/ UNCHANGED <<clipboard, dialog, mistaken>>
    /\ UNCHANGED <<listed, pending, selected, inFlight, pane, commands, drawn,
                   asked, runtimeVars, events, strayed, shownAt, broken>>

-----------------------------------------------------------------------------
(* The runtime.                                                            *)

\* What executing a command does to the backup: the key that opens it, the key
\* made, if the call succeeds, and whether it stopped half-way.
Outcomes(kind) ==
    LET fails == {<<backup, 0, broken>>}
        makes == {<<keys + 1, keys + 1, FALSE>>, <<keys + 1, 0, TRUE>>}
    IN  CASE kind = "enable" -> fails \cup (IF backup = 0 THEN makes ELSE {})
          [] kind = "reset" -> fails \cup makes \cup {<<0, 0, TRUE>>}

\* Each action below takes one command and leaves its answer in running.
Take(kinds) ==
    /\ running = Idle /\ commands # <<>>
    /\ Head(commands).kind \in kinds
    /\ commands' = Tail(commands)
    /\ UNCHANGED <<copying, clipboard, drawn, asked, turns>>

Answer(out) == running' = [of |-> Head(commands), out |-> out]

\* Enable, reset and restore of the recovery, the last two steps' status left
\* out when it cannot be fetched.
ExecuteMaker ==
    /\ Take(Makers)
    /\ LET c == Head(commands) IN
       \E o \in (IF online THEN Outcomes(c.kind) ELSE {<<backup, 0, broken>>}),
          more \in {<<>>, <<News("status")>>} :
          /\ o[2] = 0 => more = <<>>
          /\ backup' = o[1] /\ broken' = o[3]
          /\ keys' = IF o[1] > keys THEN o[1] ELSE keys
          /\ Answer(<<[Reply("made", c) EXCEPT !.key = o[2], !.ok = o[2] # 0]>> \o more)
    /\ UNCHANGED <<reducerVars, online, member, events, strayed, shownAt, mistaken>>

ExecuteRestore ==
    /\ Take({"restore"})
    /\ LET c == Head(commands)
           done == Reply("restored", c) IN
       \E out \in {<<Failed(done)>>} \cup
                  (IF online THEN {<<done>>, <<done, News("status")>>} ELSE {}) :
          Answer(out)
    /\ UNCHANGED <<reducerVars, online, member, backup, keys, events, historyVars>>

\* A status, a page or the newest page: an error is fatal to the command.
ExecuteRead ==
    /\ Take({"status", "page", "open"})
    /\ LET c == Head(commands)
           done == IF c.kind = "status" THEN News("status") ELSE NewsOf(c.room) IN
       \E out \in {<<News("fatal")>>} \cup (IF online THEN {<<done>>} ELSE {}) :
          Answer(out)
    /\ UNCHANGED <<reducerVars, online, member, backup, keys, events, historyVars>>

\* join and leave answer once the client knows of it; the room list follows an
\* answer that is no error.
ExecuteInvite ==
    /\ Take(Invites)
    /\ LET c == Head(commands)
           done == Reply("invite", c) IN
       \/ /\ online /\ member[c.room] # "none"
          /\ member' = [member EXCEPT ![c.room] =
                           IF c.kind = "accept" THEN "joined" ELSE "none"]
          /\ Answer(<<done, News("list")>>)
       \/ Answer(<<Failed(done)>>) /\ UNCHANGED member
    /\ UNCHANGED <<reducerVars, online, backup, keys, events, historyVars>>

\* Logout, and the login after it with the room list it asks for.
ExecuteSession ==
    /\ Take({"login", "logout"})
    /\ LET c == Head(commands)
           leaves == c.kind = "logout" IN
       \/ /\ leaves = online
          /\ online' = ~online
          /\ member' \in IF leaves THEN {[r \in Rooms |-> "none"]}
                         ELSE [Rooms -> {"invited", "joined"}]
          /\ backup' = 0 /\ broken' = FALSE
          /\ Answer(IF leaves THEN <<News("loggedOut")>>
                    ELSE <<News("auth"), News("list")>>)
       \/ /\ Answer(<<IF leaves THEN News("fatal") ELSE Failed(News("auth"))>>)
          /\ UNCHANGED <<online, member, backup, broken>>
    /\ UNCHANGED <<reducerVars, keys, events, strayed, shownAt, mistaken>>

\* A room list says what the client knows when it is sent.
Finish ==
    /\ running # Idle
    /\ running' = Idle
    /\ events' = events \o [i \in DOMAIN running.out |->
                               IF running.out[i].kind = "list" THEN RoomList(member)
                               ELSE running.out[i]]
    /\ UNCHANGED <<reducerVars, bridgeVars, online, member, backup, keys, turns,
                   historyVars>>

\* The sync task: a membership changes and the room list is sent, a joined room
\* has news, or the server cannot be reached.
Sync ==
    /\ online
    /\ asked + turns < MaxSteps
    /\ turns' = turns + 1
    /\ \/ \E r \in Rooms, m \in Memberships :
             /\ m # member[r] /\ ~(member[r] = "joined" /\ m = "invited")
             /\ member' = [member EXCEPT ![r] = m]
             /\ events' = Append(events, RoomList(member'))
       \/ \E r \in Rooms :
             /\ member[r] = "joined"
             /\ events' = Append(events, NewsOf(r))
             /\ UNCHANGED member
       \/ events' = Append(events, News("fatal")) /\ UNCHANGED member
    /\ UNCHANGED <<reducerVars, bridgeVars, running, online, backup, keys, historyVars>>

-----------------------------------------------------------------------------
(* The event worker: handle_backend_event of the first event.              *)

Handle(kind) ==
    /\ events # <<>> /\ Head(events).kind = kind
    /\ events' = Tail(events)
    /\ UNCHANGED <<copying, clipboard, asked, runtimeVars, broken, mistaken>>

\* The places of the requests for a room that are not answered or whose answer is
\* not handled.
UnderWay(kinds, r) ==
    LET Wants(c) == c.kind \in kinds /\ c.room = r IN
    {<<"queue", k>> : k \in {k \in DOMAIN commands : Wants(commands[k])}}
    \cup (IF running # Idle /\ Wants(running.of) THEN {<<"runtime", 0>>} ELSE {})
    \cup {<<"stream", k>> : k \in {k \in DOMAIN events :
                                     events[k].of \in kinds /\ events[k].room = r}}

\* Mutant: what a room waits for is forgotten when it is no invite any more.
ReplaceRoomsPrunes ==
    /\ Handle("list")
    /\ LET rooms == Head(events).rooms
           here == {r \in Rooms : rooms[r] # "none"} IN
       /\ listed' = rooms
       /\ pending' = {}
       /\ selected' = IF selected \in here THEN selected ELSE None
       /\ strayed' = strayed \cup (pending \ here)
    /\ UNCHANGED <<inFlight, dialog, pane, commands, drawn, shownAt>>

\* replace_rooms.
ReplaceRooms ==
    /\ Handle("list")
    /\ LET rooms == Head(events).rooms
           here == {r \in Rooms : rooms[r] # "none"} IN
       /\ listed' = rooms
       /\ pending' = pending \cap here
       /\ selected' = IF selected \in here THEN selected ELSE None
       /\ strayed' = strayed \cup (pending \ here)
    /\ UNCHANGED <<inFlight, dialog, pane, commands, drawn, shownAt>>

\* handle_invite_action_ack: a transaction that is not known any more frees the
\* room named by the answer.  An accepted room is selected and opened.
InviteAnswered ==
    /\ Handle("invite")
    /\ LET e == Head(events)
           opens == e.ok /\ e.of = "accept" IN
       /\ pending' = pending \ {e.room}
       /\ selected' = IF opens THEN e.room ELSE selected
       /\ commands' = IF opens THEN Append(commands, Command("open", e.room)) ELSE commands
    /\ UNCHANGED <<listed, inFlight, dialog, pane, drawn, strayed, shownAt>>

\* Mutant: a fatal error leaves the requests in flight.
FatalKeeps ==
    /\ Handle("fatal")
    /\ UNCHANGED <<reducerVars, commands, drawn, strayed, shownAt>>

\* Any delta of the room ends the page it waits for.
Delta ==
    /\ Handle("delta")
    /\ inFlight' = inFlight \ {Head(events).room}
    /\ UNCHANGED <<listed, pending, selected, dialog, pane, commands, drawn,
                   strayed, shownAt>>

Fatal ==
    /\ Handle("fatal")
    /\ inFlight' = {}
    /\ UNCHANGED <<listed, pending, selected, dialog, pane, commands, drawn,
                   strayed, shownAt>>

\* Mutant: a status is shown whatever the dialog shows.
StatusReplaces ==
    /\ Handle("status")
    /\ dialog' = Shown("status")
    /\ UNCHANGED <<listed, pending, selected, inFlight, pane, commands, drawn,
                   strayed, shownAt>>

\* A status only replaces a status.
Status ==
    /\ Handle("status")
    /\ dialog' = IF dialog.mode = "status" THEN Shown("status") ELSE dialog
    /\ UNCHANGED <<listed, pending, selected, inFlight, pane, commands, drawn,
                   strayed, shownAt>>

\* Mutant: the copy button keeps its text when a new key is shown.
MadeKeepsCopied ==
    /\ Handle("made")
    /\ LET e == Head(events) IN
       /\ dialog' \in IF e.ok THEN {[KeyShown(e.key) EXCEPT !.copied = dialog.copied]}
                      ELSE {dialog, Shown("info")}
       /\ shownAt' = IF e.ok THEN asked ELSE shownAt
    /\ UNCHANGED <<listed, pending, selected, inFlight, pane, commands, drawn,
                   strayed>>

\* A new key is shown; a backup that is there already is told; any other error
\* leaves the dialog as it is.
Made ==
    /\ Handle("made")
    /\ LET e == Head(events) IN
       /\ dialog' \in IF e.ok THEN {KeyShown(e.key)} ELSE {dialog, Shown("info")}
       /\ shownAt' = IF e.ok THEN asked ELSE shownAt
    /\ UNCHANGED <<listed, pending, selected, inFlight, pane, commands, drawn,
                   strayed>>

Restored ==
    /\ Handle("restored")
    /\ dialog' = Shown("info")
    /\ UNCHANGED <<listed, pending, selected, inFlight, pane, commands, drawn,
                   strayed, shownAt>>

\* AuthResult.
Auth ==
    /\ Handle("auth")
    /\ pane' = ~Head(events).ok
    /\ drawn' = IF pane' THEN drawn \cup {"form"} ELSE drawn
    /\ UNCHANGED <<listed, pending, selected, inFlight, dialog, commands, strayed,
                   shownAt>>

\* clear_authenticated_data and the login pane.
LoggedOut ==
    /\ Handle("loggedOut")
    /\ listed' = [r \in Rooms |-> "none"]
    /\ pending' = {} /\ selected' = None /\ inFlight' = {}
    /\ dialog' = Closed /\ pane' = TRUE /\ drawn' = drawn \cup {"form"}
    /\ strayed' = strayed \cup pending
    /\ UNCHANGED <<commands, shownAt>>

HandleEvent ==
    \/ ReplaceRooms \/ InviteAnswered \/ Delta \/ Fatal \/ Status \/ Made \/ Restored
    \/ Auth \/ LoggedOut

Execute ==
    \/ ExecuteMaker \/ ExecuteRestore \/ ExecuteRead \/ ExecuteInvite \/ ExecuteSession
    \/ Finish

Next ==
    \/ \E r \in Rooms : SelectRoom(r) \/ \E action \in Invites : RequestInvite(r, action)
    \/ \E kind \in Makers \cup {"status"} : OpenDialog(kind)
    \/ \E next \in {RestorePrompt, Closed} : Turn(next)
    \/ Scroll \/ Restore \/ Leave \/ ReadKey \/ CopyKey \/ Draw
    \/ Execute \/ Sync
    \/ HandleEvent

Spec == Init /\ [][Next]_vars

-----------------------------------------------------------------------------
(* Properties.                                                             *)

\* Buttons that are hidden or disabled until an answer comes get one: an invite
\* marked as pending, a page of history in flight and a restore in flight are
\* each under way, or their answer is on its way.
NothingWaitsInVain ==
    /\ \A r \in pending : UnderWay(Invites, r) # {}
    /\ \A r \in inFlight :
          \/ UnderWay({"page"}, r) # {}
          \/ \E e \in ToSet(events) : e \in {News("fatal"), NewsOf(r)}
    /\ dialog.restoring => UnderWay({"restore"}, None) # {}

\* An invite is accepted or rejected once: no second request for a room is under
\* way unless the first was forgotten because the room left the list.
InviteAskedOnce ==
    \A r \in Rooms \ strayed : \A x, y \in UnderWay(Invites, r) : x = y

\* A logout is done and its event not handled: the screen is of the old session.
Leaving ==
    \/ \E k \in DOMAIN events : events[k].kind = "loggedOut"
    \/ running # Idle /\ \E k \in DOMAIN running.out : running.out[k].kind = "loggedOut"

\* The recovery key on the screen opens the server's backup once every answer
\* is in, unless a reset or a creation stopped half-way or the session ended;
\* and a key marked as copied is in the clipboard, unless the event worker
\* changed the key while the other was being copied.
KeyShownWorks ==
    /\ UnderWay(Makers, None) = {} /\ ~Leaving /\ online /\ ~broken
         => dialog.key \in {0, backup}
    /\ dialog.copied /\ dialog.key # mistaken => clipboard = dialog.key

\* Only the user takes a recovery key away, or the answer of a request made before
\* it was shown, or the answer of a restore asked for beside it, on a prompt that
\* the screen still had, or the logout: no trailing status does, and no other
\* request can be under way.
KeyStaysShown ==
    [][dialog.key # 0 /\ dialog'.key # dialog.key /\ events' # events
         => \/ Head(events).kind = "loggedOut"
            \/ /\ Head(events).kind \in {"made", "restored"}
               /\ Head(events).txn < shownAt
            \/ Head(events).kind = "restored" /\ dialog.restoring]_vars
=============================================================================
