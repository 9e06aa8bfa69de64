---------------------------- MODULE PanelsProofs ----------------------------
(***************************************************************************)
(* What the app shows while it waits, proved for every number of rooms,    *)
(* commands and steps of the sync task.                                    *)
(*                                                                         *)
(* The recovery key: nothing but the user, an answer to a request made     *)
(* before the key was shown, a restore asked for beside it, or the logout  *)
(* takes it away.  Transactions are drawn in order, an answer carries the  *)
(* transaction of its command, and a request for another key takes the     *)
(* place of the one shown.  So what is under way while a key is shown is   *)
(* older than the key, or is a restore from a prompt drawn late; and the   *)
(* dialog then says that it is restoring.                                  *)
(*                                                                         *)
(* The requests: each is in the queue, at the runtime or answered in the   *)
(* stream, and an answer has one event that names its request.  So what    *)
(* the screen waits for is somewhere, and an invite asked for once is in   *)
(* one place only.                                                         *)
(*                                                                         *)
(* The key that works: the last answer on its way that changes the key     *)
(* shows the one the backup opens with, or none.                           *)
(***************************************************************************)
EXTENDS Panels, SequenceTheorems, TLAPS

SomeRoom == Rooms \cup {None}
Requests == Invites \cup Makers
            \cup {"open", "page", "status", "restore", "login", "logout"}
Happenings == {"invite", "list", "delta", "fatal", "status", "made", "restored",
               "auth", "loggedOut"}
Commands == [kind : Requests, room : SomeRoom, txn : Nat]
Members == [Rooms -> Memberships]
Events == [kind : Happenings, of : Requests \cup {"none"}, room : SomeRoom, txn : Nat,
           ok : BOOLEAN, key : Nat, rooms : {<<>>} \cup Members]
Answers == [of : Commands, out : Seq(Events)]

\* The requests that end in a change of the recovery key's dialog, and the
\* answers that make it.
Recovery == Makers \cup {"restore"}
Verdicts == {"made", "restored"}

\* The type invariant of what the theorems need.
TypesOK ==
    /\ commands \in Seq(Commands) /\ asked \in Nat
    /\ events \in Seq(Events)
    /\ running = Idle \/ running \in Answers
    /\ dialog \in Dialog
    /\ member \in Members
    /\ selected \in SomeRoom /\ shownAt \in Nat
    /\ keys \in Nat /\ backup \in Nat

\* The requests whose answer names them, and the events that do.
Answered == Invites \cup Recovery
IsReply(e) ==
    \/ e.of \in Invites /\ e.kind = "invite"
    \/ e.of \in Makers /\ e.kind = "made"
    \/ e.of = "restore" /\ e.kind = "restored"
    \/ e.of = "none" /\ e.kind \notin {"invite", "made", "restored"}

\* The first event of an answer to c, and the whole of it.
Begins(c, e) ==
    /\ e \in Events /\ IsReply(e)
    /\ IF c.kind \in Answered THEN e.of = c.kind /\ e.room = c.room ELSE e.of = "none"
    /\ e.kind \in Verdicts => e.txn = c.txn
    /\ c.kind = "page" => e \in {News("fatal"), NewsOf(c.room)}
IsAnswer(c, out) ==
    /\ out \in Seq(Events) /\ 1 \in DOMAIN out /\ Begins(c, out[1])
    /\ \A k \in DOMAIN out : k # 1 => IsReply(out[k]) /\ out[k].of = "none"

\* The recovery requests, with or without the restores, and what ends them.
Kinds == {Makers, Recovery}
Ending == [kinds \in Kinds |-> IF kinds = Makers THEN {"made"} ELSE Verdicts]

\* Every request of these kinds that is under way was made before transaction t.
MadeBefore(t, kinds) ==
    /\ \A k \in DOMAIN commands :
          commands[k].kind \in kinds => commands[k].txn < t
    /\ running # Idle => \A k \in DOMAIN running.out :
          running.out[k].kind \in Ending[kinds] => running.out[k].txn < t
    /\ \A k \in DOMAIN events :
          events[k].kind \in Ending[kinds] => events[k].txn < t

\* What a shown key is younger than: no restore is, once one is asked for beside it.
Older == IF dialog.restoring THEN Makers ELSE Recovery

\* The inductive invariant.
KeyInv ==
    /\ TypesOK
    /\ MadeBefore(asked, Recovery)
    /\ dialog.key # 0 =>
          dialog.mode = "key" /\ ~dialog.input /\ MadeBefore(shownAt, Older)

-----------------------------------------------------------------------------
(* What the events and dialogs of the model are.                           *)

LEMMA RepliesAreEvents ==
    /\ \A kind \in Happenings, c \in Commands :
          /\ Reply(kind, c) \in Events
          /\ Reply(kind, c).kind = kind /\ Reply(kind, c).txn = c.txn
          /\ Reply(kind, c).of = c.kind /\ Reply(kind, c).room = c.room
          /\ Failed(Reply(kind, c)) \in Events
          /\ Failed(Reply(kind, c)).kind = kind /\ Failed(Reply(kind, c)).txn = c.txn
          /\ Failed(Reply(kind, c)).of = c.kind /\ Failed(Reply(kind, c)).room = c.room
    /\ \A kind \in Happenings :
          /\ News(kind) \in Events /\ News(kind).kind = kind /\ News(kind).of = "none"
          /\ Failed(News(kind)) \in Events /\ Failed(News(kind)).kind = kind
          /\ Failed(News(kind)).of = "none"
    /\ \A r \in SomeRoom :
          NewsOf(r) \in Events /\ NewsOf(r).kind = "delta" /\ NewsOf(r).of = "none"
    /\ \A m \in Members :
          RoomList(m) \in Events /\ RoomList(m).kind = "list" /\ RoomList(m).of = "none"
<1>1. \A kind \in Happenings, c \in Commands :
          /\ Reply(kind, c) \in Events
          /\ Reply(kind, c).kind = kind /\ Reply(kind, c).txn = c.txn
          /\ Reply(kind, c).of = c.kind /\ Reply(kind, c).room = c.room
          /\ Failed(Reply(kind, c)) \in Events
          /\ Failed(Reply(kind, c)).kind = kind /\ Failed(Reply(kind, c)).txn = c.txn
          /\ Failed(Reply(kind, c)).of = c.kind /\ Failed(Reply(kind, c)).room = c.room
  BY DEF Reply, Failed, Events, Commands
<1>2. \A kind \in Happenings :
          /\ News(kind) \in Events /\ News(kind).kind = kind /\ News(kind).of = "none"
          /\ Failed(News(kind)) \in Events /\ Failed(News(kind)).kind = kind
          /\ Failed(News(kind)).of = "none"
  BY DEF News, NoCommand, Reply, Failed, Events, SomeRoom
<1>3. \A r \in SomeRoom :
          NewsOf(r) \in Events /\ NewsOf(r).kind = "delta" /\ NewsOf(r).of = "none"
  BY DEF NewsOf, News, NoCommand, Reply, Events, Happenings, SomeRoom
<1>4. \A m \in Members :
          RoomList(m) \in Events /\ RoomList(m).kind = "list" /\ RoomList(m).of = "none"
  BY DEF RoomList, News, NoCommand, Reply, Events, Happenings, SomeRoom
<1> QED
  BY <1>1, <1>2, <1>3, <1>4

LEMMA DialogsAreKeyless ==
    /\ Closed \in Dialog /\ Closed.key = 0
    /\ RestorePrompt \in Dialog /\ RestorePrompt.key = 0
    /\ \A mode \in {"info", "status", "creating"} :
          Shown(mode) \in Dialog /\ Shown(mode).key = 0
    /\ \A key \in Nat :
          /\ KeyShown(key) \in Dialog
          /\ KeyShown(key).mode = "key" /\ ~KeyShown(key).input
          /\ ~KeyShown(key).restoring
BY DEF Closed, RestorePrompt, Shown, KeyShown, Dialog

LEMMA KindsFacts ==
    /\ Makers \in Kinds /\ Recovery \in Kinds /\ Older \in Kinds
    /\ Makers \subseteq Recovery /\ "restore" \in Recovery /\ "restore" \notin Makers
    /\ Ending[Makers] = {"made"} /\ Ending[Recovery] = Verdicts /\ "made" \in Verdicts
BY DEF Kinds, Older, Ending, Recovery, Makers, Verdicts

\* What keeps the requests under way older than the key on the screen.
LEMMA OlderStays ==
    ASSUME KeyInv, TypesOK', MadeBefore(asked, Recovery)', shownAt' = shownAt,
           \/ dialog'.key = 0
           \/ dialog'.key = dialog.key /\ dialog'.mode = dialog.mode
              /\ dialog'.input = dialog.input /\ dialog'.restoring = dialog.restoring,
           \A t \in Nat, kinds \in Kinds : MadeBefore(t, kinds) => MadeBefore(t, kinds)'
    PROVE  KeyInv'
<1>1. CASE dialog'.key = 0
  BY <1>1 DEF KeyInv
<1>2. CASE dialog.key # 0 /\ dialog'.key = dialog.key /\ dialog'.mode = dialog.mode
           /\ dialog'.input = dialog.input /\ dialog'.restoring = dialog.restoring
  <2>1. shownAt \in Nat /\ Older \in Kinds /\ Older' = Older
    BY <1>2, KindsFacts DEF KeyInv, TypesOK, Older
  <2>2. PICK t \in Nat, kinds \in Kinds : t = shownAt /\ kinds = Older
    BY <2>1
  <2>3. MadeBefore(t, kinds)'
    BY <1>2, <2>2 DEF KeyInv
  <2>4. MadeBefore(shownAt, Older)'
    BY <2>1, <2>2, <2>3 DEF MadeBefore
  <2> QED
    BY <1>2, <2>4 DEF KeyInv
<1> QED
  BY <1>1, <1>2

-----------------------------------------------------------------------------
(* The user.                                                               *)

\* What a request of the user does to the queue; one that asks for a recovery
\* carries the newest transaction.
LEMMA AskIsNewest ==
    ASSUME TypesOK, NEW kind \in Requests, NEW room \in SomeRoom, Ask(kind, room),
           kind \in Recovery => room = None
    PROVE  /\ asked' = asked + 1 /\ commands' \in Seq(Commands)
           /\ \A t \in Nat, kinds \in Kinds :
                 /\ MadeBefore(t, kinds) /\ events' = events /\ running' = running
                 /\ kind \in kinds => asked < t
                 => MadeBefore(t, kinds)'
<1> DEFINE c == Command(kind, room)
<1>1. /\ c \in Commands /\ c.kind = kind
      /\ \A kinds \in Kinds : kind \in kinds => c.txn = asked
  BY DEF Command, Commands, TypesOK, Kinds, Recovery
<1>2. commands' = Append(commands, c) /\ asked' = asked + 1
  BY DEF Ask
<1> HIDE DEF c
<1>3. /\ Append(commands, c) \in Seq(Commands)
      /\ DOMAIN Append(commands, c) = 1..(Len(commands) + 1)
      /\ DOMAIN commands = 1..Len(commands)
      /\ \A k \in DOMAIN commands : Append(commands, c)[k] = commands[k]
      /\ Append(commands, c)[Len(commands) + 1] = c
  BY <1>1 DEF TypesOK
<1>4. ASSUME NEW t \in Nat, NEW kinds \in Kinds, MadeBefore(t, kinds), events' = events,
             running' = running, kind \in kinds => asked < t
      PROVE  MadeBefore(t, kinds)'
  <2>1. ASSUME NEW k \in DOMAIN Append(commands, c),
               Append(commands, c)[k].kind \in kinds
        PROVE  Append(commands, c)[k].txn < t
    <3>1. CASE k \in DOMAIN commands
      BY <2>1, <3>1, <1>3, <1>4 DEF MadeBefore
    <3>2. CASE k = Len(commands) + 1
      BY <2>1, <3>2, <1>1, <1>3, <1>4
    <3> QED
      BY <2>1, <3>1, <3>2, <1>3 DEF TypesOK
  <2> QED
    BY <1>2, <1>4, <2>1 DEF MadeBefore
<1> QED
  BY <1>2, <1>3, <1>4

\* Requests made before a transaction were made before any later one.
LEMMA LaterIsWeaker ==
    ASSUME TypesOK, NEW t \in Nat, NEW u \in Nat, NEW kinds \in Kinds, t <= u,
           MadeBefore(t, kinds)
    PROVE  MadeBefore(u, kinds)
<1>1. ASSUME NEW k \in DOMAIN commands PROVE commands[k].txn \in Nat
  <2>1. commands[k] \in Commands
    BY DEF TypesOK
  <2> QED
    BY <2>1 DEF Commands
<1>2. ASSUME NEW k \in DOMAIN events PROVE events[k].txn \in Nat
  <2>1. events[k] \in Events
    BY DEF TypesOK
  <2> QED
    BY <2>1 DEF Events
<1>3. ASSUME running # Idle, NEW k \in DOMAIN running.out PROVE running.out[k].txn \in Nat
  <2>1. running.out \in Seq(Events)
    BY <1>3 DEF TypesOK, Answers
  <2>2. running.out[k] \in Events
    BY <1>3, <2>1
  <2> QED
    BY <2>2 DEF Events
<1> QED
  BY <1>1, <1>2, <1>3 DEF MadeBefore

\* A request that leaves the dialog alone, and does not ask for a recovery.
LEMMA OtherAskKeepsInv ==
    ASSUME KeyInv, NEW kind \in Requests \ Recovery, NEW room \in SomeRoom,
           Ask(kind, room), selected' \in SomeRoom,
           UNCHANGED <<dialog, running, online, member, backup, keys, events, shownAt>>
    PROVE  KeyInv'
<1>1. asked' = asked + 1 /\ commands' \in Seq(Commands)
  BY AskIsNewest DEF KeyInv
<1>2. TypesOK'
  BY <1>1 DEF KeyInv, TypesOK
<1>3. asked \in Nat /\ asked + 1 \in Nat /\ shownAt \in Nat
  BY DEF KeyInv, TypesOK
<1>4. MadeBefore(asked + 1, Recovery)
  BY <1>3, LaterIsWeaker, KindsFacts DEF KeyInv
<1>5. \A t \in Nat, kinds \in Kinds : MadeBefore(t, kinds) => MadeBefore(t, kinds)'
  BY AskIsNewest DEF KeyInv, Kinds, Recovery
<1>6. MadeBefore(asked, Recovery)'
  BY <1>1, <1>3, <1>4, <1>5, KindsFacts DEF MadeBefore
<1> QED
  BY <1>2, <1>5, <1>6, OlderStays

\* A request for a recovery, or its status, that takes the place of the dialog
\* or is made in one that shows no key.
LEMMA DialogAskKeepsInv ==
    ASSUME KeyInv, NEW kind \in Requests, Ask(kind, None), selected' = selected,
           dialog' \in Dialog, dialog'.key = 0,
           UNCHANGED <<running, online, member, backup, keys, events, shownAt>>
    PROVE  KeyInv'
<1>1. None \in SomeRoom
  BY DEF SomeRoom
<1>2. asked' = asked + 1 /\ commands' \in Seq(Commands)
  BY <1>1, AskIsNewest DEF KeyInv
<1>3. TypesOK'
  BY <1>2 DEF KeyInv, TypesOK
<1>4. asked \in Nat /\ asked + 1 \in Nat /\ asked < asked + 1
  BY DEF KeyInv, TypesOK
<1>5. MadeBefore(asked + 1, Recovery)
  BY <1>4, LaterIsWeaker, KindsFacts DEF KeyInv
<1>6. \A t \in Nat, kinds \in Kinds :
         MadeBefore(t, kinds) /\ asked < t => MadeBefore(t, kinds)'
  BY <1>1, AskIsNewest DEF KeyInv
<1>7. MadeBefore(asked, Recovery)'
  BY <1>2, <1>4, <1>5, <1>6, KindsFacts DEF MadeBefore
<1> QED
  BY <1>3, <1>7 DEF KeyInv

\* The queues as they are, and a dialog that shows the same key or none.
LEMMA DialogKeepsInv ==
    ASSUME KeyInv, dialog' \in Dialog, selected' \in SomeRoom,
           \/ dialog'.key = 0
           \/ dialog'.key = dialog.key /\ dialog'.mode = dialog.mode
              /\ dialog'.input = dialog.input /\ dialog'.restoring = dialog.restoring,
           UNCHANGED <<commands, asked, running, member, backup, keys, events, shownAt>>
    PROVE  KeyInv'
<1>1. TypesOK'
  BY DEF KeyInv, TypesOK
<1>2. MadeBefore(asked, Recovery)'
      /\ \A t \in Nat, kinds \in Kinds : MadeBefore(t, kinds) => MadeBefore(t, kinds)'
  BY DEF KeyInv, MadeBefore
<1> QED
  BY <1>1, <1>2, OlderStays

\* What is older with the restores is older without them.
LEMMA FewerAsks ==
    ASSUME NEW t, NEW kinds \in Kinds, MadeBefore(t, kinds)
    PROVE  MadeBefore(t, Makers)
BY KindsFacts DEF MadeBefore, Kinds

\* A restore, from a prompt that may have gone: the dialog says that it is restoring.
LEMMA RestoreKeepsInv == KeyInv /\ Restore => KeyInv'
<1> SUFFICES ASSUME KeyInv, Restore PROVE KeyInv'
  OBVIOUS
<1>1. /\ "restore" \in Requests /\ None \in SomeRoom
      /\ "restore" \notin Makers
  BY DEF Requests, SomeRoom, Makers
<1>2. /\ Ask("restore", None) /\ UNCHANGED <<running, events, selected, shownAt>>
      /\ UNCHANGED <<member, keys, backup>>
  BY DEF Restore, runtimeVars, historyVars
<1>3. /\ dialog' \in Dialog /\ dialog'.key = dialog.key /\ dialog'.mode = dialog.mode
      /\ dialog'.input = dialog.input /\ dialog'.restoring = TRUE
  BY DEF Restore, KeyInv, TypesOK, Dialog
<1>4. asked' = asked + 1 /\ commands' \in Seq(Commands)
  BY <1>1, <1>2, AskIsNewest DEF KeyInv
<1>5. TypesOK'
  BY <1>2, <1>3, <1>4 DEF KeyInv, TypesOK
<1>6. asked \in Nat /\ asked + 1 \in Nat /\ asked < asked + 1 /\ shownAt \in Nat
      /\ dialog.restoring \in BOOLEAN
  BY DEF KeyInv, TypesOK, Dialog
<1>7. MadeBefore(asked + 1, Recovery)
  BY <1>6, LaterIsWeaker, KindsFacts DEF KeyInv
<1>8. \A t \in Nat, kinds \in Kinds :
         MadeBefore(t, kinds) /\ ("restore" \in kinds => asked < t) => MadeBefore(t, kinds)'
  BY <1>1, <1>2, AskIsNewest DEF KeyInv
<1>9. MadeBefore(asked, Recovery)'
  BY <1>4, <1>6, <1>7, <1>8, KindsFacts DEF MadeBefore
<1>10. CASE dialog.key # 0
  <2>1. MadeBefore(shownAt, Makers)
    BY <1>6, <1>10, FewerAsks, KindsFacts DEF KeyInv
  <2>2. MadeBefore(shownAt, Makers)'
    BY <1>1, <1>2, <1>6, <1>8, <2>1, KindsFacts DEF MadeBefore
  <2> QED
    BY <1>3, <1>5, <1>9, <1>10, <2>2 DEF KeyInv, Older
<1> QED
  BY <1>3, <1>5, <1>9, <1>10 DEF KeyInv

\* Every action of the user.
UserStep ==
    \/ \E r \in Rooms : SelectRoom(r) \/ \E action \in Invites : RequestInvite(r, action)
    \/ \E kind \in Makers \cup {"status"} : OpenDialog(kind)
    \/ \E next \in {RestorePrompt, Closed} : Turn(next)
    \/ Scroll \/ Restore \/ Leave \/ ReadKey \/ CopyKey \/ Draw

LEMMA UserKeepsInv ==
    ASSUME KeyInv, UserStep
    PROVE  KeyInv'
<1> USE DEF reducerVars, runtimeVars, bridgeVars, historyVars
<1>0. selected \in SomeRoom /\ dialog \in Dialog /\ None \in SomeRoom
  BY DEF KeyInv, TypesOK, SomeRoom
<1>1. ASSUME NEW r \in Rooms, SelectRoom(r) PROVE KeyInv'
  <2>1. "open" \in Requests \ Recovery /\ r \in SomeRoom
    BY DEF Requests, Recovery, Makers, SomeRoom
  <2> QED
    BY <1>1, <2>1, OtherAskKeepsInv DEF SelectRoom
<1>2. ASSUME NEW r \in Rooms, NEW action \in Invites, RequestInvite(r, action)
      PROVE  KeyInv'
  <2>1. action \in Requests \ Recovery /\ r \in SomeRoom
    BY DEF Requests, Recovery, Makers, Invites, SomeRoom
  <2> QED
    BY <1>0, <1>2, <2>1, OtherAskKeepsInv DEF RequestInvite
<1>3. ASSUME NEW kind \in Makers \cup {"status"}, OpenDialog(kind) PROVE KeyInv'
  <2>1. kind \in Requests
    BY DEF Requests, Makers
  <2>2. dialog' \in Dialog /\ dialog'.key = 0
    BY <1>3, DialogsAreKeyless DEF OpenDialog
  <2> QED
    BY <1>3, <2>1, <2>2, DialogAskKeepsInv DEF OpenDialog
<1>4. ASSUME NEW next \in {RestorePrompt, Closed}, Turn(next) PROVE KeyInv'
  <2>1. dialog' \in Dialog /\ dialog'.key = 0
    BY <1>4, DialogsAreKeyless DEF Turn
  <2> QED
    BY <1>0, <1>4, <2>1, DialogKeepsInv DEF Turn
<1>5. CASE Scroll
  <2>1. "page" \in Requests \ Recovery
    BY DEF Requests, Recovery, Makers
  <2> QED
    BY <1>0, <1>5, <2>1, OtherAskKeepsInv DEF Scroll
<1>6. CASE Restore
  BY <1>6, RestoreKeepsInv
<1>7. CASE Leave
  <2>1. {"login", "logout"} \subseteq Requests \ Recovery
    BY DEF Requests, Recovery, Makers
  <2> QED
    BY <1>0, <1>7, <2>1, OtherAskKeepsInv DEF Leave
<1>10. CASE Draw
  BY <1>0, <1>10, DialogKeepsInv DEF Draw
<1>8. CASE ReadKey
  BY <1>0, <1>8, DialogKeepsInv DEF ReadKey
<1>9. CASE CopyKey
  <2>1. /\ dialog' \in Dialog /\ dialog'.key = dialog.key /\ dialog'.mode = dialog.mode
        /\ dialog'.input = dialog.input /\ dialog'.restoring = dialog.restoring
    BY <1>0, <1>9 DEF CopyKey, Dialog
  <2> QED
    BY <1>0, <1>9, <2>1, DialogKeepsInv DEF CopyKey
<1> QED
  BY <1>1, <1>2, <1>3, <1>4, <1>5, <1>6, <1>7, <1>8, <1>9, <1>10
     DEF UserStep

-----------------------------------------------------------------------------
(* The runtime and the sync task.                                          *)

\* A verdict is the first event of the answer to a recovery request.
LEMMA VerdictsAreAnswers ==
    ASSUME NEW c \in Commands, NEW out, IsAnswer(c, out), NEW k \in DOMAIN out,
           out[k].kind \in Verdicts
    PROVE  /\ k = 1 /\ c.kind \in Recovery /\ out[k].txn = c.txn
           /\ \A kinds \in Kinds : out[k].kind \in Ending[kinds] => c.kind \in kinds
<1>1. k = 1
  BY DEF IsAnswer, IsReply, Verdicts, Makers, Invites
<1>2. out[1].of \in Recovery /\ out[1].txn = c.txn
  BY <1>1 DEF IsAnswer, Begins, IsReply, Verdicts, Recovery, Makers, Invites
<1>3. "none" \notin Recovery
  BY DEF Recovery, Makers
<1>4. c.kind \in Recovery /\ out[1].of = c.kind /\ out[1].txn = c.txn
  BY <1>1, <1>2, <1>3 DEF IsAnswer, Begins
<1>5. out[1].kind = "made" => c.kind \in Makers
  BY <1>1, <1>4 DEF IsAnswer, Begins, IsReply, Makers, Invites, Recovery
<1> QED
  BY <1>1, <1>4, <1>5, KindsFacts DEF Kinds

\* The command at the head of the queue is taken and its answer prepared.
LEMMA TakeKeepsInv ==
    ASSUME KeyInv, running = Idle, commands # <<>>, commands' = Tail(commands),
           NEW out, IsAnswer(Head(commands), out),
           running' = [of |-> Head(commands), out |-> out],
           member' \in Members, keys' \in Nat, backup' \in Nat,
           UNCHANGED <<dialog, asked, selected, events, shownAt>>
    PROVE  KeyInv'
<1>1. /\ Head(commands) \in Commands /\ Tail(commands) \in Seq(Commands)
      /\ 1 \in DOMAIN commands /\ Head(commands) = commands[1]
      /\ \A k \in DOMAIN Tail(commands) :
            k + 1 \in DOMAIN commands /\ Tail(commands)[k] = commands[k + 1]
  BY DEF KeyInv, TypesOK
<1>2. running' \in Answers /\ running'.out = out
  BY <1>1 DEF IsAnswer, Answers
<1>3. TypesOK'
  BY <1>1, <1>2 DEF KeyInv, TypesOK
<1>4. ASSUME NEW t \in Nat, NEW kinds \in Kinds, MadeBefore(t, kinds)
      PROVE  MadeBefore(t, kinds)'
  <2>1. \A k \in DOMAIN commands' : commands'[k].kind \in kinds => commands'[k].txn < t
    BY <1>1, <1>4 DEF MadeBefore
  <2>2. Head(commands).kind \in kinds => Head(commands).txn < t
    BY <1>1, <1>4 DEF MadeBefore
  <2>3. \A k \in DOMAIN running'.out :
            running'.out[k].kind \in Ending[kinds] => running'.out[k].txn < t
    BY <1>1, <1>2, <2>2, VerdictsAreAnswers, KindsFacts DEF Kinds
  <2> QED
    BY <1>4, <2>1, <2>3 DEF MadeBefore
<1>5. asked \in Nat /\ shownAt \in Nat
  BY DEF KeyInv, TypesOK
<1>6. MadeBefore(asked, Recovery)'
  BY <1>4, <1>5, KindsFacts DEF KeyInv, MadeBefore
<1> QED
  BY <1>3, <1>4, <1>6, OlderStays

\* An answer of one event, and of two the second of which names no request.
LEMMA ShortAnswers ==
    ASSUME NEW c \in Commands, NEW e, Begins(c, e)
    PROVE  /\ IsAnswer(c, <<e>>)
           /\ IsAnswer(c, <<e>> \o <<>>)
           /\ \A f \in Events : IsReply(f) /\ f.of = "none" =>
                 IsAnswer(c, <<e, f>>) /\ IsAnswer(c, <<e>> \o <<f>>)
<1>0. e \in Events
  BY DEF Begins
<1>1. <<e>> \o <<>> = <<e>>
  BY <1>0
<1>2. IsAnswer(c, <<e>>)
  <2>1. <<e>> \in Seq(Events) /\ DOMAIN <<e>> = {1} /\ <<e>>[1] = e
    BY <1>0
  <2> QED
    BY <2>1 DEF IsAnswer
<1>3. ASSUME NEW f \in Events, IsReply(f), f.of = "none"
      PROVE  IsAnswer(c, <<e, f>>) /\ IsAnswer(c, <<e>> \o <<f>>)
  <2>1. /\ <<e, f>> \in Seq(Events) /\ DOMAIN <<e, f>> = {1, 2}
        /\ <<e, f>>[1] = e /\ <<e, f>>[2] = f
    BY <1>0
  <2> DEFINE g == <<e>> \o <<f>>
  <2>2. <<e>> \in Seq(Events) /\ <<f>> \in Seq(Events) /\ Len(<<e>>) = 1 /\ Len(<<f>>) = 1
        /\ <<e>>[1] = e /\ <<f>>[1] = f
    BY <1>0
  <2>3. /\ g \in Seq(Events) /\ Len(g) = 2 /\ g[1] = e /\ g[2] = f
    BY <2>2, ConcatProperties
  <2> HIDE DEF g
  <2>4. DOMAIN g = {1, 2}
    BY <2>3
  <2> QED
    BY <1>3, <2>1, <2>3, <2>4 DEF IsAnswer, g
<1> QED
  BY <1>1, <1>2, <1>3

\* Every command's execution, but for the sending of its answer.
TakeStep == ExecuteMaker \/ ExecuteRestore \/ ExecuteRead \/ ExecuteInvite \/ ExecuteSession

\* The outcomes of a recovery request that makes a key.
LEMMA OutcomeCases ==
    ASSUME TypesOK, NEW kind \in Makers,
           NEW o \in (IF online THEN Outcomes(kind) ELSE {<<backup, 0, broken>>})
    PROVE  \/ o[1] = backup /\ o[2] = 0 /\ o[3] = broken
           \/ /\ online /\ o[1] = keys + 1
              /\ (o[2] = keys + 1 /\ o[3] = FALSE) \/ (o[2] = 0 /\ o[3] = TRUE)
           \/ online /\ o[1] = 0 /\ o[2] = 0 /\ o[3] = TRUE
<1>1. \/ o = <<backup, 0, broken>>
      \/ online /\ o \in {<<keys + 1, keys + 1, FALSE>>, <<keys + 1, 0, TRUE>>, <<0, 0, TRUE>>}
  BY DEF Outcomes, Makers
<1>2. CASE o = <<backup, 0, broken>>
  BY <1>2
<1>3. CASE online /\ o = <<keys + 1, keys + 1, FALSE>>
  BY <1>3
<1>4. CASE online /\ o = <<keys + 1, 0, TRUE>>
  BY <1>4
<1>5. CASE online /\ o = <<0, 0, TRUE>>
  BY <1>5
<1> QED
  BY <1>1, <1>2, <1>3, <1>4, <1>5

LEMMA TakenFacts ==
    ASSUME TypesOK, TakeStep
    PROVE  /\ running = Idle /\ commands # <<>> /\ commands' = Tail(commands)
           /\ UNCHANGED <<reducerVars, copying, clipboard, asked, events, strayed, shownAt,
                          mistaken>>
           /\ Head(commands) \in Commands
           /\ member' \in Members /\ keys' \in Nat /\ backup' \in Nat
           /\ \E out : /\ IsAnswer(Head(commands), out)
                       /\ running' = [of |-> Head(commands), out |-> out]
<1> DEFINE c == Head(commands)
<1> USE DEF reducerVars, historyVars
<1>0. member \in Members /\ keys \in Nat /\ backup \in Nat
  BY DEF TypesOK
<1>1. /\ running = Idle /\ commands # <<>> /\ commands' = Tail(commands)
      /\ UNCHANGED <<reducerVars, copying, clipboard, asked, events, strayed, shownAt,
                     mistaken>>
  BY DEF TakeStep, ExecuteMaker, ExecuteRestore, ExecuteRead, ExecuteInvite,
         ExecuteSession, Take
<1>2. c \in Commands /\ c.room \in SomeRoom
  <2>1. c \in Commands
    BY <1>1 DEF TypesOK
  <2> QED
    BY <2>1 DEF Commands
<1>3. \A kind \in {"status", "list"} :
         News(kind) \in Events /\ IsReply(News(kind)) /\ News(kind).of = "none"
  BY RepliesAreEvents DEF Happenings, IsReply
<1> SUFFICES /\ member' \in Members /\ keys' \in Nat /\ backup' \in Nat
             /\ \E out : IsAnswer(c, out) /\ running' = [of |-> c, out |-> out]
  BY <1>1, <1>2
<1>4. CASE ExecuteMaker
  <2>1. PICK o \in (IF online THEN Outcomes(c.kind) ELSE {<<backup, 0, broken>>}),
             more \in {<<>>, <<News("status")>>} :
          /\ backup' = o[1]
          /\ keys' = IF o[1] > keys THEN o[1] ELSE keys
          /\ Answer(<<[Reply("made", c) EXCEPT !.key = o[2], !.ok = o[2] # 0]>> \o more)
    BY <1>4 DEF ExecuteMaker
  <2> DEFINE e == [Reply("made", c) EXCEPT !.key = o[2], !.ok = o[2] # 0]
  <2>2. c.kind \in Makers
    BY <1>4 DEF ExecuteMaker, Take
  <2>3. o[1] \in Nat /\ o[2] \in Nat
    <3>1. \/ o[1] = backup /\ o[2] = 0
          \/ o[1] = keys + 1 /\ o[2] \in {0, keys + 1}
          \/ o[1] = 0 /\ o[2] = 0
      BY <2>2, OutcomeCases
    <3> QED
      BY <1>0, <3>1
  <2>4. /\ e \in Events /\ e.kind = "made" /\ e.txn = c.txn
        /\ e.of = c.kind /\ e.room = c.room
    BY <1>2, <2>3 DEF Reply, Events, Commands, Happenings
  <2> HIDE DEF e
  <2>5. Begins(c, e)
    BY <2>2, <2>4 DEF Begins, IsReply, Answered, Recovery, Makers
  <2>6. IsAnswer(c, <<e>> \o more)
    BY <1>2, <1>3, <2>1, <2>5, ShortAnswers
  <2> QED
    BY <1>0, <1>4, <2>1, <2>3, <2>6 DEF ExecuteMaker, Answer, e
<1>5. CASE ExecuteRestore
  <2> DEFINE done == Reply("restored", c)
  <2>1. PICK out \in {<<Failed(done)>>, <<done>>, <<done, News("status")>>} : Answer(out)
    BY <1>5 DEF ExecuteRestore
  <2>2. c.kind = "restore"
    BY <1>5 DEF ExecuteRestore, Take
  <2>3. \A e \in {done, Failed(done)} :
           /\ e \in Events /\ e.kind = "restored" /\ e.txn = c.txn
           /\ e.of = c.kind /\ e.room = c.room
    BY <1>2, RepliesAreEvents DEF Happenings
  <2>4. Begins(c, done) /\ Begins(c, Failed(done))
    BY <2>2, <2>3 DEF Begins, IsReply, Answered, Recovery
  <2> HIDE DEF done
  <2>5. IsAnswer(c, out)
    BY <1>2, <1>3, <2>1, <2>4, ShortAnswers
  <2> QED
    BY <1>0, <1>5, <2>1, <2>5 DEF ExecuteRestore, Answer
<1>6. CASE ExecuteRead
  <2>1. PICK e : /\ Answer(<<e>>)
                 /\ \/ e = News("fatal")
                    \/ e = News("status") /\ c.kind = "status"
                    \/ e = NewsOf(c.room)
    BY <1>6 DEF ExecuteRead
  <2>2. c.kind \in {"status", "page", "open"}
    BY <1>6 DEF ExecuteRead, Take
  <2>3. e \in Events /\ e.of = "none" /\ e.kind \in {"fatal", "status", "delta"}
    BY <1>2, <2>1, RepliesAreEvents DEF Happenings
  <2>4. Begins(c, e)
    BY <2>1, <2>2, <2>3 DEF Begins, IsReply, Answered, Recovery, Makers, Invites, Verdicts
  <2>5. IsAnswer(c, <<e>>)
    BY <1>2, <2>4, ShortAnswers
  <2> QED
    BY <1>0, <1>6, <2>1, <2>5 DEF ExecuteRead, Answer
<1>7. CASE ExecuteInvite
  <2> DEFINE done == Reply("invite", c)
  <2>1. /\ member' \in Members
        /\ \/ Answer(<<done, News("list")>>)
           \/ Answer(<<Failed(done)>>)
    BY <1>0, <1>7 DEF ExecuteInvite, Members, Memberships
  <2>2. c.kind \in Invites
    BY <1>7 DEF ExecuteInvite, Take
  <2>3. \A e \in {done, Failed(done)} :
           e \in Events /\ e.kind = "invite" /\ e.of = c.kind /\ e.room = c.room
    BY <1>2, RepliesAreEvents DEF Happenings
  <2>4. Begins(c, done) /\ Begins(c, Failed(done))
    BY <2>2, <2>3 DEF Begins, IsReply, Answered, Invites, Verdicts
  <2> HIDE DEF done
  <2>5. IsAnswer(c, <<done, News("list")>>) /\ IsAnswer(c, <<Failed(done)>>)
    BY <1>2, <1>3, <2>4, ShortAnswers
  <2> QED
    BY <1>0, <1>7, <2>1, <2>5 DEF ExecuteInvite, Answer
<1>8. CASE ExecuteSession
  <2>1. /\ member' \in Members
        /\ \E out \in {<<News("loggedOut")>>, <<News("auth"), News("list")>>,
                       <<News("fatal")>>, <<Failed(News("auth"))>>} : Answer(out)
    BY <1>0, <1>8 DEF ExecuteSession, Members, Memberships
  <2>2. c.kind \in {"login", "logout"}
    BY <1>8 DEF ExecuteSession, Take
  <2>3. \A e \in {News("loggedOut"), News("auth"), News("fatal"), Failed(News("auth"))} :
           e \in Events /\ e.of = "none" /\ e.kind \in {"loggedOut", "auth", "fatal"}
    BY RepliesAreEvents DEF Happenings
  <2>4. \A e \in {News("loggedOut"), News("auth"), News("fatal"), Failed(News("auth"))} :
           Begins(c, e)
    BY <2>2, <2>3 DEF Begins, IsReply, Answered, Recovery, Makers, Invites, Verdicts
  <2>5. \A out \in {<<News("loggedOut")>>, <<News("auth"), News("list")>>,
                    <<News("fatal")>>, <<Failed(News("auth"))>>} : IsAnswer(c, out)
    BY <1>2, <1>3, <2>4, ShortAnswers
  <2>6. keys' \in Nat /\ backup' \in Nat
    BY <1>0, <1>8 DEF ExecuteSession
  <2> QED
    BY <2>1, <2>5, <2>6 DEF Answer
<1> QED
  BY <1>4, <1>5, <1>6, <1>7, <1>8 DEF TakeStep

LEMMA ExecuteKeepsInv ==
    ASSUME KeyInv, TakeStep
    PROVE  KeyInv'
<1>1. TypesOK
  BY DEF KeyInv
<1> QED
  BY <1>1, TakenFacts, TakeKeepsInv DEF reducerVars

\* The prepared answer is sent; a room list in it says what is known by now.
LEMMA FinishKeepsInv ==
    ASSUME KeyInv, Finish
    PROVE  KeyInv'
<1> DEFINE out == running.out
           new == [i \in DOMAIN out |-> IF out[i].kind = "list" THEN RoomList(member)
                                        ELSE out[i]]
<1>1. /\ running # Idle /\ running' = Idle /\ events' = events \o new
      /\ UNCHANGED <<dialog, asked, selected, shownAt, commands, member, keys, backup>>
  BY DEF Finish, reducerVars, bridgeVars, historyVars
<1>2. out \in Seq(Events) /\ events \in Seq(Events) /\ RoomList(member) \in Events
  BY <1>1, RepliesAreEvents DEF KeyInv, TypesOK, Answers
<1>3. new \in Seq(Events) /\ Len(new) = Len(out)
  BY <1>2
<1>4. \A k \in DOMAIN new : new[k].kind \in Verdicts => new[k] = out[k] /\ k \in DOMAIN out
  BY <1>1, RepliesAreEvents DEF Verdicts, KeyInv, TypesOK
<1> HIDE DEF new
<1>5. /\ events \o new \in Seq(Events)
      /\ \A k \in DOMAIN (events \o new) :
            \/ k \in DOMAIN events /\ (events \o new)[k] = events[k]
            \/ k - Len(events) \in DOMAIN new /\ (events \o new)[k] = new[k - Len(events)]
  BY <1>2, <1>3
<1>6. TypesOK'
  BY <1>1, <1>5 DEF KeyInv, TypesOK
<1>7. ASSUME NEW t \in Nat, NEW kinds \in Kinds, MadeBefore(t, kinds)
      PROVE  MadeBefore(t, kinds)'
  <2>1. \A k \in DOMAIN new : new[k].kind \in Ending[kinds] => new[k].txn < t
    BY <1>1, <1>4, <1>7, KindsFacts DEF MadeBefore, Kinds
  <2>2. \A k \in DOMAIN (events \o new) :
            (events \o new)[k].kind \in Ending[kinds] => (events \o new)[k].txn < t
    BY <1>5, <1>7, <2>1 DEF MadeBefore
  <2> QED
    BY <1>1, <1>7, <2>2 DEF MadeBefore
<1>8. asked \in Nat /\ shownAt \in Nat
  BY DEF KeyInv, TypesOK
<1>9. MadeBefore(asked, Recovery)'
  BY <1>1, <1>7, <1>8, KindsFacts DEF KeyInv, MadeBefore
<1> QED
  BY <1>1, <1>6, <1>7, <1>9, OlderStays

\* The sync task sends a room list, news of a room or an error.
LEMMA SyncFacts ==
    ASSUME TypesOK, Sync
    PROVE  /\ UNCHANGED <<reducerVars, bridgeVars, running, online, backup, keys, historyVars>>
           /\ member' \in Members
           /\ \E e \in Events : /\ e.kind \in {"list", "delta", "fatal"} /\ e.of = "none"
                                /\ events' = Append(events, e)
<1> DEFINE Sends == \E e \in Events : /\ e.kind \in {"list", "delta", "fatal"} /\ e.of = "none"
                                      /\ events' = Append(events, e)
<1>1. UNCHANGED <<reducerVars, bridgeVars, running, online, backup, keys, historyVars>>
  BY DEF Sync
<1>2. member \in Members
  BY DEF TypesOK
<1>3. ASSUME NEW r \in Rooms, NEW m \in Memberships,
             member' = [member EXCEPT ![r] = m], events' = Append(events, RoomList(member'))
      PROVE  member' \in Members /\ Sends
  <2>1. member' \in Members
    BY <1>2, <1>3 DEF Members
  <2> QED
    BY <1>3, <2>1, RepliesAreEvents
<1>4. ASSUME NEW r \in Rooms, events' = Append(events, NewsOf(r)) PROVE Sends
  BY <1>4, RepliesAreEvents DEF SomeRoom
<1>5. ASSUME events' = Append(events, News("fatal")) PROVE Sends
  BY <1>5, RepliesAreEvents DEF Happenings
<1> QED
  BY <1>1, <1>2, <1>3, <1>4, <1>5 DEF Sync

LEMMA SyncKeepsInv ==
    ASSUME KeyInv, Sync
    PROVE  KeyInv'
<1> USE DEF reducerVars, bridgeVars, historyVars
<1>0. TypesOK
  BY DEF KeyInv
<1>1. UNCHANGED <<dialog, asked, selected, shownAt, commands, running, keys, backup>>
  BY <1>0, SyncFacts
<1>2. member' \in Members
  BY <1>0, SyncFacts
<1>3. PICK e \in Events : e.kind \notin Verdicts /\ events' = Append(events, e)
  BY <1>0, SyncFacts DEF Verdicts
<1>4. /\ Append(events, e) \in Seq(Events)
      /\ \A k \in DOMAIN Append(events, e) :
            \/ k \in DOMAIN events /\ Append(events, e)[k] = events[k]
            \/ Append(events, e)[k] = e
  BY DEF KeyInv, TypesOK
<1>5. TypesOK'
  BY <1>1, <1>2, <1>3, <1>4 DEF KeyInv, TypesOK
<1>6. \A t \in Nat, kinds \in Kinds : MadeBefore(t, kinds) => MadeBefore(t, kinds)'
  BY <1>1, <1>3, <1>4, KindsFacts DEF MadeBefore, Kinds
<1>7. asked \in Nat /\ shownAt \in Nat
  BY DEF KeyInv, TypesOK
<1>8. MadeBefore(asked, Recovery)'
  BY <1>1, <1>6, <1>7, KindsFacts DEF KeyInv, MadeBefore
<1> QED
  BY <1>1, <1>5, <1>6, <1>8, OlderStays

-----------------------------------------------------------------------------
(* The event worker.                                                       *)

\* What every handler does to the queues: the event goes, and a room may be
\* opened.
LEMMA HandledFacts ==
    ASSUME KeyInv, HandleEvent
    PROVE  /\ events # <<>> /\ Head(events) \in Events
           /\ UNCHANGED <<asked, running, member, keys, backup>>
           /\ events' \in Seq(Events) /\ commands' \in Seq(Commands)
           /\ \A t \in Nat, kinds \in Kinds : MadeBefore(t, kinds) => MadeBefore(t, kinds)'
           /\ \A t \in Nat, kinds \in Kinds :
                 MadeBefore(t, kinds) /\ Head(events).kind \in Ending[kinds] => Head(events).txn < t
<1> DEFINE e == Head(events)
           c == Command("open", e.room)
<1>1. /\ events # <<>> /\ events' = Tail(events)
      /\ UNCHANGED <<asked, running, member, keys, backup>>
      /\ commands' = commands \/ commands' = Append(commands, c)
  BY DEF HandleEvent, Handle, ReplaceRooms, InviteAnswered, Delta, Fatal, Status, Made,
         Restored, Auth, LoggedOut, runtimeVars
<1>2. /\ e \in Events /\ Tail(events) \in Seq(Events)
      /\ 1 \in DOMAIN events /\ e = events[1]
      /\ \A k \in DOMAIN Tail(events) :
            k + 1 \in DOMAIN events /\ Tail(events)[k] = events[k + 1]
  BY <1>1 DEF KeyInv, TypesOK
<1>3. c \in Commands /\ c.kind \notin Recovery
  <2>1. e.room \in SomeRoom
    BY <1>2 DEF Events
  <2> QED
    BY <2>1 DEF Command, Commands, Requests, Recovery, Makers, KeyInv, TypesOK
<1> HIDE DEF c, e
<1>4. /\ Append(commands, c) \in Seq(Commands)
      /\ \A k \in DOMAIN Append(commands, c) :
            \/ k \in DOMAIN commands /\ Append(commands, c)[k] = commands[k]
            \/ Append(commands, c)[k] = c
  BY <1>3 DEF KeyInv, TypesOK
<1>5. commands' \in Seq(Commands)
  BY <1>1, <1>4 DEF KeyInv, TypesOK
<1>6. ASSUME NEW t \in Nat, NEW kinds \in Kinds, MadeBefore(t, kinds) PROVE MadeBefore(t, kinds)'
  <2>1. \A k \in DOMAIN commands' : commands'[k].kind \in kinds => commands'[k].txn < t
    BY <1>1, <1>3, <1>4, <1>6 DEF MadeBefore, Kinds, Recovery, Makers
  <2>2. \A k \in DOMAIN events' : events'[k].kind \in Ending[kinds] => events'[k].txn < t
    BY <1>1, <1>2, <1>6 DEF MadeBefore
  <2> QED
    BY <1>1, <1>6, <2>1, <2>2 DEF MadeBefore
<1>7. \A t \in Nat, kinds \in Kinds : MadeBefore(t, kinds) /\ e.kind \in Ending[kinds] => e.txn < t
  BY <1>2 DEF MadeBefore
<1> QED
  BY <1>1, <1>2, <1>5, <1>6, <1>7 DEF e

\* What a handler does to the dialog: it keeps it, shows none or another
\* without a key, or shows the key just made.
LEMMA HandledDialog ==
    ASSUME KeyInv, HandleEvent
    PROVE  /\ dialog' \in Dialog /\ selected' \in SomeRoom
           /\ \/ dialog' = dialog /\ shownAt' = shownAt
              \/ /\ shownAt' = shownAt /\ dialog'.key = 0
                 /\ dialog.mode = "status" \/ Head(events).kind \in Verdicts \cup {"loggedOut"}
              \/ /\ shownAt' = asked /\ dialog'.mode = "key" /\ ~dialog'.input
                 /\ ~dialog'.restoring /\ Head(events).kind \in Verdicts
<1>1. /\ events # <<>> /\ Head(events) \in Events /\ Head(events).key \in Nat
      /\ Head(events).room \in SomeRoom
      /\ dialog \in Dialog /\ selected \in SomeRoom /\ None \in SomeRoom
  BY HandledFacts DEF KeyInv, TypesOK, Events, SomeRoom
<1>2. CASE ReplaceRooms \/ InviteAnswered \/ Delta \/ Fatal \/ Auth
  BY <1>1, <1>2 DEF ReplaceRooms, InviteAnswered, Delta, Fatal, Auth
<1>3. CASE Status
  BY <1>1, <1>3, DialogsAreKeyless DEF Status
<1>4. CASE Made
  <2>1. CASE Head(events).ok
    BY <1>1, <1>4, <2>1, DialogsAreKeyless DEF Made, Handle, Verdicts
  <2>2. CASE ~Head(events).ok
    BY <1>1, <1>4, <2>2, DialogsAreKeyless DEF Made, Handle, Verdicts
  <2> QED
    BY <2>1, <2>2
<1>5. CASE Restored
  BY <1>1, <1>5, DialogsAreKeyless DEF Restored, Handle, Verdicts
<1>6. CASE LoggedOut
  BY <1>1, <1>6, DialogsAreKeyless DEF LoggedOut, Handle
<1> QED
  BY <1>2, <1>3, <1>4, <1>5, <1>6 DEF HandleEvent

LEMMA HandleKeepsInv ==
    ASSUME KeyInv, HandleEvent
    PROVE  KeyInv'
<1>1. asked \in Nat /\ shownAt \in Nat
  BY DEF KeyInv, TypesOK
<1>2. TypesOK'
  BY <1>1, HandledFacts, HandledDialog DEF KeyInv, TypesOK
<1>3. asked' = asked /\ \A t \in Nat, kinds \in Kinds : MadeBefore(t, kinds) => MadeBefore(t, kinds)'
  BY HandledFacts
<1>4. MadeBefore(asked, Recovery)'
  BY <1>1, <1>3, KindsFacts DEF KeyInv, MadeBefore
<1>5. CASE shownAt' = shownAt /\ (dialog' = dialog \/ dialog'.key = 0)
  BY <1>2, <1>3, <1>4, <1>5, OlderStays
<1>6. CASE shownAt' = asked /\ dialog'.mode = "key" /\ ~dialog'.input /\ ~dialog'.restoring
  <2>1. MadeBefore(shownAt, Older)'
    BY <1>3, <1>4, <1>6 DEF MadeBefore, Older
  <2> QED
    BY <1>2, <1>4, <1>6, <2>1 DEF KeyInv
<1> QED
  BY <1>5, <1>6, HandledDialog

-----------------------------------------------------------------------------
(* Where the requests are.                                                 *)

Queued(kinds, r) == {k \in DOMAIN commands : commands[k].kind \in kinds /\ commands[k].room = r}
Run(kinds, r) == running # Idle /\ running.of.kind \in kinds /\ running.of.room = r
Streamed(kinds, r) == {k \in DOMAIN events : events[k].of \in kinds /\ events[k].room = r}

Busy(kinds, r) == Queued(kinds, r) # {} \/ Run(kinds, r) \/ Streamed(kinds, r) # {}
Alone(kinds, r) ==
    /\ \A k, l \in Queued(kinds, r) : k = l
    /\ \A k, l \in Streamed(kinds, r) : k = l
    /\ Queued(kinds, r) = {} \/ ~Run(kinds, r)
    /\ Queued(kinds, r) = {} \/ Streamed(kinds, r) = {}
    /\ ~Run(kinds, r) \/ Streamed(kinds, r) = {}

LEMMA Places ==
    ASSUME NEW kinds, NEW r
    PROVE  /\ UnderWay(kinds, r) # {} <=> Busy(kinds, r)
           /\ Alone(kinds, r) => \A x, y \in UnderWay(kinds, r) : x = y
<1>1. UnderWay(kinds, r) =
          {<<"queue", k>> : k \in Queued(kinds, r)}
          \cup (IF Run(kinds, r) THEN {<<"runtime", 0>>} ELSE {})
          \cup {<<"stream", k>> : k \in Streamed(kinds, r)}
  BY DEF UnderWay, Queued, Run, Streamed
<1>2. UnderWay(kinds, r) # {} <=> Busy(kinds, r)
  BY <1>1 DEF Busy
<1>3. ASSUME Alone(kinds, r), NEW x \in UnderWay(kinds, r), NEW y \in UnderWay(kinds, r)
      PROVE  x = y
  <2>1. \A z \in {x, y} :
           \/ \E k \in Queued(kinds, r) : z = <<"queue", k>>
           \/ Run(kinds, r) /\ z = <<"runtime", 0>>
           \/ \E k \in Streamed(kinds, r) : z = <<"stream", k>>
    BY <1>1
  <2> QED
    BY <1>3, <2>1 DEF Alone
<1> QED
  BY <1>2, <1>3

\* A command joins the queue.
LEMMA QueueGrows ==
    ASSUME TypesOK, NEW c \in Commands, commands' = Append(commands, c), NEW kinds, NEW r
    PROVE  /\ c.kind \in kinds /\ c.room = r =>
                 /\ Queued(kinds, r)' # {}
                 /\ Queued(kinds, r) = {} => \A k, l \in Queued(kinds, r)' : k = l
           /\ ~(c.kind \in kinds /\ c.room = r) => Queued(kinds, r)' = Queued(kinds, r)
<1>1. /\ DOMAIN Append(commands, c) = 1..(Len(commands) + 1)
      /\ DOMAIN commands = 1..Len(commands) /\ Len(commands) \in Nat
      /\ \A k \in DOMAIN commands : Append(commands, c)[k] = commands[k]
      /\ Append(commands, c)[Len(commands) + 1] = c
  BY DEF TypesOK
<1>2. \A k \in DOMAIN Append(commands, c) : k \in DOMAIN commands \/ k = Len(commands) + 1
  BY <1>1
<1>3. DOMAIN commands \subseteq DOMAIN Append(commands, c)
      /\ Len(commands) + 1 \in DOMAIN Append(commands, c)
      /\ Len(commands) + 1 \notin DOMAIN commands
  BY <1>1
<1>4. commands' = Append(commands, c)
  OBVIOUS
<1>5. Queued(kinds, r)' =
          Queued(kinds, r) \cup
          (IF c.kind \in kinds /\ c.room = r THEN {Len(commands) + 1} ELSE {})
  <2> DEFINE longer == Append(commands, c)
  <2>1. longer[Len(commands) + 1] = c /\ \A k \in DOMAIN commands : longer[k] = commands[k]
    BY <1>1
  <2> HIDE DEF longer
  <2>2. {k \in DOMAIN longer : longer[k].kind \in kinds /\ longer[k].room = r} =
          Queued(kinds, r) \cup
          (IF c.kind \in kinds /\ c.room = r THEN {Len(commands) + 1} ELSE {})
    BY <1>2, <1>3, <2>1 DEF Queued, longer
  <2> QED
    BY <2>2, <1>4 DEF Queued, longer
<1> QED
  BY <1>5

\* The first command leaves the queue for the runtime.
LEMMA RequestTaken ==
    ASSUME TypesOK, running = Idle, commands # <<>>, commands' = Tail(commands),
           events' = events, running' # Idle, running'.of = Head(commands),
           NEW kinds, NEW r
    PROVE  /\ Busy(kinds, r) => Busy(kinds, r)'
           /\ ~Busy(kinds, r) => ~Busy(kinds, r)'
           /\ Alone(kinds, r) => Alone(kinds, r)'
<1>1. /\ 1 \in DOMAIN commands /\ Head(commands) = commands[1]
      /\ \A k \in DOMAIN Tail(commands) :
            k \in Nat /\ k + 1 \in DOMAIN commands /\ k + 1 # 1
            /\ Tail(commands)[k] = commands[k + 1]
      /\ \A k \in DOMAIN commands : k # 1 =>
            k \in Nat /\ k - 1 \in DOMAIN Tail(commands) /\ Tail(commands)[k - 1] = commands[k]
  BY DEF TypesOK
<1>2. \A k \in Queued(kinds, r)' : k \in Nat /\ k + 1 \in Queued(kinds, r) /\ k + 1 # 1
  BY <1>1 DEF Queued
<1>3. \A k \in Queued(kinds, r) : k # 1 => k - 1 \in Queued(kinds, r)'
  BY <1>1 DEF Queued
<1>4. Run(kinds, r)' <=> 1 \in Queued(kinds, r)
  BY <1>1 DEF Run, Queued
<1>5. Streamed(kinds, r)' = Streamed(kinds, r) /\ ~Run(kinds, r)
  BY DEF Streamed, Run
<1>6. Busy(kinds, r) <=> Busy(kinds, r)'
  BY <1>2, <1>3, <1>4, <1>5 DEF Busy
<1>7. ASSUME Alone(kinds, r) PROVE Alone(kinds, r)'
  <2>1. \A k, l \in Queued(kinds, r)' : k = l
    BY <1>2, <1>7 DEF Alone
  <2>2. 1 \in Queued(kinds, r) => Queued(kinds, r)' = {}
    BY <1>2, <1>7 DEF Alone
  <2>3. Queued(kinds, r) = {} => Queued(kinds, r)' = {}
    BY <1>2
  <2> QED
    BY <1>4, <1>5, <1>7, <2>1, <2>2, <2>3 DEF Alone
<1> QED
  BY <1>6, <1>7

\* The answer of the request at the runtime joins the stream, and it alone
\* names the request.
LEMMA RequestAnswered ==
    ASSUME TypesOK, running # Idle, running' = Idle, commands' = commands,
           NEW out \in Seq(Events), events' = events \o out, 1 \in DOMAIN out,
           \A k \in DOMAIN out : k # 1 => out[k].of = "none",
           NEW kinds, "none" \notin kinds, NEW r,
           out[1].of \in kinds /\ out[1].room = r <=> Run(kinds, r)
    PROVE  /\ Busy(kinds, r) => Busy(kinds, r)'
           /\ ~Busy(kinds, r) => ~Busy(kinds, r)'
           /\ Alone(kinds, r) => Alone(kinds, r)'
<1>1. /\ Len(events) \in Nat
      /\ \A k \in DOMAIN events :
            k \in 1..Len(events) /\ k \in DOMAIN (events \o out) /\ (events \o out)[k] = events[k]
      /\ Len(events) + 1 \in DOMAIN (events \o out) /\ (events \o out)[Len(events) + 1] = out[1]
      /\ \A k \in DOMAIN (events \o out) :
            \/ k \in DOMAIN events
            \/ k = Len(events) + 1
            \/ /\ k - Len(events) \in DOMAIN out /\ k - Len(events) # 1
               /\ (events \o out)[k] = out[k - Len(events)]
  BY DEF TypesOK
<1> DEFINE longer == events \o out
<1>2. events' = longer
  OBVIOUS
<1>3. /\ \A k \in DOMAIN events : k \in DOMAIN longer /\ longer[k] = events[k]
      /\ Len(events) + 1 \in DOMAIN longer /\ longer[Len(events) + 1] = out[1]
      /\ Len(events) + 1 \notin DOMAIN events
      /\ \A k \in DOMAIN longer :
            k \in DOMAIN events \/ k = Len(events) + 1 \/ longer[k].of = "none"
  BY <1>1
<1> HIDE DEF longer
<1>4. Streamed(kinds, r)' =
          Streamed(kinds, r) \cup (IF Run(kinds, r) THEN {Len(events) + 1} ELSE {})
  <2>1. {k \in DOMAIN longer : longer[k].of \in kinds /\ longer[k].room = r} =
          Streamed(kinds, r) \cup (IF Run(kinds, r) THEN {Len(events) + 1} ELSE {})
    BY <1>3 DEF Streamed
  <2> QED
    BY <1>2, <2>1 DEF Streamed
<1>5. Queued(kinds, r)' = Queued(kinds, r) /\ ~Run(kinds, r)'
  BY DEF Queued, Run
<1> QED
  BY <1>4, <1>5 DEF Busy, Alone

\* The event worker takes the first event.
LEMMA StreamShrinks ==
    ASSUME TypesOK, events # <<>>, events' = Tail(events), NEW kinds, NEW r
    PROVE  /\ Streamed(kinds, r) = {} => Streamed(kinds, r)' = {}
           /\ (\A k, l \in Streamed(kinds, r) : k = l) =>
                 /\ \A k, l \in Streamed(kinds, r)' : k = l
                 /\ Head(events).of \in kinds /\ Head(events).room = r
                       => Streamed(kinds, r) # {} /\ Streamed(kinds, r)' = {}
           /\ ~(Head(events).of \in kinds /\ Head(events).room = r)
                 => (Streamed(kinds, r) # {} => Streamed(kinds, r)' # {})
<1>1. /\ 1 \in DOMAIN events /\ Head(events) = events[1]
      /\ \A k \in DOMAIN Tail(events) :
            k \in Nat /\ k + 1 \in DOMAIN events /\ k + 1 # 1 /\ Tail(events)[k] = events[k + 1]
      /\ \A k \in DOMAIN events : k # 1 =>
            k \in Nat /\ k - 1 \in DOMAIN Tail(events) /\ Tail(events)[k - 1] = events[k]
  BY DEF TypesOK
<1>2. \A k \in Streamed(kinds, r)' : k \in Nat /\ k + 1 \in Streamed(kinds, r) /\ k + 1 # 1
  BY <1>1 DEF Streamed
<1>3. \A k \in Streamed(kinds, r) : k # 1 => k - 1 \in Streamed(kinds, r)'
  BY <1>1 DEF Streamed
<1>4. Head(events).of \in kinds /\ Head(events).room = r <=> 1 \in Streamed(kinds, r)
  BY <1>1 DEF Streamed
<1> QED
  BY <1>2, <1>3, <1>4

\* An event that names no request.
LEMMA StreamGrows ==
    ASSUME TypesOK, NEW e \in Events, events' = Append(events, e), e.of = "none",
           NEW kinds, "none" \notin kinds, NEW r
    PROVE  Streamed(kinds, r)' = Streamed(kinds, r)
<1>1. /\ \A k \in DOMAIN events : k \in DOMAIN Append(events, e) /\ Append(events, e)[k] = events[k]
      /\ \A k \in DOMAIN Append(events, e) : k \in DOMAIN events \/ Append(events, e)[k] = e
  BY DEF TypesOK
<1> DEFINE longer == Append(events, e)
<1>2. events' = longer
  OBVIOUS
<1>3. /\ \A k \in DOMAIN events : k \in DOMAIN longer /\ longer[k] = events[k]
      /\ \A k \in DOMAIN longer : k \in DOMAIN events \/ longer[k] = e
  BY <1>1
<1> HIDE DEF longer
<1>4. {k \in DOMAIN longer : longer[k].of \in kinds /\ longer[k].room = r} = Streamed(kinds, r)
  BY <1>3 DEF Streamed
<1> QED
  BY <1>2, <1>4 DEF Streamed

-----------------------------------------------------------------------------
(* What waits for a request, and how often an invite is asked for.         *)

\* Recovery requests are about no room, and every event is a reply.
Replies ==
    /\ \A k \in DOMAIN commands : commands[k].kind \in Recovery => commands[k].room = None
    /\ running # Idle =>
          /\ IsAnswer(running.of, running.out)
          /\ running.of.kind \in Recovery => running.of.room = None
    /\ \A k \in DOMAIN events :
          IsReply(events[k]) /\ (events[k].of \in Recovery => events[k].room = None)

\* A page is asked for, or an event that ends it is on its way.
Paged(r) ==
    \/ Queued({"page"}, r) # {} \/ Run({"page"}, r)
    \/ \E k \in DOMAIN events : events[k] \in {News("fatal"), NewsOf(r)}

Waits ==
    /\ \A r \in pending : Busy(Invites, r)
    /\ \A r \in inFlight : Paged(r)
    /\ dialog.restoring => Busy({"restore"}, None)

\* A room that waits for nothing and was not forgotten has no request under way.
Once ==
    \A r \in Rooms \ strayed :
        Alone(Invites, r) /\ (r \notin pending => ~Busy(Invites, r))

RequestInv == Replies /\ Waits /\ Once

\* What an action of the user asks for, and what waits for it.
LEMMA UserAsks ==
    ASSUME TypesOK, UserStep
    PROVE  /\ UNCHANGED <<events, running, strayed, online, backup, broken, member>>
           /\ \/ /\ UNCHANGED <<commands, pending, inFlight>>
                 /\ dialog'.restoring => dialog.restoring
              \/ \E kind \in Requests, room \in SomeRoom :
                    /\ commands' = Append(commands, Command(kind, room))
                    /\ kind \in Recovery => room = None
                    /\ kind \in Invites => room \notin pending
                    /\ pending' = IF kind \in Invites THEN pending \cup {room} ELSE pending
                    /\ inFlight' = IF kind = "page" THEN inFlight \cup {room} ELSE inFlight
                    /\ dialog'.restoring => dialog.restoring \/ kind = "restore"
<1> USE DEF reducerVars, runtimeVars, bridgeVars, historyVars
<1> DEFINE Same == UNCHANGED <<events, running, strayed, online, backup, broken, member>>
           Asks(kind, room) ==
               /\ commands' = Append(commands, Command(kind, room))
               /\ kind \in Recovery => room = None
               /\ kind \in Invites => room \notin pending
               /\ pending' = IF kind \in Invites THEN pending \cup {room} ELSE pending
               /\ inFlight' = IF kind = "page" THEN inFlight \cup {room} ELSE inFlight
               /\ dialog'.restoring => dialog.restoring \/ kind = "restore"
           Goal == /\ Same
                   /\ \/ /\ UNCHANGED <<commands, pending, inFlight>>
                         /\ dialog'.restoring => dialog.restoring
                      \/ \E kind \in Requests, room \in SomeRoom : Asks(kind, room)
<1>0. /\ selected \in SomeRoom /\ dialog \in Dialog /\ None \in SomeRoom
      /\ Rooms \subseteq SomeRoom
      /\ {"accept", "reject", "open", "page", "status", "enable", "reset", "restore", "login",
          "logout"} \subseteq Requests
      /\ Invites = {"accept", "reject"} /\ Recovery = {"enable", "reset", "restore"}
  BY DEF TypesOK, SomeRoom, Requests, Invites, Recovery, Makers
<1>1. ASSUME NEW r \in Rooms, SelectRoom(r) PROVE Goal
  <2>1. Same /\ Asks("open", r)
    BY <1>0, <1>1 DEF SelectRoom, Ask
  <2> QED
    BY <1>0, <2>1
<1>2. ASSUME NEW r \in Rooms, NEW action \in Invites, RequestInvite(r, action) PROVE Goal
  <2>1. Same /\ Asks(action, r)
    BY <1>0, <1>2 DEF RequestInvite, Ask
  <2> QED
    BY <1>0, <2>1
<1>3. ASSUME NEW kind \in Makers \cup {"status"}, OpenDialog(kind) PROVE Goal
  <2>1. ~dialog'.restoring
    BY <1>3 DEF OpenDialog, Shown, Closed
  <2>2. Same /\ Asks(kind, None) /\ kind \in Requests
    BY <1>0, <1>3, <2>1 DEF OpenDialog, Ask, Makers
  <2> QED
    BY <1>0, <2>2
<1>4. ASSUME NEW next \in {RestorePrompt, Closed}, Turn(next) PROVE Goal
  <2>1. RestorePrompt.restoring = FALSE /\ Closed.restoring = FALSE
    BY DEF RestorePrompt, Closed
  <2>2. dialog' = RestorePrompt \/ dialog' = Closed
    BY <1>4 DEF Turn
  <2>3. dialog'.restoring = FALSE
    BY <2>1, <2>2
  <2> QED
    BY <1>4, <2>3 DEF Turn
<1>5. CASE Scroll
  <2>1. Same /\ Asks("page", selected)
    BY <1>0, <1>5 DEF Scroll, Ask
  <2> QED
    BY <1>0, <2>1
<1>6. CASE Restore
  <2>1. Same /\ Asks("restore", None)
    BY <1>0, <1>6 DEF Restore, Ask
  <2> QED
    BY <1>0, <2>1
<1>7. CASE Leave
  <2>1. Same /\ (Asks("login", None) \/ Asks("logout", None))
    BY <1>0, <1>7 DEF Leave, Ask
  <2> QED
    BY <1>0, <2>1
<1>8. CASE ReadKey
  <2>1. Same /\ UNCHANGED <<commands, pending, inFlight, dialog>>
    BY <1>8 DEF ReadKey
  <2> QED
    BY <2>1
<1>9. CASE CopyKey
  <2>1. dialog'.restoring = dialog.restoring
    BY <1>0, <1>9 DEF CopyKey, Dialog
  <2> QED
    BY <1>9, <2>1 DEF CopyKey
<1>10. CASE Draw
  BY <1>10 DEF Draw
<1> QED
  BY <1>1, <1>2, <1>3, <1>4, <1>5, <1>6, <1>7, <1>8, <1>9, <1>10
     DEF UserStep

LEMMA UserKeepsRequests ==
    ASSUME TypesOK, RequestInv, UserStep
    PROVE  RequestInv'
<1>1. UNCHANGED <<events, running, strayed>>
  BY UserAsks
<1>2. \A kinds, r : Run(kinds, r)' = Run(kinds, r) /\ Streamed(kinds, r)' = Streamed(kinds, r)
  BY <1>1 DEF Run, Streamed
<1>3. CASE UNCHANGED <<commands, pending, inFlight>> /\ (dialog'.restoring => dialog.restoring)
  <2>1. \A kinds, r : Queued(kinds, r)' = Queued(kinds, r)
    BY <1>3 DEF Queued
  <2>2. \A kinds, r : Busy(kinds, r)' = Busy(kinds, r) /\ Alone(kinds, r)' = Alone(kinds, r)
    BY <1>2, <2>1 DEF Busy, Alone
  <2>3. \A r : Paged(r) => Paged(r)'
    BY <1>1, <1>2, <2>1 DEF Paged
  <2> QED
    BY <1>1, <1>3, <2>2, <2>3 DEF RequestInv, Replies, Waits, Once
<1>4. ASSUME NEW kind \in Requests, NEW room \in SomeRoom,
             commands' = Append(commands, Command(kind, room)),
             kind \in Recovery => room = None,
             kind \in Invites => room \notin pending,
             pending' = IF kind \in Invites THEN pending \cup {room} ELSE pending,
             inFlight' = IF kind = "page" THEN inFlight \cup {room} ELSE inFlight,
             dialog'.restoring => dialog.restoring \/ kind = "restore"
      PROVE  RequestInv'
  <2> DEFINE c == Command(kind, room)
  <2>1. c \in Commands /\ c.kind = kind /\ c.room = room
    BY DEF Command, Commands, TypesOK
  <2>2. commands' = Append(commands, c)
    BY <1>4
  <2> HIDE DEF c
  <2>3. ASSUME NEW kinds, NEW r
        PROVE  /\ Queued(kinds, r) # {} => Queued(kinds, r)' # {}
               /\ kind \in kinds /\ room = r =>
                     /\ Queued(kinds, r)' # {}
                     /\ Queued(kinds, r) = {} => \A k, l \in Queued(kinds, r)' : k = l
               /\ ~(kind \in kinds /\ room = r) => Queued(kinds, r)' = Queued(kinds, r)
    BY <2>1, <2>2, QueueGrows
  <2>4. Replies'
    <3>1. /\ \A k \in DOMAIN Append(commands, c) :
                \/ k \in DOMAIN commands /\ Append(commands, c)[k] = commands[k]
                \/ Append(commands, c)[k] = c
      BY <2>1 DEF TypesOK
    <3> QED
      BY <1>1, <1>4, <2>1, <2>2, <3>1 DEF RequestInv, Replies
  <2>5. Waits'
    <3>1. ASSUME NEW r \in pending' PROVE Busy(Invites, r)'
      BY <1>2, <1>4, <2>3 DEF RequestInv, Waits, Busy
    <3>2. ASSUME NEW r \in inFlight' PROVE Paged(r)'
      <4>1. CASE r \in inFlight
        BY <1>1, <1>2, <2>3, <4>1 DEF RequestInv, Waits, Paged
      <4>2. CASE kind = "page" /\ r = room
        BY <2>3, <4>2 DEF Paged
      <4> QED
        BY <1>4, <4>1, <4>2
    <3>3. dialog'.restoring => Busy({"restore"}, None)'
      <4>1. kind = "restore" => room = None
        BY <1>4 DEF Recovery
      <4>2. dialog.restoring => Busy({"restore"}, None)
        BY DEF RequestInv, Waits
      <4> QED
        BY <1>2, <1>4, <2>3, <4>1, <4>2 DEF Busy
    <3> QED
      BY <3>1, <3>2, <3>3 DEF Waits
  <2>6. Once'
    <3> SUFFICES ASSUME NEW r \in Rooms \ strayed
                 PROVE  Alone(Invites, r)' /\ (r \notin pending' => ~Busy(Invites, r)')
      BY <1>1 DEF Once
    <3>1. Alone(Invites, r) /\ (r \notin pending => ~Busy(Invites, r))
      BY DEF RequestInv, Once
    <3>2. CASE kind \in Invites /\ room = r
      <4>1. ~Busy(Invites, r) /\ r \in pending'
        BY <1>4, <3>1, <3>2
      <4>2. Queued(Invites, r) = {} /\ \A k, l \in Queued(Invites, r)' : k = l
        BY <2>3, <3>2, <4>1 DEF Busy
      <4> QED
        BY <1>2, <4>1, <4>2 DEF Busy, Alone
    <3>3. CASE ~(kind \in Invites /\ room = r)
      <4>1. Queued(Invites, r)' = Queued(Invites, r)
        BY <2>3, <3>3
      <4>2. Busy(Invites, r)' = Busy(Invites, r) /\ Alone(Invites, r)' = Alone(Invites, r)
        BY <1>2, <4>1 DEF Busy, Alone
      <4>3. r \notin pending' => r \notin pending
        BY <1>4
      <4> QED
        BY <3>1, <4>2, <4>3
    <3> QED
      BY <3>2, <3>3
  <2> QED
    BY <2>4, <2>5, <2>6 DEF RequestInv
<1> QED
  BY <1>3, <1>4, UserAsks

\* Requests stay where they are or move on, and what waits for them stays.
LEMMA MovedRequests ==
    ASSUME RequestInv, Replies', UNCHANGED <<pending, inFlight, dialog, strayed>>,
           \A kinds \in {Invites, {"restore"}}, r \in Rooms \cup pending \cup {None} :
               /\ Busy(kinds, r) => Busy(kinds, r)'
               /\ ~Busy(kinds, r) => ~Busy(kinds, r)'
               /\ Alone(kinds, r) => Alone(kinds, r)',
           \A r \in inFlight : Paged(r) => Paged(r)'
    PROVE  RequestInv'
<1>1. Waits'
  BY DEF RequestInv, Waits
<1>2. Once'
  BY DEF RequestInv, Once
<1> QED
  BY <1>1, <1>2 DEF RequestInv

LEMMA TakeKeepsRequests ==
    ASSUME TypesOK, RequestInv, TakeStep
    PROVE  RequestInv'
<1>1. /\ running = Idle /\ commands # <<>> /\ commands' = Tail(commands)
      /\ UNCHANGED <<pending, inFlight, dialog, strayed, events>>
      /\ Head(commands) \in Commands
  BY TakenFacts DEF reducerVars
<1>2. PICK out : /\ IsAnswer(Head(commands), out)
                 /\ running' = [of |-> Head(commands), out |-> out]
  BY TakenFacts
<1>3. running'.of = Head(commands) /\ running'.out = out
  BY <1>2
<1>4. running' # Idle
  <2>1. Head(commands).kind # "none"
    BY <1>1 DEF Commands, Requests, Invites, Makers
  <2> QED
    BY <1>3, <2>1 DEF Idle, NoCommand
<1>5. \A kinds, r : /\ Busy(kinds, r) => Busy(kinds, r)'
                    /\ ~Busy(kinds, r) => ~Busy(kinds, r)'
                    /\ Alone(kinds, r) => Alone(kinds, r)'
  BY <1>1, <1>3, <1>4, RequestTaken
<1>6. /\ 1 \in DOMAIN commands /\ Head(commands) = commands[1]
      /\ \A k \in DOMAIN Tail(commands) :
            k + 1 \in DOMAIN commands /\ Tail(commands)[k] = commands[k + 1]
      /\ \A k \in DOMAIN commands : k # 1 =>
            k - 1 \in DOMAIN Tail(commands) /\ Tail(commands)[k - 1] = commands[k]
  BY <1>1 DEF TypesOK
<1>7. Replies'
  BY <1>1, <1>2, <1>3, <1>6 DEF RequestInv, Replies
<1>8. ASSUME NEW r, Paged(r) PROVE Paged(r)'
  <2>1. CASE Queued({"page"}, r) # {}
    BY <1>1, <1>3, <1>4, <1>6, <2>1 DEF Paged, Queued, Run
  <2>2. CASE \E k \in DOMAIN events : events[k] \in {News("fatal"), NewsOf(r)}
    BY <1>1, <2>2 DEF Paged
  <2> QED
    BY <1>1, <1>8, <2>1, <2>2 DEF Paged, Run
<1> QED
  BY <1>1, <1>5, <1>7, <1>8, MovedRequests

\* The answer is sent: what named the request at the runtime names it in the stream.
LEMMA FinishKeepsRequests ==
    ASSUME TypesOK, RequestInv, Finish
    PROVE  RequestInv'
<1> DEFINE out == running.out
           new == [i \in DOMAIN out |-> IF out[i].kind = "list" THEN RoomList(member)
                                        ELSE out[i]]
<1>1. /\ running # Idle /\ running' = Idle /\ events' = events \o new
      /\ UNCHANGED <<commands, pending, inFlight, dialog, strayed>>
  BY DEF Finish, reducerVars, bridgeVars, historyVars
<1>2. /\ running.of \in Commands /\ out \in Seq(Events) /\ events \in Seq(Events)
      /\ RoomList(member) \in Events
      /\ RoomList(member).kind = "list" /\ RoomList(member).of = "none"
  BY <1>1, RepliesAreEvents DEF TypesOK, Answers
<1>3. IsAnswer(running.of, out) /\ (running.of.kind \in Recovery => running.of.room = None)
  BY <1>1 DEF RequestInv, Replies
<1>4. new \in Seq(Events) /\ DOMAIN new = DOMAIN out
  BY <1>2
<1>5. /\ 1 \in DOMAIN out /\ Begins(running.of, out[1])
      /\ \A k \in DOMAIN out : IsReply(out[k]) /\ (k # 1 => out[k].of = "none")
  BY <1>3 DEF IsAnswer, Begins
<1>6. \A k \in DOMAIN out : /\ out[k].kind = "list" => out[k].of = "none"
                            /\ new[k] = IF out[k].kind = "list" THEN RoomList(member)
                                        ELSE out[k]
  BY <1>5 DEF IsReply
<1>7. IsReply(RoomList(member))
  BY <1>2 DEF IsReply
<1>8. \A k \in DOMAIN new : IsReply(new[k]) /\ (k # 1 => new[k].of = "none")
  BY <1>2, <1>4, <1>5, <1>6, <1>7
<1>9. running.of.kind \in Answered =>
         new[1] = out[1] /\ out[1].of = running.of.kind /\ out[1].room = running.of.room
  BY <1>5, <1>6 DEF Begins, Answered, Recovery, Makers, Invites
<1>10. running.of.kind \notin Answered => new[1].of = "none"
  BY <1>2, <1>5, <1>6 DEF Begins
<1>11. running.of.kind = "page" => new[1] \in {News("fatal"), NewsOf(running.of.room)}
  <2>1. running.of.room \in SomeRoom
    BY <1>2 DEF Commands
  <2>2. News("fatal").kind = "fatal" /\ NewsOf(running.of.room).kind = "delta"
    BY <2>1, RepliesAreEvents DEF Happenings
  <2> QED
    BY <1>5, <1>6, <2>2 DEF Begins
<1> HIDE DEF new, out
<1>12. \A kinds \in {Invites, {"restore"}} : \A r :
          /\ Busy(kinds, r) => Busy(kinds, r)'
          /\ ~Busy(kinds, r) => ~Busy(kinds, r)'
          /\ Alone(kinds, r) => Alone(kinds, r)'
  <2> SUFFICES ASSUME NEW kinds \in {Invites, {"restore"}}, NEW r
               PROVE  /\ Busy(kinds, r) => Busy(kinds, r)'
                      /\ ~Busy(kinds, r) => ~Busy(kinds, r)'
                      /\ Alone(kinds, r) => Alone(kinds, r)'
    OBVIOUS
  <2>1. "none" \notin kinds /\ kinds \subseteq Answered
    BY DEF Answered, Recovery, Invites
  <2>2. new[1].of \in kinds /\ new[1].room = r <=> Run(kinds, r)
    BY <1>1, <1>9, <1>10, <2>1 DEF Run
  <2> QED
    BY <1>1, <1>4, <1>5, <1>8, <2>1, <2>2, RequestAnswered
<1>13. /\ \A k \in DOMAIN events : k \in DOMAIN (events \o new) /\ (events \o new)[k] = events[k]
       /\ \A k \in DOMAIN (events \o new) :
            \/ k \in DOMAIN events /\ (events \o new)[k] = events[k]
            \/ k - Len(events) \in DOMAIN new /\ (events \o new)[k] = new[k - Len(events)]
       /\ Len(events) + 1 \in DOMAIN (events \o new) /\ (events \o new)[Len(events) + 1] = new[1]
  BY <1>2, <1>4, <1>5
<1>14. Replies'
  <2>1. \A k \in DOMAIN new : new[k].of \in Recovery => new[k].room = None
    <3>1. "none" \notin Recovery /\ Recovery \subseteq Answered
      BY DEF Recovery, Makers, Answered
    <3> QED
      BY <1>3, <1>8, <1>9, <1>10, <3>1
  <2>2. \A k \in DOMAIN events' :
            IsReply(events'[k]) /\ (events'[k].of \in Recovery => events'[k].room = None)
    BY <1>1, <1>8, <1>13, <2>1 DEF RequestInv, Replies
  <2> QED
    BY <1>1, <2>2 DEF RequestInv, Replies
<1>15. ASSUME NEW r, Paged(r) PROVE Paged(r)'
  <2>1. CASE Queued({"page"}, r) # {}
    BY <1>1, <2>1 DEF Paged, Queued
  <2>2. CASE Run({"page"}, r)
    BY <1>1, <1>11, <1>13, <2>2 DEF Paged, Run
  <2>3. CASE \E k \in DOMAIN events : events[k] \in {News("fatal"), NewsOf(r)}
    BY <1>1, <1>13, <2>3 DEF Paged
  <2> QED
    BY <1>15, <2>1, <2>2, <2>3 DEF Paged
<1> QED
  BY <1>1, <1>12, <1>14, <1>15, MovedRequests

LEMMA SyncKeepsRequests ==
    ASSUME TypesOK, RequestInv, Sync
    PROVE  RequestInv'
<1>1. UNCHANGED <<commands, running, pending, inFlight, dialog, strayed>>
  BY SyncFacts DEF reducerVars, bridgeVars, historyVars
<1>2. PICK e \in Events : /\ e.kind \in {"list", "delta", "fatal"} /\ e.of = "none"
                          /\ events' = Append(events, e)
  BY SyncFacts
<1>3. /\ \A k \in DOMAIN events :
            k \in DOMAIN Append(events, e) /\ Append(events, e)[k] = events[k]
      /\ \A k \in DOMAIN Append(events, e) :
            (k \in DOMAIN events /\ Append(events, e)[k] = events[k]) \/ Append(events, e)[k] = e
  BY DEF TypesOK
<1>4. \A kinds \in {Invites, {"restore"}} : \A r :
          /\ Queued(kinds, r)' = Queued(kinds, r) /\ Run(kinds, r)' = Run(kinds, r)
          /\ Streamed(kinds, r)' = Streamed(kinds, r)
  <2>1. \A kinds \in {Invites, {"restore"}} : "none" \notin kinds
    BY DEF Invites
  <2> QED
    BY <1>1, <1>2, <2>1, StreamGrows DEF Queued, Run
<1>5. \A kinds \in {Invites, {"restore"}} : \A r :
          /\ Busy(kinds, r) => Busy(kinds, r)'
          /\ ~Busy(kinds, r) => ~Busy(kinds, r)'
          /\ Alone(kinds, r) => Alone(kinds, r)'
  BY <1>4 DEF Busy, Alone
<1>6. Replies'
  <2>1. IsReply(e) /\ e.of \notin Recovery
    BY <1>2 DEF IsReply, Recovery, Makers
  <2> QED
    BY <1>1, <1>2, <1>3, <2>1 DEF RequestInv, Replies
<1>7. \A r : Paged(r) => Paged(r)'
  BY <1>1, <1>2, <1>3 DEF Paged, Queued, Run
<1> QED
  BY <1>1, <1>5, <1>6, <1>7, MovedRequests

\* What handling an event does to what waits: an answer to an invite frees the
\* room it names, a room list or the logout forgets rooms, a delta or an error
\* ends pages, and only the answer of a restore ends it.
LEMMA HandledWaits ==
    ASSUME TypesOK, HandleEvent
    PROVE  LET e == Head(events) IN
           /\ events # <<>> /\ events' = Tail(events) /\ e \in Events
           /\ UNCHANGED <<running, online, member, backup, keys, broken>>
           /\ commands' = commands \/ commands' = Append(commands, Command("open", e.room))
           /\ pending' \subseteq pending
           /\ pending \ pending' \subseteq
                 strayed' \cup (IF e.kind = "invite" THEN {e.room} ELSE {})
           /\ strayed \subseteq strayed'
           /\ e.kind = "invite" => e.room \notin pending'
           /\ \A r \in inFlight' : r \in inFlight /\ e \notin {News("fatal"), NewsOf(r)}
           /\ dialog'.restoring => dialog.restoring /\ e.kind # "restored"
<1> DEFINE e == Head(events)
<1>1. /\ events # <<>> /\ events' = Tail(events)
      /\ UNCHANGED <<running, online, member, backup, keys, broken>>
      /\ commands' = commands \/ commands' = Append(commands, Command("open", e.room))
  BY DEF HandleEvent, Handle, ReplaceRooms, InviteAnswered, Delta, Fatal, Status, Made,
         Restored, Auth, LoggedOut, runtimeVars
<1>2. e \in Events
  BY <1>1 DEF TypesOK
<1>3. /\ News("fatal").kind = "fatal" /\ \A r : NewsOf(r).kind = "delta" /\ NewsOf(r).room = r
      /\ e.kind = "fatal" \/ e # News("fatal")
  BY DEF News, NewsOf, Reply
<1>4. /\ pending' \subseteq pending
      /\ pending \ pending' \subseteq strayed' \cup (IF e.kind = "invite" THEN {e.room} ELSE {})
      /\ strayed \subseteq strayed'
      /\ e.kind = "invite" => e.room \notin pending'
  <2>1. CASE ReplaceRooms
    BY <2>1 DEF ReplaceRooms, Handle
  <2>2. CASE InviteAnswered
    BY <2>2 DEF InviteAnswered, Handle
  <2>3. CASE LoggedOut
    BY <2>3 DEF LoggedOut, Handle
  <2>4. CASE Delta \/ Fatal \/ Status \/ Made \/ Restored \/ Auth
    BY <2>4 DEF Delta, Fatal, Status, Made, Restored, Auth, Handle
  <2> QED
    BY <2>1, <2>2, <2>3, <2>4 DEF HandleEvent
<1>5. \A r \in inFlight' : r \in inFlight /\ e \notin {News("fatal"), NewsOf(r)}
  <2>1. CASE Delta
    BY <1>3, <2>1 DEF Delta, Handle
  <2>2. CASE Fatal \/ LoggedOut
    BY <2>2 DEF Fatal, LoggedOut
  <2>3. CASE ReplaceRooms \/ InviteAnswered \/ Status \/ Made \/ Restored \/ Auth
    <3>1. e.kind \notin {"fatal", "delta"}
      BY <2>3 DEF ReplaceRooms, InviteAnswered, Status, Made, Restored, Auth, Handle
    <3>2. inFlight' = inFlight
      BY <2>3 DEF ReplaceRooms, InviteAnswered, Status, Made, Restored, Auth
    <3>3. \A r : e # NewsOf(r)
      BY <1>3, <3>1
    <3> QED
      BY <1>3, <3>1, <3>2, <3>3
  <2> QED
    BY <2>1, <2>2, <2>3 DEF HandleEvent
<1>6. dialog'.restoring => dialog.restoring /\ e.kind # "restored"
  <2>1. ~Closed.restoring /\ \A mode : ~Shown(mode).restoring
    BY DEF Closed, Shown
  <2>2. \A key : ~KeyShown(key).restoring
    BY DEF Closed, KeyShown
  <2>3. CASE Restored \/ LoggedOut
    BY <2>1, <2>3 DEF Restored, LoggedOut
  <2>4. CASE Made \/ Status
    <3>1. e.kind # "restored"
      BY <2>4 DEF Made, Status, Handle
    <3>2. \/ dialog' = dialog \/ dialog' = Shown("info") \/ dialog' = Shown("status")
          \/ dialog' = KeyShown(e.key)
      BY <2>4 DEF Made, Status
    <3> QED
      BY <2>1, <2>2, <3>1, <3>2
  <2>5. CASE ReplaceRooms \/ InviteAnswered \/ Delta \/ Fatal \/ Auth
    BY <2>5 DEF ReplaceRooms, InviteAnswered, Delta, Fatal, Auth, Handle
  <2> QED
    BY <2>3, <2>4, <2>5 DEF HandleEvent
<1> QED
  BY <1>1, <1>2, <1>4, <1>5, <1>6

LEMMA HandleKeepsRequests ==
    ASSUME TypesOK, RequestInv, HandleEvent
    PROVE  RequestInv'
<1> DEFINE e == Head(events)
           c == Command("open", e.room)
<1>1. /\ events # <<>> /\ events' = Tail(events) /\ running' = running
      /\ commands' = commands \/ commands' = Append(commands, c)
      /\ e \in Events
  BY HandledWaits
<1>2. /\ pending' \subseteq pending /\ strayed \subseteq strayed'
      /\ pending \ pending' \subseteq strayed' \cup (IF e.kind = "invite" THEN {e.room} ELSE {})
      /\ e.kind = "invite" => e.room \notin pending'
      /\ \A r \in inFlight' : r \in inFlight /\ e \notin {News("fatal"), NewsOf(r)}
      /\ dialog'.restoring => dialog.restoring /\ e.kind # "restored"
  BY HandledWaits
<1>3. c \in Commands /\ c.kind = "open"
  <2>1. e.room \in SomeRoom
    BY <1>1 DEF Events
  <2> QED
    BY <2>1 DEF Command, Commands, Requests, TypesOK
<1>4. /\ 1 \in DOMAIN events /\ e = events[1]
      /\ \A k \in DOMAIN Tail(events) :
            k + 1 \in DOMAIN events /\ Tail(events)[k] = events[k + 1]
      /\ \A k \in DOMAIN events : k # 1 =>
            k - 1 \in DOMAIN Tail(events) /\ Tail(events)[k - 1] = events[k]
  BY <1>1 DEF TypesOK
<1>5. IsReply(e)
  BY <1>4 DEF RequestInv, Replies
<1> HIDE DEF c, e
<1>6. /\ \A k \in DOMAIN Append(commands, c) :
            \/ k \in DOMAIN commands /\ Append(commands, c)[k] = commands[k]
            \/ Append(commands, c)[k] = c
  BY <1>3 DEF TypesOK
<1>7. ASSUME NEW kinds, "open" \notin kinds, NEW r
      PROVE  Queued(kinds, r)' = Queued(kinds, r) /\ Run(kinds, r)' = Run(kinds, r)
  <2>1. CASE commands' = commands
    BY <1>1, <2>1 DEF Queued, Run
  <2>2. CASE commands' = Append(commands, c)
    BY <1>1, <1>3, <1>7, <2>2, QueueGrows DEF Run
  <2> QED
    BY <1>1, <2>1, <2>2
<1>8. ASSUME NEW kinds, NEW r
      PROVE  /\ Streamed(kinds, r) = {} => Streamed(kinds, r)' = {}
             /\ (\A k, l \in Streamed(kinds, r) : k = l) =>
                   /\ \A k, l \in Streamed(kinds, r)' : k = l
                   /\ e.of \in kinds /\ e.room = r
                         => Streamed(kinds, r) # {} /\ Streamed(kinds, r)' = {}
             /\ ~(e.of \in kinds /\ e.room = r)
                   => (Streamed(kinds, r) # {} => Streamed(kinds, r)' # {})
  BY <1>1, StreamShrinks DEF e
<1>9. "open" \notin Invites /\ "open" \notin {"restore"} /\ "open" \notin {"page"}
  BY DEF Invites
<1>10. e.of \in Invites <=> e.kind = "invite"
  BY <1>5 DEF IsReply, Invites, Makers
<1>11. e.of = "restore" <=> e.kind = "restored"
  BY <1>5 DEF IsReply, Invites, Makers
<1>12. Replies'
  <2>1. \A k \in DOMAIN commands' : commands'[k].kind \in Recovery => commands'[k].room = None
    BY <1>1, <1>3, <1>6 DEF RequestInv, Replies, Recovery, Makers
  <2>2. \A k \in DOMAIN events' :
            IsReply(events'[k]) /\ (events'[k].of \in Recovery => events'[k].room = None)
    BY <1>1, <1>4 DEF RequestInv, Replies
  <2> QED
    BY <1>1, <2>1, <2>2 DEF RequestInv, Replies
<1>13. Waits'
  <2>1. ASSUME NEW r \in pending' PROVE Busy(Invites, r)'
    <3>1. Busy(Invites, r) /\ ~(e.of \in Invites /\ e.room = r)
      BY <1>2, <1>10, <2>1 DEF RequestInv, Waits
    <3> QED
      BY <1>7, <1>8, <1>9, <3>1 DEF Busy
  <2>2. ASSUME NEW r \in inFlight' PROVE Paged(r)'
    <3>1. Paged(r) /\ e \notin {News("fatal"), NewsOf(r)}
      BY <1>2, <2>2 DEF RequestInv, Waits
    <3>2. CASE Queued({"page"}, r) # {} \/ Run({"page"}, r)
      BY <1>7, <1>9, <3>2 DEF Paged
    <3>3. CASE \E k \in DOMAIN events : events[k] \in {News("fatal"), NewsOf(r)}
      BY <1>1, <1>4, <3>1, <3>3 DEF Paged
    <3> QED
      BY <3>1, <3>2, <3>3 DEF Paged
  <2>3. dialog'.restoring => Busy({"restore"}, None)'
    <3>1. dialog'.restoring => Busy({"restore"}, None) /\ ~(e.of \in {"restore"} /\ e.room = None)
      BY <1>2, <1>11 DEF RequestInv, Waits
    <3> QED
      BY <1>7, <1>8, <1>9, <3>1 DEF Busy
  <2> QED
    BY <2>1, <2>2, <2>3 DEF Waits
<1>14. Once'
  <2> SUFFICES ASSUME NEW r \in Rooms \ strayed'
               PROVE  Alone(Invites, r)' /\ (r \notin pending' => ~Busy(Invites, r)')
    BY DEF Once
  <2>1. Alone(Invites, r) /\ (r \notin pending => ~Busy(Invites, r))
    BY <1>2 DEF RequestInv, Once
  <2>2. Queued(Invites, r)' = Queued(Invites, r) /\ Run(Invites, r)' = Run(Invites, r)
    BY <1>7, <1>9
  <2>3. Alone(Invites, r)'
    <3>1. /\ Streamed(Invites, r) = {} => Streamed(Invites, r)' = {}
          /\ \A k, l \in Streamed(Invites, r)' : k = l
      BY <1>8, <2>1 DEF Alone
    <3> QED
      BY <2>1, <2>2, <3>1 DEF Alone
  <2>4. CASE r \notin pending
    BY <1>8, <2>1, <2>2, <2>3, <2>4 DEF Busy
  <2>5. CASE r \in pending /\ r \notin pending'
    <3>1. e.of \in Invites /\ e.room = r
      BY <1>2, <1>10, <2>5
    <3>2. Streamed(Invites, r) # {} /\ Streamed(Invites, r)' = {}
      BY <1>8, <2>1, <3>1 DEF Alone
    <3> QED
      BY <2>1, <2>2, <2>3, <3>2 DEF Alone, Busy
  <2> QED
    BY <2>3, <2>4, <2>5
<1> QED
  BY <1>12, <1>13, <1>14 DEF RequestInv

LEMMA RequestInit == Init => RequestInv
<1> SUFFICES ASSUME Init PROVE RequestInv
  OBVIOUS
<1>1. /\ commands = <<>> /\ events = <<>> /\ running = Idle /\ dialog = Closed
      /\ pending = {} /\ inFlight = {}
  BY DEF Init
<1>2. \A kinds, r : /\ Queued(kinds, r) = {} /\ Streamed(kinds, r) = {} /\ ~Run(kinds, r)
  BY <1>1 DEF Queued, Streamed, Run
<1>3. ~Closed.restoring
  BY DEF Closed
<1> QED
  BY <1>1, <1>2, <1>3 DEF RequestInv, Replies, Waits, Once, Busy, Alone

-----------------------------------------------------------------------------
(* The recovery key that works.                                            *)

OkMade(e) == e.kind = "made" /\ e.ok

\* After this event the dialog shows no key that was shown before.
Settles(e) == e.kind = "loggedOut" \/ (online /\ OkMade(e))
SettledAfter(n) ==
    \/ \E j \in DOMAIN events : j > n /\ Settles(events[j])
    \/ running # Idle /\ \E j \in DOMAIN running.out : Settles(running.out[j])

Right(key) == online /\ key = backup

\* Unless the backup is broken, the key on the screen and every key on its way to
\* it is the one of the backup, or another event takes it off later.
KeyRight ==
    ~(online /\ broken) =>
        /\ running # Idle => \A k \in DOMAIN running.out :
              OkMade(running.out[k]) => Right(running.out[k].key)
        /\ \A k \in DOMAIN events :
              OkMade(events[k]) => Right(events[k].key) \/ SettledAfter(k)
        /\ dialog.key # 0 => Right(dialog.key) \/ SettledAfter(0)

CopyRight == dialog.copied /\ dialog.key # mistaken => clipboard = dialog.key

\* The user changes no key on the screen.
LEMMA UserKeepsRight ==
    ASSUME TypesOK, KeyRight, UserStep
    PROVE  KeyRight'
<1> USE DEF reducerVars, runtimeVars, bridgeVars, historyVars
<1>1. UNCHANGED <<events, running, online, backup, broken>>
  BY UserAsks
<1>2. dialog'.key \in {0, dialog.key}
  <2>1. Closed.key = 0 /\ RestorePrompt.key = 0 /\ \A mode : Shown(mode).key = 0
    BY DEF Closed, RestorePrompt, Shown
  <2>2. dialog \in Dialog
    BY DEF TypesOK
  <2>3. CASE Restore \/ CopyKey
    BY <2>2, <2>3 DEF Restore, CopyKey, Dialog
  <2>4. ASSUME NEW kind, OpenDialog(kind) PROVE dialog'.key \in {0, dialog.key}
    BY <2>1, <2>4 DEF OpenDialog
  <2>5. ASSUME NEW next \in {RestorePrompt, Closed}, Turn(next)
        PROVE  dialog'.key \in {0, dialog.key}
    BY <2>1, <2>5 DEF Turn
  <2>6. ASSUME NEW r, SelectRoom(r) \/ \E action \in Invites : RequestInvite(r, action)
        PROVE  dialog'.key \in {0, dialog.key}
    BY <2>6 DEF SelectRoom, RequestInvite
  <2>7. CASE Scroll \/ Leave \/ ReadKey \/ Draw
    BY <2>7 DEF Scroll, Leave, ReadKey, Draw
  <2> QED
    BY <2>3, <2>4, <2>5, <2>6, <2>7 DEF UserStep
<1>3. \A n : SettledAfter(n)' <=> SettledAfter(n)
  BY <1>1 DEF SettledAfter, Settles
<1>4. \A key : Right(key)' <=> Right(key)
  BY <1>1 DEF Right
<1> QED
  BY <1>1, <1>2, <1>3, <1>4 DEF KeyRight

\* What a command does to the backup, the session and the keys on their way.
LEMMA TakenKeys ==
    ASSUME TypesOK, TakeStep
    PROVE  /\ running = Idle /\ running' # Idle
           /\ UNCHANGED <<events, dialog>>
           /\ \/ /\ UNCHANGED <<online, backup, broken>>
                 /\ \A k \in DOMAIN running'.out : ~OkMade(running'.out[k])
              \/ online' /\ broken'
              \/ /\ online'
                 /\ \E k \in DOMAIN running'.out : OkMade(running'.out[k])
                 /\ \A k \in DOMAIN running'.out :
                       OkMade(running'.out[k]) => running'.out[k].key = backup'
              \/ /\ ~online'
                 /\ \E k \in DOMAIN running'.out : running'.out[k].kind = "loggedOut"
                 /\ \A k \in DOMAIN running'.out : ~OkMade(running'.out[k])
              \/ /\ ~online /\ \A k \in DOMAIN running'.out : ~OkMade(running'.out[k])
<1> DEFINE c == Head(commands)
<1>1. running = Idle /\ UNCHANGED <<events, dialog>> /\ c \in Commands
  BY TakenFacts DEF reducerVars
<1>2. PICK out : IsAnswer(c, out) /\ running' = [of |-> c, out |-> out]
  BY TakenFacts
<1>3. running'.of = c /\ running'.out = out /\ 1 \in DOMAIN out
  BY <1>2 DEF IsAnswer
<1>4. running' # Idle
  <2>1. c.kind # "none"
    BY <1>1 DEF Commands, Requests, Invites, Makers
  <2> QED
    BY <1>3, <2>1 DEF Idle, NoCommand
<1>5. \A k \in DOMAIN out : out[k].kind = "made" => k = 1 /\ c.kind \in Makers
  <2> SUFFICES ASSUME NEW k \in DOMAIN out, out[k].kind = "made"
               PROVE  k = 1 /\ c.kind \in Makers
    OBVIOUS
  <2>1. k = 1 /\ c.kind \in Recovery
    BY <1>1, <1>2, VerdictsAreAnswers DEF Verdicts
  <2>2. out[1].of \in Makers
    BY <1>2, <2>1 DEF IsAnswer, Begins, IsReply
  <2> QED
    BY <1>2, <2>1, <2>2 DEF IsAnswer, Begins, Answered, Recovery
<1>6. CASE ExecuteMaker
  <2>1. c.kind \in Makers
    BY <1>6 DEF ExecuteMaker, Take
  <2>2. PICK o \in (IF online THEN Outcomes(c.kind) ELSE {<<backup, 0, broken>>}),
             more \in {<<>>, <<News("status")>>} :
          /\ backup' = o[1] /\ broken' = o[3]
          /\ Answer(<<[Reply("made", c) EXCEPT !.key = o[2], !.ok = o[2] # 0]>> \o more)
    BY <1>6 DEF ExecuteMaker
  <2> DEFINE e == [Reply("made", c) EXCEPT !.key = o[2], !.ok = o[2] # 0]
  <2>3. out[1] = e
    <3>1. out = <<e>> \o more
      BY <1>3, <2>2 DEF Answer
    <3>2. <<e>> \in Seq({e}) /\ Len(<<e>>) = 1 /\ <<e>>[1] = e
      OBVIOUS
    <3>3. (<<e>> \o <<>>)[1] = e /\ (<<e>> \o <<News("status")>>)[1] = e
      OBVIOUS
    <3> QED
      BY <2>2, <3>1, <3>3
  <2>4. /\ e.kind = "made" /\ e.key = o[2] /\ e.ok = (o[2] # 0)
    BY DEF Reply
  <2> HIDE DEF e
  <2>5. online' = online /\ keys \in Nat
    BY <1>6 DEF ExecuteMaker, TypesOK
  <2>6. CASE o[1] = backup /\ o[2] = 0 /\ o[3] = broken
    BY <1>1, <1>3, <1>4, <1>5, <2>2, <2>3, <2>4, <2>5, <2>6 DEF OkMade
  <2>7. CASE online /\ o[3] = TRUE
    BY <1>1, <1>4, <2>2, <2>5, <2>7
  <2>8. CASE online /\ o[1] = keys + 1 /\ o[2] = keys + 1
    <3>1. o[2] # 0 /\ backup' = o[2]
      BY <2>2, <2>5, <2>8
    <3>2. OkMade(out[1]) /\ out[1].key = backup'
      BY <2>3, <2>4, <3>1 DEF OkMade
    <3>3. \A k \in DOMAIN out : OkMade(out[k]) => out[k].key = backup'
      BY <1>5, <3>2 DEF OkMade
    <3> QED
      BY <1>1, <1>3, <1>4, <2>5, <2>8, <3>2, <3>3
  <2>9. \/ o[1] = backup /\ o[2] = 0 /\ o[3] = broken
        \/ online /\ o[3] = TRUE
        \/ online /\ o[1] = keys + 1 /\ o[2] = keys + 1
    BY <2>1, OutcomeCases
  <2> QED
    BY <2>6, <2>7, <2>8, <2>9
<1>7. CASE ExecuteRestore \/ ExecuteRead \/ ExecuteInvite
  <2>1. c.kind \notin Makers
    BY <1>7 DEF ExecuteRestore, ExecuteRead, ExecuteInvite, Take, Makers, Invites
  <2>2. UNCHANGED <<online, backup, broken>>
    BY <1>7 DEF ExecuteRestore, ExecuteRead, ExecuteInvite, historyVars
  <2> QED
    BY <1>1, <1>3, <1>4, <1>5, <2>1, <2>2 DEF OkMade
<1>8. CASE ExecuteSession
  <2>1. c.kind \in {"login", "logout"} /\ c.kind \notin Makers
    BY <1>8 DEF ExecuteSession, Take, Makers
  <2>2. \A k \in DOMAIN out : ~OkMade(out[k])
    BY <1>5, <2>1 DEF OkMade
  <2>3. \/ UNCHANGED <<online, backup, broken>>
        \/ ~online
        \/ online /\ c.kind = "logout" /\ online' = ~online /\ Answer(<<News("loggedOut")>>)
    BY <1>8, <2>1 DEF ExecuteSession
  <2>4. Answer(<<News("loggedOut")>>) => out[1].kind = "loggedOut"
    <3>1. <<News("loggedOut")>>[1].kind = "loggedOut"
      BY DEF News, Reply
    <3> QED
      BY <1>3, <3>1 DEF Answer
  <2> QED
    BY <1>1, <1>3, <1>4, <2>2, <2>3, <2>4
<1> QED
  BY <1>6, <1>7, <1>8 DEF TakeStep

LEMMA TakeKeepsRight ==
    ASSUME TypesOK, KeyRight, TakeStep
    PROVE  KeyRight'
<1>1. running = Idle /\ running' # Idle /\ UNCHANGED <<events, dialog>>
  BY TakenKeys
<1>2. CASE /\ UNCHANGED <<online, backup, broken>>
           /\ \A k \in DOMAIN running'.out : ~OkMade(running'.out[k])
  BY <1>1, <1>2 DEF KeyRight, SettledAfter, Settles, Right
<1>3. CASE online' /\ broken'
  BY <1>3 DEF KeyRight
<1>4. CASE /\ online'
           /\ \E k \in DOMAIN running'.out : OkMade(running'.out[k])
           /\ \A k \in DOMAIN running'.out :
                 OkMade(running'.out[k]) => running'.out[k].key = backup'
  <2>1. \A n : SettledAfter(n)'
    BY <1>1, <1>4 DEF SettledAfter, Settles
  <2> QED
    BY <1>4, <2>1 DEF KeyRight, Right
<1>5. CASE /\ \E k \in DOMAIN running'.out : running'.out[k].kind = "loggedOut"
           /\ \A k \in DOMAIN running'.out : ~OkMade(running'.out[k])
  <2>1. \A n : SettledAfter(n)'
    BY <1>1, <1>5 DEF SettledAfter, Settles
  <2> QED
    BY <1>5, <2>1 DEF KeyRight
<1>6. CASE ~online /\ \A k \in DOMAIN running'.out : ~OkMade(running'.out[k])
  <2>1. \A n : SettledAfter(n) => SettledAfter(n)'
    BY <1>1, <1>6 DEF SettledAfter, Settles
  <2> QED
    BY <1>1, <1>6, <2>1 DEF KeyRight, Right
<1> QED
  BY <1>2, <1>3, <1>4, <1>5, <1>6, TakenKeys

LEMMA FinishKeepsRight ==
    ASSUME TypesOK, KeyRight, Finish
    PROVE  KeyRight'
<1> DEFINE out == running.out
           new == [i \in DOMAIN out |-> IF out[i].kind = "list" THEN RoomList(member)
                                        ELSE out[i]]
           all == events \o new
<1>1. /\ running # Idle /\ running' = Idle /\ events' = all
      /\ UNCHANGED <<dialog, online, backup, broken>>
  BY DEF Finish, reducerVars, historyVars
<1>2. out \in Seq(Events) /\ events \in Seq(Events) /\ RoomList(member) \in Events
      /\ RoomList(member).kind = "list"
  BY <1>1, RepliesAreEvents DEF TypesOK, Answers
<1>3. /\ new \in Seq(Events) /\ DOMAIN new = DOMAIN out
      /\ \A k \in DOMAIN out : new[k].kind = out[k].kind
                               /\ (out[k].kind # "list" => new[k] = out[k])
  BY <1>2
<1> HIDE DEF new, out
<1>4. /\ \A k \in DOMAIN events : k \in DOMAIN all /\ all[k] = events[k]
      /\ \A k \in DOMAIN out : Len(events) + k \in DOMAIN all /\ all[Len(events) + k] = new[k]
      /\ \A k \in DOMAIN all :
            k \in DOMAIN events \/ k - Len(events) \in DOMAIN out
      /\ \A k \in DOMAIN events \cup {0}, i \in DOMAIN out : Len(events) + i > k
  <2>1. Len(new) = Len(out) /\ DOMAIN events = 1..Len(events) /\ DOMAIN out = 1..Len(out)
        /\ Len(events) \in Nat /\ Len(out) \in Nat
    BY <1>2, <1>3
  <2>2. /\ \A k \in 1..Len(events) : k \in DOMAIN all /\ all[k] = events[k]
        /\ \A k \in 1..Len(new) : Len(events) + k \in DOMAIN all /\ all[Len(events) + k] = new[k]
        /\ \A k \in DOMAIN all : k \in 1..Len(events) \/ k - Len(events) \in 1..Len(new)
    BY <1>2, <1>3
  <2> QED
    BY <2>1, <2>2
<1> HIDE DEF all
<1>5. \A k \in DOMAIN out : Settles(new[k]) <=> Settles(out[k])
  BY <1>3 DEF Settles, OkMade
<1>6. \A n : SettledAfter(n)' <=> \E j \in DOMAIN all : j > n /\ Settles(all[j])
  BY <1>1 DEF SettledAfter, Settles, OkMade
<1>7. \A n \in DOMAIN events \cup {0} : SettledAfter(n) => SettledAfter(n)'
  <2> SUFFICES ASSUME NEW n \in DOMAIN events \cup {0}, SettledAfter(n)
               PROVE  \E j \in DOMAIN all : j > n /\ Settles(all[j])
    BY <1>6
  <2>1. CASE \E j \in DOMAIN events : j > n /\ Settles(events[j])
    BY <1>4, <2>1
  <2>2. ASSUME NEW j \in DOMAIN out, Settles(out[j])
        PROVE  \E k \in DOMAIN all : k > n /\ Settles(all[k])
    <3>1. Len(events) + j > n
      BY <1>4, <2>2
    <3> QED
      BY <1>4, <1>5, <2>2, <3>1
  <2> QED
    BY <2>1, <2>2 DEF SettledAfter, out
<1> SUFFICES ASSUME ~(online /\ broken)
             PROVE  /\ \A k \in DOMAIN all :
                          OkMade(all[k]) => Right(all[k].key) \/ SettledAfter(k)'
                    /\ dialog.key # 0 => Right(dialog.key) \/ SettledAfter(0)'
  BY <1>1 DEF KeyRight, Right
<1>8. dialog.key # 0 => Right(dialog.key) \/ SettledAfter(0)'
  BY <1>7 DEF KeyRight
<1>9. ASSUME NEW k \in DOMAIN all, OkMade(all[k]), k \in DOMAIN events
      PROVE  Right(all[k].key) \/ SettledAfter(k)'
  BY <1>4, <1>7, <1>9 DEF KeyRight
<1>10. ASSUME NEW k \in DOMAIN all, OkMade(all[k]), k - Len(events) \in DOMAIN out
       PROVE  Right(all[k].key)
  <2> DEFINE i == k - Len(events)
  <2>1. all[k] = new[i] /\ OkMade(new[i])
    <3>1. k \in Nat /\ Len(events) \in Nat
      BY <1>2, <1>3 DEF all
    <3>2. Len(events) + i = k
      BY <3>1
    <3> QED
      BY <1>4, <1>10, <3>2
  <2>2. new[i] = out[i]
    BY <1>3, <1>10, <2>1 DEF OkMade
  <2> QED
    BY <1>1, <1>10, <2>1, <2>2 DEF KeyRight, out
<1> QED
  BY <1>4, <1>8, <1>9, <1>10

LEMMA SyncKeepsRight ==
    ASSUME TypesOK, KeyRight, Sync
    PROVE  KeyRight'
<1>1. UNCHANGED <<running, dialog, online, backup, broken>>
  BY SyncFacts DEF reducerVars, historyVars
<1>2. PICK e \in Events : /\ e.kind \in {"list", "delta", "fatal"}
                          /\ events' = Append(events, e)
  BY SyncFacts
<1>3. /\ \A k \in DOMAIN events :
            k \in DOMAIN Append(events, e) /\ Append(events, e)[k] = events[k]
      /\ \A k \in DOMAIN Append(events, e) :
            (k \in DOMAIN events /\ Append(events, e)[k] = events[k]) \/ Append(events, e)[k] = e
  BY DEF TypesOK
<1>4. \A n : SettledAfter(n) => SettledAfter(n)'
  BY <1>1, <1>2, <1>3 DEF SettledAfter, Settles
<1>5. ~OkMade(e)
  BY <1>2 DEF OkMade
<1>6. \A k \in DOMAIN events' :
          OkMade(events'[k]) => k \in DOMAIN events /\ events'[k] = events[k]
  BY <1>2, <1>3, <1>5
<1> QED
  BY <1>1, <1>4, <1>6 DEF KeyRight, Right

\* The event that was handled took the key off, or came before those that do.
LEMMA HandleKeepsRight ==
    ASSUME TypesOK, KeyRight, HandleEvent
    PROVE  KeyRight'
<1> DEFINE e == Head(events)
<1>1. /\ events # <<>> /\ events' = Tail(events) /\ e \in Events
      /\ UNCHANGED <<running, online, backup, broken>>
  BY HandledWaits
<1>2. /\ 1 \in DOMAIN events /\ e = events[1]
      /\ \A k \in DOMAIN Tail(events) :
            k \in Nat /\ k + 1 \in DOMAIN events /\ Tail(events)[k] = events[k + 1]
      /\ \A k \in DOMAIN events : k # 1 =>
            k \in Nat /\ k - 1 \in DOMAIN Tail(events) /\ Tail(events)[k - 1] = events[k]
  BY <1>1 DEF TypesOK
<1>3. \/ dialog'.key = 0
      \/ dialog'.key = dialog.key /\ ~Settles(e)
      \/ dialog'.key = e.key /\ OkMade(e)
  <2>1. Closed.key = 0 /\ (\A mode : Shown(mode).key = 0) /\ \A key : KeyShown(key).key = key
    BY DEF Closed, Shown, KeyShown
  <2>2. CASE Made
    BY <2>1, <2>2 DEF Made, Handle, Settles, OkMade
  <2>3. CASE Restored \/ LoggedOut
    BY <2>1, <2>3 DEF Restored, LoggedOut
  <2>4. CASE Status
    BY <2>1, <2>4 DEF Status, Handle, Settles, OkMade
  <2>5. CASE ReplaceRooms \/ InviteAnswered \/ Delta \/ Fatal \/ Auth
    BY <2>5 DEF ReplaceRooms, InviteAnswered, Delta, Fatal, Auth, Handle, Settles, OkMade
  <2> QED
    BY <2>2, <2>3, <2>4, <2>5 DEF HandleEvent
<1> HIDE DEF e
<1>4. \A n \in Nat : SettledAfter(n + 1) => SettledAfter(n)'
  <2> SUFFICES ASSUME NEW n \in Nat, SettledAfter(n + 1) PROVE SettledAfter(n)'
    OBVIOUS
  <2>1. ASSUME NEW j \in DOMAIN events, j > n + 1, Settles(events[j]) PROVE SettledAfter(n)'
    <3>1. j # 1 /\ j - 1 > n /\ j - 1 \in DOMAIN Tail(events) /\ Tail(events)[j - 1] = events[j]
      BY <1>2, <2>1
    <3> QED
      BY <1>1, <2>1, <3>1 DEF SettledAfter, Settles
  <2>2. CASE running # Idle /\ \E j \in DOMAIN running.out : Settles(running.out[j])
    BY <1>1, <2>2 DEF SettledAfter, Settles
  <2> QED
    BY <2>1, <2>2 DEF SettledAfter
<1>5. SettledAfter(0) /\ ~Settles(e) => SettledAfter(0)'
  <2>1. ASSUME NEW j \in DOMAIN events, Settles(events[j]), ~Settles(e) PROVE SettledAfter(1)
    <3>1. j # 1 /\ j \in Nat /\ j # 0
      BY <1>2, <2>1 DEF TypesOK
    <3> QED
      BY <2>1, <3>1 DEF SettledAfter
  <2>2. SettledAfter(0) /\ ~Settles(e) => SettledAfter(1)
    BY <2>1 DEF SettledAfter
  <2> QED
    BY <1>4, <2>2
<1>6. \A key : Right(key)' <=> Right(key)
  BY <1>1 DEF Right
<1> SUFFICES ASSUME ~(online /\ broken)
             PROVE  /\ \A k \in DOMAIN Tail(events) :
                          OkMade(Tail(events)[k])
                              => Right(Tail(events)[k].key) \/ SettledAfter(k)'
                    /\ dialog'.key # 0 => Right(dialog'.key) \/ SettledAfter(0)'
  BY <1>1, <1>6 DEF KeyRight
<1>7. \A k \in DOMAIN Tail(events) :
          OkMade(Tail(events)[k]) => Right(Tail(events)[k].key) \/ SettledAfter(k)'
  BY <1>2, <1>4 DEF KeyRight
<1>8. dialog'.key # 0 => Right(dialog'.key) \/ SettledAfter(0)'
  <2>1. CASE dialog'.key = dialog.key /\ ~Settles(e)
    BY <1>5, <2>1 DEF KeyRight
  <2>2. CASE dialog'.key = e.key /\ OkMade(e)
    <3>1. Right(e.key) \/ SettledAfter(1)
      BY <1>2, <2>2 DEF KeyRight
    <3> QED
      BY <1>4, <2>2, <3>1
  <2> QED
    BY <1>3, <2>1, <2>2
<1> QED
  BY <1>7, <1>8

\* The clipboard: the key marked as copied is the one read for it, or the mark
\* is mistaken.
LEMMA StepsKeepCopy ==
    ASSUME TypesOK, CopyRight, Next
    PROVE  CopyRight'
<1> USE DEF reducerVars, bridgeVars, runtimeVars, historyVars
<1>1. dialog \in Dialog
  BY DEF TypesOK
<1>2. /\ ~Closed.copied /\ ~RestorePrompt.copied /\ \A mode : ~Shown(mode).copied
      /\ \A key : ~KeyShown(key).copied
  BY DEF Closed, RestorePrompt, Shown, KeyShown
<1>3. CASE CopyKey
  BY <1>1, <1>3 DEF CopyKey, CopyRight, Dialog
<1>4. ASSUME UNCHANGED <<clipboard, mistaken>>, dialog' = dialog \/ ~dialog'.copied
      PROVE  CopyRight'
  BY <1>4 DEF CopyRight
<1>5. CASE Restore
  <2>1. /\ UNCHANGED <<clipboard, mistaken>>
        /\ dialog'.copied = dialog.copied /\ dialog'.key = dialog.key
    BY <1>1, <1>5 DEF Restore, Ask, Dialog
  <2> QED
    BY <2>1 DEF CopyRight
<1>6. CASE HandleEvent
  <2>1. UNCHANGED <<clipboard, mistaken>>
    BY <1>6 DEF HandleEvent, Handle, ReplaceRooms, InviteAnswered, Delta, Fatal, Status, Made,
                Restored, Auth, LoggedOut
  <2>2. CASE Made
    BY <1>2, <1>4, <2>1, <2>2 DEF Made
  <2>3. CASE Restored \/ LoggedOut \/ Status
    BY <1>2, <1>4, <2>1, <2>3 DEF Restored, LoggedOut, Status
  <2>4. CASE ReplaceRooms \/ InviteAnswered \/ Delta \/ Fatal \/ Auth
    BY <1>4, <2>1, <2>4 DEF ReplaceRooms, InviteAnswered, Delta, Fatal, Auth
  <2> QED
    BY <1>6, <2>2, <2>3, <2>4 DEF HandleEvent
<1>7. CASE TakeStep
  BY <1>4, <1>7, TakenFacts
<1>8. CASE Finish \/ Sync
  BY <1>4, <1>8 DEF Finish, Sync
<1>9. ASSUME NEW kind, OpenDialog(kind) PROVE CopyRight'
  BY <1>2, <1>4, <1>9 DEF OpenDialog, Ask
<1>10. ASSUME NEW next \in {RestorePrompt, Closed}, Turn(next) PROVE CopyRight'
  BY <1>2, <1>4, <1>10 DEF Turn
<1>11. ASSUME NEW r, SelectRoom(r) \/ \E action \in Invites : RequestInvite(r, action)
       PROVE  CopyRight'
  BY <1>4, <1>11 DEF SelectRoom, RequestInvite, Ask
<1>12. CASE Scroll \/ Leave \/ ReadKey \/ Draw
  BY <1>4, <1>12 DEF Scroll, Leave, ReadKey, Draw, Ask
<1> QED
  BY <1>3, <1>5, <1>6, <1>7, <1>8, <1>9, <1>10, <1>11, <1>12 DEF Next, Execute, TakeStep

-----------------------------------------------------------------------------
(* Theorems.                                                               *)

\* The inductive invariant holds for every value of the constants.
THEOREM KeyInvariant == Spec => []KeyInv
<1>1. Init => KeyInv
  <2> SUFFICES ASSUME Init PROVE KeyInv
    OBVIOUS
  <2>1. /\ commands = <<>> /\ events = <<>> /\ running = Idle /\ dialog = Closed
        /\ asked = 0 /\ shownAt = 0 /\ keys = 0 /\ backup = 0 /\ selected = None
        /\ member = [r \in Rooms |-> "invited"]
    BY DEF Init
  <2>2. member \in Members
    BY <2>1 DEF Members, Memberships
  <2>3. Closed.key = 0 /\ Closed \in Dialog
    BY DialogsAreKeyless
  <2> QED
    BY <2>1, <2>2, <2>3 DEF KeyInv, TypesOK, MadeBefore, SomeRoom
<1>2. KeyInv /\ [Next]_vars => KeyInv'
  <2> SUFFICES ASSUME KeyInv, [Next]_vars PROVE KeyInv'
    OBVIOUS
  <2>1. CASE UNCHANGED vars
    BY <2>1 DEF vars, reducerVars, bridgeVars, runtimeVars, historyVars, KeyInv, TypesOK,
                MadeBefore, Older
  <2> QED
    BY <2>1, UserKeepsInv, ExecuteKeepsInv, FinishKeepsInv, SyncKeepsInv, HandleKeepsInv
       DEF Next, UserStep, Execute, TakeStep
<1> QED
  BY <1>1, <1>2, PTL DEF Spec

\* A recovery key stays until the user, the answer to an older request, to a restore
\* asked for beside it, or the logout takes it away: the status that trails behind
\* the answer that brought the key does not, and of the later requests no other can
\* be under way while the key is there.
THEOREM KeyAlwaysStays == Spec => KeyStaysShown
<1>1. KeyInv /\ [Next]_vars =>
        [dialog.key # 0 /\ dialog'.key # dialog.key /\ events' # events
           => \/ Head(events).kind = "loggedOut"
              \/ /\ Head(events).kind \in {"made", "restored"}
                 /\ Head(events).txn < shownAt
              \/ Head(events).kind = "restored" /\ dialog.restoring]_vars
  <2> SUFFICES ASSUME KeyInv, Next, dialog.key # 0, dialog'.key # dialog.key,
                      events' # events
               PROVE  \/ Head(events).kind = "loggedOut"
                      \/ /\ Head(events).kind \in {"made", "restored"}
                         /\ Head(events).txn < shownAt
                      \/ Head(events).kind = "restored" /\ dialog.restoring
    OBVIOUS
  <2>1. CASE HandleEvent
    <3>1. /\ MadeBefore(shownAt, Older) /\ shownAt \in Nat
          /\ dialog.mode = "key" /\ dialog.restoring \in BOOLEAN
      BY DEF KeyInv, TypesOK, Dialog
    <3>2. Head(events).kind \in Ending[Older] => Head(events).txn < shownAt
      <4>1. PICK t \in Nat, kinds \in Kinds : t = shownAt /\ kinds = Older
        BY <3>1, KindsFacts
      <4>2. MadeBefore(t, kinds)
        BY <3>1, <4>1
      <4>3. Head(events).kind \in Ending[kinds] => Head(events).txn < t
        BY <2>1, <4>2, HandledFacts
      <4> QED
        BY <4>1, <4>3
    <3>3. Head(events).kind \in Verdicts \cup {"loggedOut"}
      BY <2>1, <3>1, HandledDialog
    <3> QED
      BY <3>1, <3>2, <3>3, KindsFacts DEF Verdicts, Older
  <2>2. CASE Finish \/ Sync
    BY <2>2 DEF Finish, Sync, reducerVars
  <2>3. CASE TakeStep
    BY <2>3 DEF TakeStep, ExecuteMaker, ExecuteRestore, ExecuteRead, ExecuteInvite,
                ExecuteSession, reducerVars
  <2>4. CASE UserStep
    <3>1. events' = events
      BY <2>4 DEF UserStep, SelectRoom, RequestInvite, OpenDialog, Turn, Scroll, Restore,
                  Leave, ReadKey, CopyKey, Draw
    <3> QED
      BY <3>1
  <2> QED
    BY <2>1, <2>2, <2>3, <2>4 DEF Next, Execute, TakeStep, UserStep
<1> QED
  BY <1>1, KeyInvariant, PTL DEF Spec, KeyStaysShown

\* Where the requests are, for every value of the constants.
THEOREM RequestInvariant == Spec => []RequestInv
<1>1. KeyInv /\ RequestInv /\ [Next]_vars => RequestInv'
  <2> SUFFICES ASSUME KeyInv, RequestInv, [Next]_vars PROVE RequestInv'
    OBVIOUS
  <2>1. TypesOK
    BY DEF KeyInv
  <2>2. CASE UNCHANGED vars
    BY <2>2 DEF vars, reducerVars, bridgeVars, runtimeVars, historyVars, RequestInv, Replies,
                Waits, Once, Paged, Busy, Alone, Queued, Run, Streamed
  <2> QED
    BY <2>1, <2>2, UserKeepsRequests, TakeKeepsRequests, FinishKeepsRequests,
       SyncKeepsRequests, HandleKeepsRequests
       DEF Next, UserStep, Execute, TakeStep
<1> QED
  BY <1>1, RequestInit, KeyInvariant, PTL DEF Spec

\* A pending invite, a page in flight and a restore in flight are never waited
\* for in vain: each is queued, at the runtime or answered in the stream, or
\* an event that ends the page is in it.
THEOREM NothingEverWaitsInVain == Spec => []NothingWaitsInVain
<1>1. KeyInv /\ RequestInv => NothingWaitsInVain
  <2> SUFFICES ASSUME KeyInv, RequestInv PROVE NothingWaitsInVain
    OBVIOUS
  <2>1. \A kinds, r : UnderWay(kinds, r) # {} <=> Busy(kinds, r)
    BY Places
  <2>2. ASSUME NEW r \in inFlight
        PROVE  \/ UnderWay({"page"}, r) # {}
               \/ \E e \in ToSet(events) : e \in {News("fatal"), NewsOf(r)}
    <3>1. Paged(r)
      BY DEF RequestInv, Waits
    <3>2. ASSUME NEW k \in DOMAIN events PROVE events[k] \in ToSet(events)
      BY DEF ToSet
    <3> QED
      BY <2>1, <3>1, <3>2 DEF Paged, Busy
  <2> QED
    BY <2>1, <2>2 DEF RequestInv, Waits, NothingWaitsInVain
<1> QED
  BY <1>1, KeyInvariant, RequestInvariant, PTL

\* No invite has two requests under way, unless the first was forgotten.
THEOREM InviteEverAskedOnce == Spec => []InviteAskedOnce
<1>1. RequestInv => InviteAskedOnce
  BY Places DEF RequestInv, Once, InviteAskedOnce
<1> QED
  BY <1>1, RequestInvariant, PTL

\* Once no request for a new key is under way and no logout is on its way to the
\* screen, the key shown is the one of a backup that is whole; and a key
\* marked as copied is in the clipboard unless another was marked in its place.
THEOREM KeyShownAlwaysWorks == Spec => []KeyShownWorks
<1>1. Init => KeyRight /\ CopyRight
  <2>1. Closed.key = 0 /\ ~Closed.copied
    BY DEF Closed
  <2> QED
    BY <2>1 DEF Init, KeyRight, CopyRight
<1>2. KeyInv /\ KeyRight /\ CopyRight /\ [Next]_vars => (KeyRight /\ CopyRight)'
  <2> SUFFICES ASSUME KeyInv, KeyRight, CopyRight, [Next]_vars PROVE (KeyRight /\ CopyRight)'
    OBVIOUS
  <2>1. TypesOK
    BY DEF KeyInv
  <2>2. CASE UNCHANGED vars
    BY <2>2 DEF vars, reducerVars, bridgeVars, runtimeVars, historyVars, KeyRight, CopyRight,
                SettledAfter, Settles, Right
  <2>3. CASE Next
    BY <2>1, <2>3, UserKeepsRight, TakeKeepsRight, FinishKeepsRight, SyncKeepsRight,
       HandleKeepsRight, StepsKeepCopy
       DEF Next, UserStep, Execute, TakeStep
  <2> QED
    BY <2>2, <2>3
<1>3. RequestInv /\ KeyRight /\ CopyRight => KeyShownWorks
  <2> SUFFICES ASSUME RequestInv, KeyRight, UnderWay(Makers, None) = {}, ~Leaving,
                      online, ~broken, dialog.key # 0
               PROVE  dialog.key = backup
    BY DEF KeyShownWorks, CopyRight
  <2>1. ~Busy(Makers, None) /\ Makers \subseteq Recovery /\ Makers \subseteq Answered
    BY Places DEF Recovery, Answered
  <2>2. ASSUME NEW j \in DOMAIN events, Settles(events[j]) PROVE FALSE
    <3>1. events[j].kind = "made"
      BY <2>2 DEF Settles, OkMade, Leaving
    <3>2. events[j].of \in Makers /\ events[j].room = None
      BY <2>1, <3>1 DEF RequestInv, Replies, IsReply
    <3> QED
      BY <2>1, <3>2 DEF Busy, Streamed
  <2>3. ASSUME running # Idle, NEW j \in DOMAIN running.out, Settles(running.out[j])
        PROVE  FALSE
    <3>1. running.out[j].kind = "made"
      BY <2>3 DEF Settles, OkMade, Leaving
    <3>2. IsAnswer(running.of, running.out)
      BY <2>3 DEF RequestInv, Replies
    <3>3. running.out[j].of \in Makers
      BY <3>1, <3>2 DEF IsAnswer, Begins, IsReply
    <3>4. j = 1 /\ "none" \notin Makers
      BY <3>2, <3>3 DEF IsAnswer, Makers
    <3>5. running.of.kind \in Makers
      BY <3>2, <3>3, <3>4 DEF IsAnswer, Begins
    <3> QED
      BY <2>1, <2>3, <3>5 DEF RequestInv, Replies, Busy, Run
  <2> QED
    BY <2>2, <2>3 DEF KeyRight, SettledAfter, Right
<1> QED
  BY <1>1, <1>2, <1>3, KeyInvariant, RequestInvariant, PTL DEF Spec
=============================================================================
