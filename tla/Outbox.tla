------------------------------- MODULE Outbox -------------------------------
(***************************************************************************)
(* Images on their way out of the desktop app.                             *)
(*                                                                         *)
(* The interface thread stages an attachment, queues its upload and, for   *)
(* a failed row, queues another upload or send (bridge.rs).  The runtime   *)
(* takes commands one at a time and answers each with one acknowledgement  *)
(* (backend-matrix lib.rs).  The event worker turns an upload's answer     *)
(* into a send and takes a sent item off the list (bridge.rs, state.rs).   *)
(* Its event stream drops the oldest answer when it is full.               *)
(*                                                                         *)
(* Transaction ids come from two counters that share a prefix: retries use *)
(* the bridge's, sends after an upload the static one, which media         *)
(* downloads use too.  Text messages share the bridge's counter.  Items    *)
(* are named by the number in their local id.                              *)
(***************************************************************************)
EXTENDS Naturals, Sequences, Functions

CONSTANTS MaxTxn,     \* ids the bridge's counter gives
          Capacity,   \* of the event stream
          MaxTurns    \* text messages, removals, media downloads and turns

ASSUME OutboxAssumption ==
    /\ {MaxTxn, Capacity} \subseteq Nat \ {0}
    /\ MaxTurns \in Nat

VARIABLES
    nextTxn,   \* next_txn_id of the bridge
    autoTxn,   \* NEXT_AUTO_TXN_ID
    staged,    \* is there a pending_attachment?
    items,     \* pending_outgoing_media: status and whether a source is known
    texts,     \* pending_sends
    uploads,   \* media_uploads_in_flight: transaction -> item
    sends,     \* media_send_txn_to_local_id: transaction -> item
    selected,  \* is a joined room selected?
    offered,   \* rows drawn with a retry button
    commands,  \* commands the runtime has not taken
    events,    \* events the event worker has not handled
    signedIn,  \* does the runtime accept room commands?
    turns,
    posted,    \* how often the server got each item; not in the code
    retries,   \* how often the user retried each item; not in the code
    lost,      \* items with an answer the stream dropped; not in the code
    reused     \* items that shared a send transaction id; not in the code

uiVars == <<staged, items, texts, selected, offered>>
txnVars == <<nextTxn, autoTxn, uploads, sends>>
runtimeVars == <<commands, signedIn, posted>>
vars == <<uiVars, txnVars, runtimeVars, events, turns, retries, lost, reused>>

Items == 1..MaxTxn
Statuses == {"uploading", "sending", "uploadFailed", "sendFailed"}
CanRetry(item) == item.status \in {"uploadFailed", "sendFailed"}

Command(op, txn, item) == [op |-> op, txn |-> txn, item |-> item]
Ack(op, txn, item, ok) == [op |-> op, txn |-> txn, item |-> item, ok |-> ok]
With(f, x, y) == [z \in DOMAIN f \cup {x} |-> IF z = x THEN y ELSE f[z]]
Without(f, x) == Restrict(f, DOMAIN f \ {x})

Init ==
    /\ nextTxn = 1 /\ autoTxn = 1
    /\ staged = FALSE
    /\ items = <<>> /\ uploads = <<>> /\ sends = <<>>
    /\ texts = {} /\ offered = {}
    /\ selected = FALSE /\ signedIn = TRUE
    /\ commands = <<>> /\ events = <<>>
    /\ turns = 0
    /\ posted = [i \in Items |-> 0] /\ retries = [i \in Items |-> 0]
    /\ lost = {} /\ reused = {}

-----------------------------------------------------------------------------
(* The state's setters: an item that is gone stays gone.                   *)

Mark(i, status) ==
    IF i \in DOMAIN items THEN [items EXCEPT ![i].status = status] ELSE items

MarkSending(i) ==
    IF i \in DOMAIN items
    THEN [items EXCEPT ![i] = [status |-> "sending", source |-> TRUE]]
    ELSE items

\* A send transaction that another item holds is taken over.
Book(txn, i) == sends' = With(sends, txn, i)
Reused(txn, i) == IF txn \in DOMAIN sends THEN reused \cup {i, sends[txn]} ELSE reused

-----------------------------------------------------------------------------
(* The interface thread.                                                   *)

SelectRoom ==
    /\ ~selected
    /\ signedIn
    /\ selected' = TRUE
    /\ UNCHANGED <<staged, items, texts, offered, txnVars, runtimeVars, events,
                   turns, retries, lost, reused>>

\* A picked file that is an image of at most 20 MB replaces the staged one.
PickAttachment ==
    /\ ~staged
    /\ nextTxn + 1 <= MaxTxn
    /\ staged' = TRUE
    /\ UNCHANGED <<items, texts, selected, offered, txnVars, runtimeVars, events,
                   turns, retries, lost, reused>>

ClearAttachment ==
    /\ staged
    /\ turns < MaxTurns /\ turns' = turns + 1
    /\ staged' = FALSE
    /\ UNCHANGED <<items, texts, selected, offered, txnVars, runtimeVars, events,
                   retries, lost, reused>>

\* send_message with an attachment: the item is listed, its file is read and
\* the upload queued, or the item has failed.
SendAttachment(readable) ==
    /\ selected /\ staged
    /\ nextTxn + 1 <= MaxTxn
    /\ staged' = FALSE
    /\ items' = With(items, nextTxn,
                     [status |-> IF readable THEN "uploading" ELSE "uploadFailed",
                      source |-> FALSE])
    /\ IF readable
       THEN /\ uploads' = With(uploads, nextTxn + 1, nextTxn)
            /\ commands' = Append(commands, Command("upload", nextTxn + 1, nextTxn))
            /\ nextTxn' = nextTxn + 2
       ELSE nextTxn' = nextTxn + 1 /\ UNCHANGED <<uploads, commands>>
    /\ UNCHANGED <<texts, selected, offered, autoTxn, sends, signedIn, posted,
                   events, turns, retries, lost, reused>>

SendText ==
    /\ selected /\ ~staged
    /\ turns < MaxTurns /\ turns' = turns + 1
    /\ nextTxn <= MaxTxn
    /\ texts' = texts \cup {nextTxn}
    /\ commands' = Append(commands, Command("text", nextTxn, 0))
    /\ nextTxn' = nextTxn + 1
    /\ UNCHANGED <<staged, items, selected, offered, autoTxn, uploads, sends,
                   signedIn, posted, events, retries, lost, reused>>

\* Mutant: the failed row queues its send and its upload again.
RetryBoth(i) ==
    /\ i \in offered /\ i \in DOMAIN items
    /\ nextTxn + 1 <= MaxTxn
    /\ nextTxn' = nextTxn + 2
    /\ retries' = [retries EXCEPT ![i] = @ + 1]
    /\ Book(nextTxn, i)
    /\ reused' = Reused(nextTxn, i)
    /\ items' = MarkSending(i)
    /\ uploads' = With(uploads, nextTxn + 1, i)
    /\ commands' = commands \o <<Command("image", nextTxn, i), Command("upload", nextTxn + 1, i)>>
    /\ UNCHANGED <<staged, texts, selected, offered, autoTxn, signedIn, posted,
                   events, turns, lost>>

\* retry_outgoing_media: the row's button is the last drawn one, the item is
\* looked up again, its status is not.  With a source only the send is
\* repeated; without one the upload is, and the row keeps saying it failed.
Retry(i) ==
    /\ i \in offered /\ i \in DOMAIN items
    /\ nextTxn <= MaxTxn
    /\ nextTxn' = nextTxn + 1
    /\ retries' = [retries EXCEPT ![i] = @ + 1]
    /\ IF items[i].source
       THEN /\ Book(nextTxn, i)
            /\ reused' = Reused(nextTxn, i)
            /\ items' = MarkSending(i)
            /\ commands' = Append(commands, Command("image", nextTxn, i))
            /\ UNCHANGED uploads
       ELSE /\ uploads' = With(uploads, nextTxn, i)
            /\ commands' = Append(commands, Command("upload", nextTxn, i))
            /\ UNCHANGED <<items, sends, reused>>
    /\ UNCHANGED <<staged, texts, selected, offered, autoTxn, signedIn, posted,
                   events, turns, lost>>

\* remove_outgoing_media: what was queued for the item goes on.
Remove(i) ==
    /\ i \in DOMAIN items
    /\ turns < MaxTurns /\ turns' = turns + 1
    /\ items' = Without(items, i)
    /\ UNCHANGED <<staged, texts, selected, offered, txnVars, runtimeVars, events,
                   retries, lost, reused>>

\* A snapshot is drawn; rows of a room that is not selected are not.
Draw ==
    /\ offered' = IF selected THEN {i \in DOMAIN items : CanRetry(items[i])} ELSE {}
    /\ offered' # offered
    /\ nextTxn <= MaxTxn
    /\ UNCHANGED <<staged, items, texts, selected, txnVars, runtimeVars, events,
                   turns, retries, lost, reused>>

Logout ==
    /\ turns < MaxTurns /\ turns' = turns + 1
    /\ commands' = Append(commands, Command("logout", 0, 0))
    /\ UNCHANGED <<uiVars, txnVars, signedIn, posted, events, retries, lost, reused>>

-----------------------------------------------------------------------------
(* The runtime.                                                            *)

\* A full stream drops its oldest event.
Emit(e) ==
    IF Len(events) = Capacity
    THEN /\ events' = Append(Tail(events), e)
         /\ lost' = lost \cup {Head(events).item}
    ELSE events' = Append(events, e) /\ UNCHANGED lost

\* An upload, an image or a text is refused when signed out and may fail; a
\* failed send may have reached the server.
Execute ==
    /\ commands # <<>>
    /\ Head(commands).op # "logout"
    /\ LET c == Head(commands) IN
       \E ok \in BOOLEAN, reached \in BOOLEAN :
          /\ ok => signedIn /\ reached
          /\ reached => signedIn
          /\ posted' = IF c.op = "image" /\ reached
                       THEN [posted EXCEPT ![c.item] = @ + 1] ELSE posted
          /\ Emit(Ack(c.op, c.txn, c.item, ok))
    /\ commands' = Tail(commands)
    /\ UNCHANGED <<uiVars, txnVars, signedIn, turns, retries, reused>>

ExecuteLogout ==
    /\ commands # <<>>
    /\ Head(commands).op = "logout"
    /\ signedIn' = FALSE
    /\ Emit(Ack("logout", Head(commands).txn, Head(commands).item, TRUE))
    /\ commands' = Tail(commands)
    /\ UNCHANGED <<uiVars, txnVars, posted, turns, retries, reused>>

\* Another login.
Login ==
    /\ ~signedIn
    /\ signedIn' = TRUE
    /\ UNCHANGED <<uiVars, txnVars, commands, events, posted, turns, retries, lost, reused>>

-----------------------------------------------------------------------------
(* The event worker.                                                       *)

\* Mutant: the context of a failed upload is not looked up.
UploadFailsUnmarked(i) ==
    /\ items' = items
    /\ UNCHANGED <<commands, autoTxn, sends, reused>>

UploadFails(i) ==
    /\ items' = Mark(i, "uploadFailed")
    /\ UNCHANGED <<commands, autoTxn, sends, reused>>

\* Mutant: the send's transaction is never entered.
UploadSucceedsUnbooked(i) ==
    /\ items' = MarkSending(i)
    /\ autoTxn' = autoTxn + 1
    /\ commands' = Append(commands, Command("image", autoTxn, i))
    /\ UNCHANGED <<sends, reused>>

\* The send is queued even when the item was removed meanwhile.
UploadSucceeds(i) ==
    /\ items' = MarkSending(i)
    /\ autoTxn' = autoTxn + 1
    /\ Book(autoTxn, i)
    /\ reused' = Reused(autoTxn, i)
    /\ commands' = Append(commands, Command("image", autoTxn, i))

\* handle_media_upload_ack.
UploadAcked ==
    /\ events # <<>>
    /\ Head(events).op = "upload"
    /\ LET e == Head(events) IN
       /\ e.txn \in DOMAIN uploads
       /\ uploads' = Without(uploads, e.txn)
       /\ IF e.ok THEN UploadSucceeds(uploads[e.txn])
                  ELSE UploadFails(uploads[e.txn])
    /\ events' = Tail(events)
    /\ UNCHANGED <<staged, texts, selected, offered, nextTxn, signedIn, posted,
                   turns, retries, lost>>

\* Mutant: a failed send's row goes too.
SendAckedGone(i, ok) == Without(items, i)

\* A sent item leaves the list.
SendAcked(i, ok) == IF ok THEN Without(items, i) ELSE Mark(i, "sendFailed")

\* handle_media_send_ack; an unknown transaction is not an image's.
ImageAcked ==
    /\ events # <<>>
    /\ Head(events).op = "image"
    /\ LET e == Head(events) IN
       IF e.txn \in DOMAIN sends
       THEN /\ items' = SendAcked(sends[e.txn], e.ok)
            /\ sends' = Without(sends, e.txn)
       ELSE UNCHANGED <<items, sends>>
    /\ events' = Tail(events)
    /\ UNCHANGED <<staged, texts, selected, offered, nextTxn, autoTxn, uploads,
                   runtimeVars, turns, retries, lost, reused>>

TextAcked ==
    /\ events # <<>>
    /\ Head(events).op = "text"
    /\ texts' = texts \ {Head(events).txn}
    /\ events' = Tail(events)
    /\ UNCHANGED <<staged, items, selected, offered, txnVars, runtimeVars,
                   turns, retries, lost, reused>>

\* clear_authenticated_data keeps the outgoing items and the attachment.
LoggedOut ==
    /\ events # <<>>
    /\ Head(events).op = "logout"
    /\ texts' = {}
    /\ selected' = FALSE
    /\ events' = Tail(events)
    /\ UNCHANGED <<staged, items, offered, txnVars, runtimeVars,
                   turns, retries, lost, reused>>

\* Media downloads take ids of the static counter: one after the other.
Downloads ==
    /\ selected
    /\ turns < MaxTurns /\ turns' = turns + 1
    /\ autoTxn' \in (autoTxn + 1)..MaxTxn
    /\ UNCHANGED <<uiVars, nextTxn, uploads, sends, runtimeVars, events,
                   retries, lost, reused>>

HandleEvent == UploadAcked \/ ImageAcked \/ TextAcked \/ LoggedOut

Next ==
    \/ SelectRoom \/ PickAttachment \/ ClearAttachment
    \/ \E readable \in BOOLEAN : SendAttachment(readable)
    \/ SendText
    \/ \E i \in Items : Retry(i) \/ Remove(i)
    \/ Draw \/ Logout
    \/ Execute \/ ExecuteLogout \/ Login
    \/ UploadAcked \/ ImageAcked \/ TextAcked \/ LoggedOut
    \/ Downloads

\* The runtime takes commands and the event worker events: both are loops of
\* tasks that always run.
Fairness == WF_vars(Execute \/ ExecuteLogout) /\ WF_vars(HandleEvent)

Spec == Init /\ [][Next]_vars /\ Fairness

-----------------------------------------------------------------------------
(* Properties.                                                             *)

TypeOK ==
    /\ nextTxn \in 1..(MaxTxn + 1) /\ autoTxn \in 1..(2 * MaxTxn + 1)
    /\ DOMAIN items \subseteq Items
    /\ \A i \in DOMAIN items : items[i] \in [status : Statuses, source : BOOLEAN]
    /\ \A i \in DOMAIN items :
          items[i].status \in {"sending", "sendFailed"} => items[i].source
    /\ texts \subseteq 1..MaxTxn /\ offered \subseteq Items
    /\ uploads \in [DOMAIN uploads -> Items] /\ DOMAIN uploads \subseteq 1..MaxTxn
    /\ sends \in [DOMAIN sends -> Items]
    /\ {staged, selected, signedIn} \subseteq BOOLEAN
    /\ Len(events) <= Capacity

\* Will some answer about transaction txn still be handled?
Pending(op, txn) ==
    \/ \E c \in Range(commands) : c.op = op /\ c.txn = txn
    \/ \E e \in Range(events) : e.op = op /\ e.txn = txn

\* A row that says it is uploading or sending, which offers no retry, has an
\* upload or a send under way whose answer will find it.  Two things break
\* it: an answer the event stream dropped, and a transaction id that the two
\* counters gave to two sends at once.
InFlightIsAwaited ==
    \A i \in DOMAIN items \ (lost \cup reused) :
        /\ items[i].status = "uploading" =>
              \E t \in DOMAIN uploads : uploads[t] = i /\ Pending("upload", t)
        /\ items[i].status = "sending" =>
              \E t \in DOMAIN sends : sends[t] = i /\ Pending("image", t)

\* An item is posted at most once for the send button and once for each
\* retry, whatever order the answers come in.
PostsWereAskedFor == \A i \in Items : posted[i] <= 1 + retries[i]

\* Only the user and a send that reached the server take an item off the
\* list, unless its transaction id was another item's too.
ListedUntilPosted ==
    [][\A i \in DOMAIN items \ DOMAIN items' :
          \/ Remove(i)
          \/ posted[i] > 0
          \/ i \in reused]_vars

\* No row says for ever that it is under way.  The user's ids are bounded, so
\* this is said of all rows at once: again and again none is.
InFlight(i) == i \in DOMAIN items /\ items[i].status \in {"uploading", "sending"}
EveryTryEnds == []<>(\A i \in Items : InFlight(i) => i \in lost \cup reused)
=============================================================================
