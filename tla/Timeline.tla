------------------------------ MODULE Timeline ------------------------------
(***************************************************************************)
(* One room's timeline on its way from the server to the screen.           *)
(*                                                                         *)
(* The sync task turns sync responses into deltas and remembers a          *)
(* signature of every event it has shown (backend-matrix lib.rs,           *)
(* timeline_ops_for_sync_events); after room keys it reads the newest page *)
(* again (timeline_update_ops_for_refresh_events).  The runtime turns      *)
(* pages of history, own edits and own redactions into deltas, some time   *)
(* after the server answered.  The frontend adapter applies every delta to *)
(* a bounded TimelineBuffer and sends the delta and a snapshot on; the     *)
(* desktop applies both to what it shows (state.rs).  Both broadcast       *)
(* streams drop what a slow receiver has not read.                         *)
(*                                                                         *)
(* An event's id is its place in the room's log.  A body is the id of the  *)
(* edit that wrote it, 0 for the original.  The log only grows, so what a  *)
(* server answered is what the log said at some length.                    *)
(***************************************************************************)
EXTENDS Naturals, Sequences, SequencesExt, FiniteSets

CONSTANTS MaxEvents,    \* events the room may get
          OpenLimit,    \* open_room_limit: events of the first page
          PageLimit,    \* events of a page of history
          RefreshLimit, \* ROOM_KEY_REFRESH_EVENT_LIMIT
          MaxItems,     \* timeline_max_items
          Capacity,     \* of the desktop's event stream
          Sealable,     \* events that may be sealed
          MaxTurns,     \* commands, sync restarts, logouts and lost deltas
          None          \* nothing under way

ASSUME TimelineAssumption ==
    /\ {MaxEvents, OpenLimit, PageLimit, RefreshLimit, MaxItems, Capacity} \subseteq Nat \ {0}
    /\ Sealable \subseteq 1..MaxEvents
    /\ MaxTurns \in Nat

VARIABLES
    log,        \* the room on the server
    keys,       \* has the client the keys of sealed events?
    synced,     \* how much of the log the sync task has seen
    signatures, \* room_event_signatures: what the sync task believes is shown
    refreshing, \* the last sync response had room keys; the page is not read yet
    reply,      \* what the server answered the runtime, not emitted yet
    token,      \* pagination_tokens: history before it is not loaded; 0: none
    buffer,     \* the adapter's TimelineBuffer
    stream,     \* adapter events the desktop has not handled
    view,       \* the desktop's timeline
    spoilt,     \* ids a known weakness of the protocol touched
    faults,     \* weaknesses that touch the order of the whole timeline
    turns

serverVars == <<log>>
syncVars == <<keys, synced, signatures, refreshing>>
runtimeVars == <<reply, token>>
adapterVars == <<buffer, stream, spoilt, faults>>
vars == <<serverVars, syncVars, runtimeVars, adapterVars, view, turns>>

Ids == 1..MaxEvents
Event == [type : {"message", "edit", "redaction"}, of : 0..MaxEvents,
          sealed : BOOLEAN]
Item == [id : Ids, sealed : BOOLEAN, body : 0..MaxEvents]
Signature == [sealed : BOOLEAN, body : 0..MaxEvents]
Op(kind, id, sealed, body) ==
    [op |-> kind, item |-> [id |-> id, sealed |-> sealed, body |-> body]]
Clear == Op("clear", 0, FALSE, 0)
SignatureOf(item) == [sealed |-> item.sealed, body |-> item.body]

Newest(n, size) == IF n > size THEN n - size ELSE 0

\* The k-th smallest of a set of numbers.
Nth(set, k) == CHOOSE n \in set : Cardinality({m \in set : m <= n}) = k

\* What a loop over s makes of base: run is where it stands after each element.
Loop(Step(_, _), base, s) ==
    LET run[k \in 0..Len(s)] == IF k = 0 THEN base ELSE Step(run[k - 1], s[k])
    IN  run[Len(s)]

-----------------------------------------------------------------------------
(* Events to operations.                                                   *)

\* Did the log say at length n that event i is redacted?
Redacted(i, n) == \E j \in 1..n : log[j].type = "redaction" /\ log[j].of = i

\* The operation of event i as served at length n: a redaction or an edit of
\* another event, an item, or none for a redacted, pruned message.
OpOf(i, n, readable, insert) ==
    LET e == log[i] IN
    IF e.type = "redaction" THEN Op("remove", e.of, FALSE, 0)
    ELSE IF e.sealed /\ (~readable \/ Redacted(i, n)) THEN Op(insert, i, TRUE, 0)
    ELSE IF Redacted(i, n) THEN Op("none", i, FALSE, 0)
    ELSE IF e.type = "edit" THEN Op("update", e.of, FALSE, i)
    ELSE Op(insert, i, FALSE, 0)

\* The operations of the events after from, up to to.
Between(from, to, n, readable, insert) ==
    LET shown == {i \in (from + 1)..to : OpOf(i, n, readable, insert).op # "none"} IN
    [k \in 1..Cardinality(shown) |-> OpOf(Nth(shown, k), n, readable, insert)]

Forget(sigs, id) == [i \in DOMAIN sigs \ {id} |-> sigs[i]]
Remember(sigs, id, sig) ==
    [i \in DOMAIN sigs \cup {id} |-> IF i = id THEN sig ELSE sigs[i]]

\* How an item that differs from its signature is brought up to date.
Amend(sig, item) ==
    [op |-> IF sig.sealed = item.sealed THEN "update" ELSE "replace",
     item |-> item]

\* Mutant: an edit of an event without a signature is dropped.
SyncKnownOnly(acc, op) ==
    LET id == op.item.id
        sigs == acc.sigs
        known == id \in DOMAIN sigs
        Emit(new, o) == [sigs |-> new, ops |-> Append(acc.ops, o)] IN
    CASE op.op = "append" /\ known -> acc
      [] op.op = "append" /\ ~known ->
            Emit(Remember(sigs, id, SignatureOf(op.item)), op)
      [] op.op = "update" /\ ~known -> acc
      [] op.op = "update" /\ known -> Emit([sigs EXCEPT ![id].body = op.item.body], op)
      [] op.op = "remove" -> Emit(Forget(sigs, id), op)

\* One event of a sync response: acc is the signatures and the operations.
SyncOp(acc, op) ==
    LET id == op.item.id
        sigs == acc.sigs
        known == id \in DOMAIN sigs
        Emit(new, o) == [sigs |-> new, ops |-> Append(acc.ops, o)] IN
    CASE op.op = "append" /\ known /\ sigs[id] = SignatureOf(op.item) -> acc
      [] op.op = "append" /\ known /\ sigs[id] # SignatureOf(op.item) ->
            Emit(Remember(sigs, id, SignatureOf(op.item)), Amend(sigs[id], op.item))
      [] op.op = "append" /\ ~known ->
            Emit(Remember(sigs, id, SignatureOf(op.item)), op)
      [] op.op = "update" ->
            Emit(Remember(sigs, id,
                     [sealed |-> known /\ sigs[id].sealed, body |-> op.item.body]), op)
      [] op.op = "remove" -> Emit(Forget(sigs, id), op)
SyncOps(acc, ops) == Loop(SyncOp, acc, ops)

\* One event of the page read after room keys: known events only.
RefreshOp(acc, op) ==
    LET id == op.item.id
        sigs == acc.sigs
        Emit(new, o) == [sigs |-> new, ops |-> Append(acc.ops, o)] IN
    CASE id \notin DOMAIN sigs -> acc
      [] id \in DOMAIN sigs /\ op.op = "append" /\ sigs[id] # SignatureOf(op.item) ->
            Emit(Remember(sigs, id, SignatureOf(op.item)), Amend(sigs[id], op.item))
      [] id \in DOMAIN sigs /\ op.op = "update" /\ sigs[id].body # op.item.body ->
            Emit([sigs EXCEPT ![id].body = op.item.body], op)
      [] id \in DOMAIN sigs /\ op.op = "remove" -> Emit(Forget(sigs, id), op)
      [] OTHER -> acc
RefreshOps(acc, ops) == Loop(RefreshOp, acc, ops)

-----------------------------------------------------------------------------
(* Operations on items.                                                    *)

Shows(items) == {items[k].id : k \in DOMAIN items}
Has(items, id) == \E k \in DOMAIN items : items[k].id = id
First(items, id) ==
    CHOOSE k \in DOMAIN items :
        items[k].id = id /\ \A l \in 1..(k - 1) : items[l].id # id

\* What apply_ops and apply_delta_lenient do with one operation.
Apply(items, op) ==
    LET item == op.item  k == First(items, item.id) IN
    CASE op.op = "append" -> Append(items, item)
      [] op.op = "prepend" -> <<item>> \o items
      [] op.op = "clear" -> <<>>
      [] op.op \in {"update", "replace", "remove"} /\ ~Has(items, item.id) -> items
      [] op.op = "update" /\ Has(items, item.id) -> [items EXCEPT ![k].body = item.body]
      [] op.op = "replace" /\ Has(items, item.id) -> [items EXCEPT ![k] = item]
      [] op.op = "remove" /\ Has(items, item.id) -> RemoveAt(items, k)
ApplyOps(items, ops) == Loop(Apply, items, ops)

\* trim_to_max: the newest items stay.
Trim(items) == SubSeq(items, Newest(Len(items), MaxItems) + 1, Len(items))

\* dedupe_and_trim: the last copy of each event, at most MaxItems.
DedupeAndTrim(items) ==
    LET last == {k \in DOMAIN items : \A l \in DOMAIN items :
                    items[l].id = items[k].id => l <= k} IN
    Trim([k \in 1..Cardinality(last) |-> items[Nth(last, k)]])

\* apply_delta_lenient, then dedupe_and_trim.
Shown(items, ops) == DedupeAndTrim(ApplyOps(items, ops))

-----------------------------------------------------------------------------
(* The adapter: relay of one delta, or its loss.                           *)

Delta(ops) == [kind |-> "delta", ops |-> ops, items |-> <<>>]
Snapshot(items) == [kind |-> "snapshot", ops |-> <<>>, items |-> items]
LoggedOut == [kind |-> "loggedOut", ops |-> <<>>, items |-> <<>>]

\* Mutant: a full channel drops the newest event.
SendUnlessFull(events, event) == IF Len(events) < Capacity THEN Append(events, event) ELSE events

\* A broadcast channel drops its oldest event for a receiver that lags.
Send(events, event) ==
    LET all == Append(events, event) IN
    SubSeq(all, Newest(Len(all), Capacity) + 1, Len(all))

Edits(i) == {j \in DOMAIN log : log[j].type = "edit" /\ log[j].of = i}

\* History: the id whose operation finds the buffer other than it supposes, an
\* event inserted twice, one to change or remove that is not there, a text newer
\* than the one it brings, or, in a page of history, the original of an event
\* whose edits have gone by; and the target of an edit that can only be shown as
\* a placeholder.
Mismatch(items, op) ==
    LET id == op.item.id
        insert == op.op \in {"append", "prepend"}
        older == op.op \in {"update", "replace"} /\ Has(items, id)
                 /\ op.item.body < items[First(items, id)].body
        edited == op.op = "prepend" /\ \E j \in Edits(id) : j <= synced IN
    (IF op.op # "clear" /\ (older \/ edited \/ (insert <=> Has(items, id))) THEN {id} ELSE {})
    \cup (IF insert /\ log[id].type = "edit" THEN {log[id].of} ELSE {})

\* Mutant: the buffer is never trimmed.
RelayUntrimmed(acc, op) == [acc EXCEPT !.items = Apply(acc.items, op)]

\* apply_timeline_ops_lenient: one operation at a time, trimmed after each.
\* History: the events that trimming took.
RelayOp(acc, op) ==
    LET all == Apply(acc.items, op) IN
    [items |-> Trim(all),
     spoilt |-> acc.spoilt \cup Mismatch(acc.items, op),
     dropped |-> acc.dropped \cup (Shows(all) \ Shows(Trim(all)))]
RelayOps(acc, ops) == Loop(RelayOp, acc, ops)

IdsOf(ops) == {ops[k].item.id : k \in DOMAIN ops} \ {0}

\* The bound on commands, restarts, logouts and losses.
Turn ==
    /\ turns < MaxTurns
    /\ turns' = turns + 1

\* History: no page of history brings again what is above the token; without a
\* token the next page is wrapped.
Passed(at) == IF at = 0 THEN MaxEvents ELSE at

Relay(ops, touched, more, passed) ==
    LET start == [items |-> buffer, spoilt |-> spoilt \cup touched, dropped |-> {}] IN
    /\ \E done \in {RelayOps(start, ops)} :
          /\ buffer' = done.items
          /\ spoilt' = done.spoilt
          /\ faults' = (faults \ {"silent"}) \cup more \cup
                (IF \E i \in done.dropped : i > passed THEN {"trimmed"} ELSE {})
    /\ stream' = Send(Send(stream, Delta(ops)), Snapshot(buffer'))
    /\ UNCHANGED turns

Lose(ops, touched) ==
    /\ Turn
    /\ spoilt' = spoilt \cup touched \cup IdsOf(ops) \cup
          (IF Clear \in Range(ops) THEN {buffer[k].id : k \in DOMAIN buffer} ELSE {})
    /\ faults' = faults \cup {"lost"}
    /\ UNCHANGED <<buffer, stream>>

\* A delta without operations is not sent by the sync task.
Emit(ops, touched, more, passed) ==
    Relay(ops, touched, more, passed) \/ Lose(ops, touched)
Emitted(ops, touched, more) ==
    IF ops # <<>> THEN Emit(ops, touched, more, Passed(token))
    ELSE /\ spoilt' = spoilt \cup touched
         /\ faults' = faults \cup more
         /\ UNCHANGED <<buffer, stream, turns>>

-----------------------------------------------------------------------------
(* The server: other members, and the commands of this one.                *)

Init ==
    /\ log = <<>> /\ keys = FALSE /\ synced = 0 /\ signatures = <<>>
    /\ refreshing = FALSE /\ reply = None /\ token = 0
    /\ buffer = <<>> /\ stream = <<>> /\ view = <<>>
    /\ spoilt = {} /\ faults = {} /\ turns = 0

\* Messages not redacted: the ones to show, to edit, to redact.
Messages == {i \in DOMAIN log : log[i].type = "message" /\ ~Redacted(i, Len(log))}

Accept(type, of, sealed) ==
    /\ Len(log) < MaxEvents
    /\ log' = Append(log, [type |-> type, of |-> of, sealed |-> sealed])

Post ==
    /\ \E sealed \in BOOLEAN :
       /\ sealed => Len(log) + 1 \in Sealable
       /\ \/ Accept("message", 0, sealed)
          \/ \E i \in Messages : Accept("edit", i, sealed)
          \/ \E i \in Messages : ~sealed /\ Accept("redaction", i, FALSE)
    /\ UNCHANGED <<syncVars, runtimeVars, adapterVars, view, turns>>

-----------------------------------------------------------------------------
(* The sync task.                                                          *)

\* A response holds the events after from; it is limited when it skips some,
\* and the task forgets what it has shown.  It may bring room keys.
SyncBatch(from, to, withKeys) ==
    LET limited == from > synced
        start == [sigs |-> IF limited THEN <<>> ELSE signatures,
                  ops |-> IF limited THEN <<Clear>> ELSE <<>>]
        events == Between(from, to, to, keys \/ withKeys, "append")
        skipped == {log[k].of : k \in (synced + 1)..from} \ {0} IN
    /\ ~refreshing
    /\ limited => to > from
    /\ withKeys => ~keys
    /\ to > synced \/ withKeys
    /\ keys' = (keys \/ withKeys)
    /\ synced' = to
    /\ refreshing' = withKeys
    /\ \E done \in {SyncOps(start, events)} :
          /\ signatures' = done.sigs
          /\ Emitted(done.ops, skipped, IF limited /\ token # 0 THEN {"gap"} ELSE {})
    /\ UNCHANGED <<serverVars, runtimeVars, view>>

\* The newest page, newest event first, read after room keys came.
RefreshPage(at) ==
    Reverse(Between(Newest(at, RefreshLimit), at, at, keys, "append"))

Refresh(at) ==
    /\ refreshing
    /\ refreshing' = FALSE
    /\ \E done \in {RefreshOps([sigs |-> signatures, ops |-> <<>>], RefreshPage(at))} :
          /\ signatures' = done.sigs
          /\ Emitted(done.ops, {}, {})
    /\ UNCHANGED <<serverVars, keys, synced, runtimeVars, view>>

\* The page cannot be read: it is not tried again.
RefreshFails ==
    /\ refreshing
    /\ refreshing' = FALSE
    /\ UNCHANGED <<serverVars, keys, synced, signatures, runtimeVars, adapterVars, view,
                   turns>>

\* A new sync task has no token and no signatures.
SyncRestarts ==
    /\ ~refreshing
    /\ Turn
    /\ signatures' = <<>> /\ synced' = 0
    /\ UNCHANGED <<serverVars, keys, refreshing, runtimeVars, buffer, stream, spoilt,
                   faults, view>>

-----------------------------------------------------------------------------
(* The runtime: one command at a time; the answer is emitted later.        *)

Answered(kind, from, to, of, at) ==
    /\ reply = None
    /\ Turn
    /\ reply' = [kind |-> kind, from |-> from, to |-> to, of |-> of, at |-> at,
                 readable |-> keys]

OpenRoom ==
    /\ Answered("open", Newest(Len(log), OpenLimit), Len(log), 0, Len(log))
    /\ UNCHANGED <<serverVars, syncVars, token, adapterVars, view>>

\* Mutant: history goes on one event too far back.
PaginateTooFar ==
    /\ LET to == IF token = 0 THEN Len(log) ELSE token - 1 IN
       Answered("paginate", Newest(to, PageLimit), to, 0, Len(log))
    /\ UNCHANGED <<serverVars, syncVars, token, adapterVars, view>>

\* Without a token the page is the newest one.
PaginateBack ==
    /\ LET to == IF token = 0 THEN Len(log) ELSE token IN
       Answered("paginate", Newest(to, PageLimit), to, 0, Len(log))
    /\ UNCHANGED <<serverVars, syncVars, token, adapterVars, view>>

OwnEdit ==
    /\ \E i \in Messages :
          /\ Accept("edit", i, FALSE)
          /\ Answered("edit", 0, 0, i, Len(log'))
    /\ UNCHANGED <<syncVars, token, adapterVars, view>>

OwnRedact ==
    /\ \E i \in Messages :
          /\ Accept("redaction", i, FALSE)
          /\ Answered("redact", 0, 0, i, Len(log'))
    /\ UNCHANGED <<syncVars, token, adapterVars, view>>

\* Mutant: a page of history is prepended oldest event first.
ReplyOpsInOrder ==
    LET page(insert) == Between(reply.from, reply.to, reply.at, reply.readable,
                                insert) IN
    CASE reply.kind = "open" -> page("append")
      [] reply.kind = "paginate" -> page("prepend")
      [] reply.kind = "edit" -> <<Op("update", reply.of, FALSE, reply.at)>>
      [] reply.kind = "redact" -> <<Op("remove", reply.of, FALSE, 0)>>

ReplyOps ==
    LET page(insert) == Between(reply.from, reply.to, reply.at, reply.readable,
                                insert) IN
    CASE reply.kind = "open" -> page("append")
      [] reply.kind = "paginate" -> Reverse(page("prepend"))
      [] reply.kind = "edit" -> <<Op("update", reply.of, FALSE, reply.at)>>
      [] reply.kind = "redact" -> <<Op("remove", reply.of, FALSE, 0)>>

EmitReply ==
    LET late == reply.at < synced IN
    /\ reply # None
    /\ token' = IF reply.kind \in {"open", "paginate"} THEN reply.from ELSE token
    /\ \E ops \in {ReplyOps} :
          Emit(ops, IF late THEN IdsOf(ops) ELSE {},
               IF reply.kind = "open" /\ late THEN {"late"}
               ELSE IF reply.kind = "paginate" /\ reply.to = reply.at THEN {"wrapped"}
               ELSE {},
               IF reply.kind = "paginate" THEN reply.from ELSE Passed(token'))
    /\ reply' = None
    /\ UNCHANGED <<serverVars, syncVars, view>>

\* The sync task is joined; the keys and tokens go, the adapter's buffer stays.
Logout ==
    /\ reply = None /\ ~refreshing
    /\ Turn
    /\ keys' = FALSE /\ signatures' = <<>> /\ synced' = 0 /\ token' = 0
    /\ stream' = Send(stream, LoggedOut)
    /\ faults' = faults \cup {"silent"}
    /\ UNCHANGED <<serverVars, refreshing, reply, buffer, spoilt, view>>

-----------------------------------------------------------------------------
(* The desktop: one event of its stream.                                   *)

HandleEvent ==
    /\ stream # <<>>
    /\ LET event == Head(stream) IN
       view' = CASE event.kind = "delta" -> Shown(view, event.ops)
                 [] event.kind = "snapshot" -> DedupeAndTrim(event.items)
                 [] event.kind = "loggedOut" -> <<>>
    /\ stream' = Tail(stream)
    /\ UNCHANGED <<serverVars, syncVars, runtimeVars, buffer, spoilt, faults, turns>>

Next ==
    \/ Post
    \/ \E from, to \in synced..Len(log), withKeys \in BOOLEAN :
          from <= to /\ SyncBatch(from, to, withKeys)
    \/ \E at \in synced..Len(log) : Refresh(at)
    \/ RefreshFails
    \/ SyncRestarts
    \/ OpenRoom
    \/ PaginateBack
    \/ OwnEdit
    \/ OwnRedact
    \/ EmitReply
    \/ Logout
    \/ HandleEvent

Spec == Init /\ [][Next]_vars

-----------------------------------------------------------------------------
(* Properties.                                                             *)

TypeOK ==
    /\ log \in Seq(Event) /\ Len(log) <= MaxEvents
    /\ keys \in BOOLEAN /\ refreshing \in BOOLEAN
    /\ synced \in 0..Len(log)
    /\ DOMAIN signatures \subseteq Ids
    /\ \A i \in DOMAIN signatures : signatures[i] \in Signature
    /\ token \in 0..Len(log)
    /\ buffer \in Seq(Item) /\ Len(buffer) <= MaxItems
    /\ view \in Seq(Item) /\ Len(view) <= MaxItems
    /\ Len(stream) <= Capacity
    /\ spoilt \subseteq Ids
    /\ faults \subseteq {"lost", "late", "wrapped", "gap", "trimmed", "silent"}
    /\ turns \in 0..MaxTurns

\* Everything that happened has reached the desktop.
Quiet == stream = <<>> /\ synced = Len(log) /\ reply = None /\ ~refreshing

\* However many events the desktop's slow receiver skipped, once it has read
\* the rest it shows the adapter's buffer, or nothing since a logout.
ViewFollowsBuffer ==
    stream = <<>> => \/ view = DedupeAndTrim(buffer)
                     \/ "silent" \in faults /\ view = <<>>

\* None of the weaknesses that touch the order of a whole timeline was met: no
\* delta was lost, no newest page came after a sync response it was older than
\* (late) or was prepended for want of a token (wrapped), no limited sync left
\* the pagination token behind a gap, and no full buffer dropped an event that
\* the token had passed (trimmed).
InStep == faults \subseteq {"silent"}

\* Messages not redacted are shown in the room's order, unless the timeline fell
\* out of step.
ShownInOrder ==
    Quiet /\ InStep =>
        \A k, l \in DOMAIN view :
            k < l /\ {view[k].id, view[l].id} \subseteq Messages
            => view[k].id < view[l].id

\* Every readable message shown is one that is not redacted, with the text of
\* its last edit, unless one of the named weaknesses touched it: its operation
\* was lost or late, found it twice in the buffer or not there, fell in a
\* limited sync's gap, was undone by the refresh after room keys, it came again
\* by a page of history after its edits, or it has an edit that arrived sealed.
ShownRight ==
    Quiet => \A k \in DOMAIN view :
        LET i == view[k].id IN
        ~view[k].sealed /\ i \notin spoilt /\ (\A j \in Edits(i) : ~log[j].sealed) =>
            /\ i \in Messages
            /\ view[k].body \in Edits(i) \cup {0}
            /\ \A j \in Edits(i) : j <= view[k].body

\* Nothing is missing between the oldest message shown and the newest, unless
\* the timeline fell out of step.
HistoryConnected ==
    Quiet /\ InStep =>
        \A k \in DOMAIN view, i \in Messages :
            view[k].id < i => Has(view, i)
=============================================================================
