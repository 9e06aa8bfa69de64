# PikaChat: models, checks and proofs

A TLA+ development kept beside PikaChat, a Matrix client in Rust: a backend
runtime (`crates/backend-matrix`), its protocol types (`crates/backend-core`), a
secret store (`crates/backend-platform`) and a Slint desktop app
(`apps/pikachat-desktop`). Every definition is translated from the source; the
`map` of `PROJECT.json` names the lines. The Matrix SDK, the homeserver and the
operating system's keyring and file system are outside and appear as choices
among the answers the code is written to take.

## 1. Inventory

`lib.rs` is `crates/backend-matrix/src/lib.rs`; the desktop files are in
`apps/pikachat-desktop/src`.

| Component | State | Operations |
|---|---|---|
| Lifecycle state machine (`state_machine.rs`) | one lifecycle state | `apply(command)`, `on_auth_result`, `on_fatal` (never called by the runtime) |
| Runtime (`lib.rs` 1237-2855) | state machine, backend, init state, pagination tokens, tuning | one handler per command, taken one at a time from a queue |
| Sync task (`lib.rs` 222-385) | slot with task and stop token | spawn, poll, process a batch, back off, stop, die |
| Timeline mapping and buffer (`lib.rs` 3177-3652, `timeline.rs`) | signatures of rooms, undecrypted events, capped item list | deltas of a batch, refresh after room keys, `apply_ops`, trim |
| Retry policy, error classes (`retry.rs`, `error.rs`, `normalization.rs`) | none | delay of an attempt, category of an SDK error |
| Channels, frontend adapter (`channel.rs`, `lib.rs` 930-1198) | command mpsc (128), event broadcast (512), adapter queue, timeline snapshots | enqueue, cancel, flush one, flush all, relay, shutdown |
| Local persistence (`lib.rs` 2665-2836, 3000-3117; `backend-platform`) | passphrase file, keyring secrets, device-id hint, store directory | get or create passphrase, persist and clear session, wipe |
| Desktop sign-in (`bridge.rs` 91-528, `auth_profile.rs`, `config.rs`) | auth intent, auth profile file, login pane | submit login, restore at startup, confirm logout, event worker |
| Media outbox and downloads (`bridge.rs` 531-847, 1385-1598) | maps from transaction ids to items, pending outgoing items | pick, send, retry, remove, acks |
| Desktop state reducer (`state.rs`) | rooms, timelines, pending sends and invites, pagination tracker, security dialog | `handle_backend_event` and the interface's requests |
| Media cache (`media_cache.rs`) | files in LRU order, total size | insert, evict, lookup |
| GIF playback (`gif_player.rs`) | decoded images, active rows | visible ping, tick, eviction |
| Interface, logging (`main.rs`, `ui/`, `logging.rs`) | the drawn snapshot, retry buttons, attached GIFs | callbacks, drawing, tick |
| Smoke test (`backend-smoke/src/main.rs`) | none | a script over the adapter |

**Interaction.** The interface thread calls the bridge. The bridge changes
`DesktopState` under a lock, posts a snapshot and sends commands to an unbounded
queue; a command worker forwards them through the adapter to the runtime's
queue. The runtime handles one command at a time and emits events to a broadcast
channel. The sync task is a concurrent task that emits into the same channel.
The adapter relays events into timeline snapshots and to its subscribers; the
bridge's event worker turns each into files, follow-up commands, a reduced state
and a snapshot, which the interface draws later.

**What is hard.** Between two awaits of a handler the sync task moves; a
cancelled task may still answer a batch or die; logins time out, are retried,
excused by a session that an earlier attempt left behind or recovered by wiping
the store; wipes fail half-way; the process may stop between any two writes; the
interface and the event worker share one intent slot and the login pane, and act
on queues that hold commands from before. A page of history, the deltas of the
sync task and those of an own edit reach one list in an order that no one
chooses. Every broadcast receiver that lags loses its oldest events without
notice, and with them an answer. Two counters hand out transaction ids that may
collide. A file, an index and the memory of what is in them change one after the
other and any of them may fail.

**What makes each part correct.**
- State machine and runtime: an announced session is a usable one; each command
  that promises an answer has exactly one; nothing of a session survives into
  the next; logout is announced only when it has happened.
- Sync task: it lives in the session that started it, its last word is heard
  before the session ends, nobody waits for it forever.
- Timeline: the desktop shows what the adapter's buffer holds, each event once, in
  order, in its latest edit and without holes; trimming loses only what it must.
- Adapter: none of the commands is lost, runs twice or runs after it was
  cancelled, and how far one overtakes another is bounded.
- Local persistence: the key of a store that exists is never lost, a stored
  session has its store, a failed wipe can be repeated.
- Desktop sign-in: no form stays locked, no intent outlives its answer, the pane
  tells whether there is a session, logout leaves nothing to restore.
- Outbox: each upload and each send is settled once and by its own ack, an image
  is posted as often as the user asked, and leaves the list when it is posted.
- Reducer: whatever is disabled until an answer comes gets one; the recovery key
  shown is the one that works, and stays. Caches: within their limits and never
  pointing at a deleted file.

The hazards at their lines are listed in `PROJECT.json`.

## 2. Modules

`StateMachine` — `state_machine.rs` as operators: `Accepts(state, command)`,
`Target(state, command)`, `AfterAuth(state, success)`. The runtime applies a
command to a clone and commits the clone later, hence the two operators. The
room, timeline, media and recovery commands share one arm of `apply`; they are
represented by four command classes that differ in the runtime.

`SessionService` — the abstract promise to a frontend in three variables: the
phase announced last, who is signed in, and whether a live feed of sync events
may exist. Accounts change only through an authentication, the feed opens once
per session, and a session is announced as over only when the feed is silent.

`Runtime` — the runtime and the sync task as two processes. `pc` is the await at
which a handler is suspended, `sync` the point where the task is; a handler
without an await of consequence is one step. `client` is the session of the
installed SDK client, `keyring` the session persisted per homeserver, which
alone survives `Restart`. Login is followed through rate-limited attempts
(`LoginRateLimited`), time-outs and late sessions (`LateSession`: a dropped
future or a failing call may have installed the session all the same), the
fallback to an existing session (`LoginFallsBack`), the store recovery
(`LoginFindsMismatch`, `RecoverSucceeds`, `RecoverFails`) and the persistence of
the session (`FinalizeSucceeds`, `FinalizeFails`). Logout stops the sync task,
ignores the remote error and wipes; the wipe may fail before or after the stored
session is gone.

`DesktopSession` — sign-in and logout of the desktop app: interface thread,
runtime, event worker and drawing as four actors around two queues. The runtime
is that of module `Runtime` at the granularity of commands. `submit_login` is
three steps, since it takes two locks one after the other and then sends; the
event worker's handling of an event is cut at each lock. `form` is the reducer's
login pane, `posted` the snapshot posted last, `screen` the one drawn. Files may
fail; the process may restart.

`LocalStore` — what the runtime keeps for one homeserver outside its memory:
per data directory the passphrase file (`file`), the SDK's encrypted store
(`store`: its passphrase and the device in it) and the device-id hint (`hint`);
in the keyring one passphrase (`secret`) and one session (`session`) shared by
all directories. `pc` is the next write of the handler in `task`: the passphrase
file is created, then filled, then the store is opened; a login puts a device
into the store, then the session is saved and the hint written; a wipe deletes
session, secret, hint and directory in that order, for a logout or for the
recovery from a store mismatch, which then opens the directory anew and tries
the login once more. Each write may fail and `Restart` may come between any two.
`home` and `damaged` are history: the directory a session was saved from, and the
directories half removed since they were last opened. `Runtime` has the same
handlers with their awaits and answers, and only the session of the keyring.

`Timeline` — one room from the server to the screen. `log` is the room on the
server, an event's id its place in it, a body the id of the edit that wrote it.
Three parties turn it into operations: the sync task (`SyncBatch`, with its
`signatures` of what it believes is shown, and `Refresh` after room keys), the
runtime (`OpenRoom`, `PaginateBack`, `OwnEdit`, `OwnRedact`: the server answers
into `reply`, `EmitReply` comes later), and nobody orders them. `Relay` is the
adapter: it applies a delta to its `buffer` and sends the delta and a snapshot
into `stream`, from which a slow desktop loses the oldest (`Send`); `Lose` is
the adapter's own lagging receiver. `HandleEvent` is the desktop's reducer. The
loops over events and operations are one operator, `Loop`, with the step of each
as its parameter (`SyncOps`, `RefreshOps`, `ApplyOps`, `RelayOps`), which makes
them recursive functions that can be reasoned about; `Between` lists the events
of a stretch by their numbers for the same reason.

`FrontendAdapter`, `RelaxedQueue` — the command side of the adapter. A flush
pops a command under the queue's lock and sends it after the lock is gone, so
`hand` holds what is neither queued nor sent. `RelaxedQueue` is the promise: a
queue in which a command overtakes fewer than `K` that wait; the adapter
implements it with `K` the number of its callers.

`Outbox` — images on their way out: the interface thread (`SendAttachment`,
`Retry`, `Remove`), the runtime (`Execute`) and the event worker (`UploadAcked`,
`ImageAcked`) over `uploads` and `sends`, the two maps from transactions to
items, with the two counters `nextTxn` and `autoTxn` that share a prefix.

`MediaRows` — images of the selected room: `Lazy`, the check at the end of every
event for images to fetch, the answers, the disk cache with its saved index and
each way it can fail half-way (`HalfInserted`), what start-up makes of it
(`Reopened`), and the GIF rows that play (`Draw`, `Ping`, `Tick`).

`Panels` — invites, page requests and the identity-backup dialog: what the
desktop shows while it waits. A command first takes effect (`ExecuteMaker` and
its kin) and is answered later (`Finish`); the sync task, the user and the event
worker act in between. `drawn` is what the screen, or a snapshot it has not drawn
yet, still offers, whatever the state is by then (`Draw`).

`RetryPolicy` — pure: the category of an SDK error, whether the sync loop goes
on, and the delay before it or a login asks again. `Runtime` has the loops.

`RuntimeProofs`, `DesktopSessionProofs`, `LocalStoreProofs`, `TimelineProofs`,
`FrontendAdapterProofs`, `OutboxProofs`, `MediaRowsProofs`, `PanelsProofs` —
theorems about the module of that name; those about `RetryPolicy` are in
`RuntimeProofs`.

`MCRuntime`, `MCDesktopSession`, `MCLocalStore`, `MCTimeline`,
`MCFrontendAdapter`, `MCOutbox`, `MCMediaRows`, `MCPanels` — the instances TLC
checks, with the sentences of the documentation that the code does not keep.
`MCRuntime` also compares the delays of `RetryPolicy` with repeated doubling, for
every attempt up to 30 (`DelaysDouble`).

Several modules carry variables the code has not: `spoilt` and `faults`
(`Timeline`), `posted`, `retries`,
`lost` and `reused` (`Outbox`), `gone`, `orphans` and `full`
(`MediaRows`), `strayed`, `shownAt`, `broken` and `mistaken` (`Panels`). No guard
reads them. Each names a known weakness at the step where it strikes, and what it
strikes, so that a property can exempt that and nothing else.

Definitions preceded by "Mutant:" are plausible bugs, used to see that a
property would notice them; no specification refers to them.

## 3. Runs

| Run | Shows | States |
|---|---|---|
| `runtime` | all properties of `Runtime`, the refinement of `SessionService`, termination of each command | 73 thousand |
| `desktop_session` | all properties of `DesktopSession` | 262 thousand |
| `local_store` | all properties of `LocalStore` | 440 thousand, up to symmetry |
| `timeline` | all properties of `Timeline` | 1.6 million |
| `frontend_adapter` | that no command is lost, repeated or stuck, and the refinement of `RelaxedQueue` | 53 thousand |
| `outbox` | all properties of `Outbox`, termination of each try | 1.1 million |
| `media_rows` | all properties of `MediaRows` | 867 thousand |
| `panels` | all properties of `Panels` | 4.4 million |
| `syncing_means_running` | *violated:* "Backend sync loop is running." (`types.rs:17`) | |
| `remember_honoured` | *violated:* "Remember password" (`README.md:136`) when a login is excused by an existing session | |
| `pane_hidden` | *violated:* "Hide login pane after successful authentication." (`state.rs:356`) | |
| `remembered` | *violated:* "Remember password" (`README.md:136`) when an intent is taken by another login's answer | |

**Properties of `Runtime`.** `SessionIsUsable`: Authenticated and Syncing have a
backend with a session, whatever path led there. `SyncStaysInSession`,
`StatusNotStale`: a sync task and the status it announced end with the session.
`StartSyncFindsFreeSlot`: nothing is left in the slot when StartSync is accepted,
so `sync_already_running` cannot be answered. `AnsweredOnce`: one answer per
login, restore and acked request, in agreement with the lifecycle.
`TokensStayInSession`: pagination tokens do not cross sessions. `LogoutForgets`:
a step to LoggedOut finds the stored session gone and the task silent.
`ImplementsService`: `Runtime` implements `SessionService` with
`phase <- lifecycle`, `who <-` the client's account while a session is announced,
`feed <- sync # "off"`. `CommandsFinish`: no handler hangs.

**Properties of `DesktopSession`.** `IntentIsAwaited`: a locked form or a pending
intent always has an AuthResult on its way. `SessionSyncs`: once the queues are
empty no session is left unsynced. `RoomViewHasSession`: the room view is not
shown without a session. `LogoutLeavesNothing`: after a logout neither profile
nor stored session is left, unless the profile could not be deleted.
`FormIsReleased`: a locked form is unlocked. What does *not* hold is the other
direction: a session may be running behind the login pane (`pane_hidden`).

**Properties of `LocalStore`.** `KeyOfStoreKept`: the passphrase of a store is
in its directory's file, whatever failed and whichever account of the homeserver
was logged out; the file alone is trusted, since the keyring's copy is shared,
overwritten when it cannot be read and deleted by any logout. The exception is a
directory whose removal stopped half-way: its file may be gone and its store
left, and no code repairs that. `SessionHasStore`: a persisted session has the
store of its device and the passphrase for it; a wipe that removed the directory
before the session would break it at a crash. `SignedInOwnsStore`: a client is
signed in only with the device of the store it has open, also when a login was
excused by an existing session, recovered, or restored from a session that was
saved in another directory. What the properties do not say: a store may be wiped
by its own account's next login, when the hint was not written (a crash before
it) or another account's persisted session takes precedence over it; and a
passphrase file that was created and not filled makes its directory unusable for
good (`PassphraseFails` is then the only step), although no store is lost in it.

**Properties of `Timeline`.** `ViewFollowsBuffer`: whatever the slow desktop
skipped, after the rest is read it shows the adapter's buffer, or nothing since a
logout. `ShownInOrder`, `ShownRight`, `HistoryConnected`: once all is quiet the
messages shown are in the room's order, not redacted, in their last edit, and
nothing is missing between them. These three hold only outside the weaknesses of
the protocol, which `faults` and `spoilt` name:
- A page or an own edit is answered and emitted later; a sync response may come
  in between, and the older answer is applied on top of the newer one (`late`).
- The newest page is read newest first after room keys: the edit of a message is
  applied before its original, which differs from the signature by then and
  reverts the text (`lib.rs` 3446-3506). Pages of history likewise bring edits
  before the messages they edit.
- `PaginateBack` without a token prepends the newest page (`wrapped`).
- A limited sync leaves the token where it was: between it and the events that
  are shown is a hole that no page fills (`gap`). What it skipped is not applied.
- A full buffer drops a page that is prepended at once, while the token moves
  past it; a new message may likewise push out of a full buffer one that is above
  the token, and a later redaction makes room that no page fills (`trimmed`).
  After a hole of either kind (`gap`, `trimmed`) the next page stands before
  newer messages, so that the order is no longer the room's either.
- A message that was trimmed, or cleared by a limited sync, comes again with a
  page of history in its original text when its edits have gone by: the page ends
  before them, and the sync task does not send them twice.
- The adapter's buffer takes an event twice (an opened room after its sync); the
  desktop removes the copies, but an edit reaches the first copy, and the last
  one is shown. The buffers survive a logout.
- An edit that arrives sealed is a placeholder of its own for ever.
- The adapter's own receiver lags and a delta is gone (`lost`).

**Properties of `FrontendAdapter`.** `EachCommandOnce`: a command is queued, in
one flush's hand, sent or withdrawn, in exactly one of these places and once.
`ImplementsQueue`: two flushers pop and send under different locks and so may
swap commands, but none overtakes more than the other callers hold.
`CommandsArrive`: with a `flush_all` after every enqueue none stays behind. A
flush that is dropped while it waits for room takes its command along.

**Properties of `Outbox`.** `InFlightIsAwaited`: a row that is uploading or
sending, and so offers no retry, has an answer coming that will find it.
`PostsWereAskedFor`: an item is posted once for the send button and once for each
retry at most. `ListedUntilPosted`: no item vanishes unposted. `EveryTryEnds`.
What these leave open is the code's: a retry of a failed upload does not change
the row, so that a second click posts the image twice; a removed item is sent all
the same; items and the staged attachment survive a logout and may go out in the
next account; a failed send that had reached the server is doubled by its retry,
since the transaction id is not passed on to it; and when the two counters meet,
one answer settles the other's item (`reused`).

**Properties of `MediaRows`.** `DownloadingIsAwaited`: as above. `ReadyHasFile`:
a row that is ready has its whole file, or its source is in `gone`: evicted for
another image while shown, wiped by a logout, torn by a second write that failed.
After a restart such a torn file is served as ready; after a logout every
download fails until the next start, since the cache's directory is not made
anew. `CacheBounded`: index and files within the capacity; an eviction that fails
leaves it exceeded until the next insert. `PlayingIsBounded`: at most the limit
of rows play, and none that is out of sight; a source that was evicted from the
decode cache comes back only when its row is attached again or chosen to play.

**Properties of `Panels`.** `NothingWaitsInVain`: an invite that is pending, a
page in flight and a restore under way each have an answer coming; the reverse
fails often: any delta of the room ends a page request, and any fatal error all
of them. `InviteAskedOnce`: no second request for a room is under way, unless
the room left the list in between (`strayed`); the first answer then frees the
second. `KeyShownWorks`: the recovery key shown opens the backup, unless a reset
or creation stopped half-way (the earlier key stays on the screen) or a logout is
on its way to the screen; a key marked
as copied is in the clipboard, unless another one took its place during the copy
(`mistaken`: the user then keeps a key that opens nothing). `KeyStaysShown`: a
trailing status does not take the key away; the answer of an earlier request
may, for instance the "already enabled" of a second click on "Backup Identity",
and so may a restore asked for on a prompt that was drawn before the key came:
`restore_identity` only asks whether a restore is in flight. The dialog says so
(`restoring`), and there is no other way.

**Bounds.** `Runtime`: two homeservers and two accounts, so that one session can
be mistaken for another; one room, since rooms do not interact in the tokens;
`MaxLoginRetries = 1` where the code has 3: both sides of the comparison occur,
before and after a recovery. The model is finite otherwise. `DesktopSession`: one
account with both choices of "Remember password" (no property compares accounts,
they would only multiply states); `QueueRoom = 1`, the user acts while at most
one command or event is under way, enough for a second login, a logout or a room
command behind an unfinished one, with up to six entries following; one restart.
`LocalStore`: two directories, passphrases, accounts and device ids, so that each
can be taken for another; fresh passphrases and device ids are any of them, which
allows more than the code does; no counters, hence no other bound. Its states are
counted up to renaming within each of the four sets; invariants only are checked
there. `Timeline`: three events (a message, an edit and a redaction, or two
messages and an edit), a first page of one event so that there is history, a
buffer of three items, which copies overflow, two events in the stream so that
one delta can be skipped, one event that may be sealed, two commands, restarts,
logouts or losses together. `FrontendAdapter`: three callers, so that a command
is overtaken twice, four commands, a channel of one. `Outbox`: five transaction
ids, for two items with a retry or a retry of each kind; a stream of two; one text,
removal, download or logout. `MediaRows`: three images in two rooms with one in
common, sizes 1, 1 and 2 in a cache of 2, one decoded GIF, one that plays, one
event in the stream, four requests, two failing files, logouts or restarts.
`Panels`: one room, for rooms meet only in the list; three commands of the user,
four steps of user and sync task together: an invite asked for, withdrawn, sent
and asked for again, or a key, another key and a restore. Users are bounded in
these five, so they may stop: deadlock is not checked there.
In the passing run the user may act on a screen that is not redrawn
(`SlowScreen = TRUE`); the violation runs do without it, so a slow interface is
not needed to see them. In `Panels` the screen is always drawn late: the restore
button and the login form stay usable until a later snapshot is drawn (`drawn`,
`Draw`). The other buttons are checked against the state when they are clicked.

**Fairness.** `Runtime`: weak fairness of the suspended handler (SDK calls
return: the login has a time-out of its own, the others those of the HTTP
client) and of the sync task (both are scheduled by tokio); strong fairness of
`SyncObservesCancel`, since `select!` polls its branches in random order and a
cancelled token that is ready again and again is chosen eventually. The user's
commands and `Restart` have none. `DesktopSession`: weak fairness of the rest of
`submit_login`, of the runtime and of the event worker, each a thread or task of
its own; none for the user, drawing or restarts. `FrontendAdapter`: weak fairness
of each caller's flush and of the runtime's receiving: tokio polls every task
that can go on. A flush that waits for room is woken in turn, which weak fairness
does not need here since commands are bounded. `Outbox`: weak fairness of the
runtime and of the event worker; the user's clicks have none. `Timeline`,
`MediaRows` and `Panels` have safety properties only.

**Assumptions about the outside.** A login on a client that has a session is
refused by the SDK, as `is_session_login_fallback_error` expects. A failed call
may have installed a session. Keyring and files answer or fail. In
`LocalStore` the SDK refuses a device that is not the store's and names the
store's device in its message, as `expected_device_id_from_store_mismatch_message`
expects; a store is created and a device put into it atomically; writing a
passphrase into a created file is one step. In `DesktopSession` and `Panels`
the event receiver does not lag by more than the channel's 512 events; in
`DesktopSession` the two commands of a login are queued without another in
between. In `Timeline` the server's answers are what the log said at some length,
a redacted event is served without its content, sync responses come in order,
and keys open every sealed event or none. In `Outbox` a send that fails may have
reached the server, one that succeeds has. In `MediaRows` a source's file has its
own name (a hash), and a write that fails leaves the file as it was or in part.
In `Panels` the client knows of a join or leave when it is answered, and a reset
or creation may have destroyed the old backup when it fails.

## 4. Proofs

`RuntimeProofs` proves for all constants that satisfy `RuntimeAssumption`:

- `RuntimeInvariant`: `Spec => []RuntimeInv`. `RuntimeInv` is `TypeOK`,
  `SessionIsUsable`, `TokensStayInSession`, `AnsweredOnce` and four parts that
  make them inductive: `PcMatchesLifecycle` (where a handler may be suspended in
  each lifecycle state), `HandlerOwesAnswer` (a suspended handler has not
  answered, and which command it serves), `BackendWhereUsed` (a session belongs
  to a backend and a backend to an Init; handlers that use one have it),
  `SyncIsOwned` (a live task is in the slot or in the hands of the handler that
  waits for it). Without `SyncIsOwned`, for instance, a logout from
  Authenticated might drop a backend whose task is still alive, since only a
  logout from Syncing stops it. The step is proved by groups of actions: taking a
  command, resuming an authentication, resuming a sync or logout, the task, a
  restart; each with one step per conjunct.
- `TypeCorrect`, `SessionAlwaysUsable`, `SyncAlwaysInSession`, `SlotAlwaysFree`,
  `StatusNeverStale`, `AlwaysAnsweredOnce`, `TokensAlwaysInSession`: the safety
  invariants the run checks, from `RuntimeInv`.
- `DelayInBounds` and `DelayGrows` for every attempt and hint or none, `HintIsObeyed`
  (by the sync loop exactly when the maximum allows it, by a login always, which
  also never waits less than its least wait) and
  `WhatIsRetried`, for all bases, maxima and words that satisfy
  `RetryAssumption`. `DelayAlwaysDoubles`: the shift, the product and the two
  cuts come to repeated doubling, 20 times at most, each doubling cut. The
  library's induction takes an operator as its parameter and cannot be used;
  instead the least attempt that is a counterexample is taken, which exists
  because the order of the numbers is well-founded (`LeastNumber`).
- `LogoutAlwaysForgets`: the action property, by the invariant and a case split
  showing that `LogoutSucceeds` is the only step into LoggedOut.
- `RuntimeImplementsService`: the refinement. Each group of actions is shown to
  be a step of `SessionService` or to leave its variables alone
  (`TakeCommandServes`, `ResumeAuthServes`, `ResumeSessionServes`,
  `SyncTaskServes`).

`LocalStoreProofs` proves for all constants that satisfy `LocalStoreAssumption`:

- `LocalStoreInvariant`: `Spec => []LocalStoreInv`, the three safety properties
  with `TypeOK` and four parts: `OpeningKnowsKey` (the passphrase in hand is the
  one in the file once that is written), `LoginHasBackend` (which handler has a
  backend), `WipeForgetsSessionFirst` (nothing is deleted while a session is
  persisted), `BackendHasStore` (the open store has the client's device). A torn
  file never belongs to a store, because `KeyOfStoreKept` held when it was
  created: the inductive step needs the property itself there. The steps that
  install a device share the lemma `InstalledFacts` on what that changes.
- `KeyAlwaysKept`, `SessionAlwaysHasStore`, `SignedInAlwaysOwnsStore` and
  `TypeCorrect`: the invariants of the run, from `LocalStoreInv`.

`FrontendAdapterProofs` proves for every finite set of callers and every channel
capacity:

- `CommandsNeitherLostNorRepeated`, `QueueStaysBehind`, `TypeCorrect`: the
  inductive invariant is `AdapterInv`, the type invariant with `EachCommandOnce`
  and `QueueBehindHands`. A flush pops the oldest command and numbers are drawn
  in order, hence what is queued is younger than what is in a hand.
- `ImplementsTheQueue`: the refinement of `RelaxedQueue`. The step that sends is
  the one to prove: what a command overtakes is in the hands of the other
  callers, each of which holds one at most, and so is fewer in number than the
  callers; the lemmas count a function's image with `FiniteSetTheorems`.

`DesktopSessionProofs` proves for any accounts, any length of the queues, any number
of restarts and a screen drawn as late as it likes the five invariants of the run:
`DesktopTyped` (`TypeOK`), `DesktopIntentIsAwaited`, `DesktopSessionSyncs`,
`DesktopRoomViewHasSession`, `DesktopLogoutLeavesNothing`. Four of them say that at
rest something is settled; their inductive invariants say who still has to settle
it while anything is under way: who clears the intent and releases the form
(`Awaited`), who starts the sync (`SyncComes`), who brings the login pane back
(`FormComes`), who deletes the profile (`WipeComes`). `FormComes` is the one with
an order in it: outside a session, behind every success in the events stands a
failure or a logout, since the runtime cannot have left the session otherwise.
Every command that the runtime takes turns into the event its sender counts on,
one lemma (`RuntimeSteps`) for all of them.

`TimelineProofs` proves, for every size of the room, the pages, the buffer and the
stream, all five invariants of the run.

- `ViewAlwaysFollows` (`ViewFollowsBuffer`), by `StreamInvariant`: an empty stream
  finds the view right, and the last event of any other tells all, being a snapshot
  of the buffer as it is, or a logout since (`TellsAll`). The channel drops the
  oldest and keeps the newest (`SendKeepsNewest`). What the operations do to the
  buffer is never expanded here.
- `TimelineInvariant`: `Spec => []Inv`, where `Inv` is `Typed`, `AnswerInv` (an answer
  not emitted is what the log said then, and its page ends where the one before it
  began), `OrderInv` (in step, whatever the buffer shows is followed by every newer
  message, `Following`, and all messages above the token are there, `Present`) and
  `RightInv` (items that no weakness touched have the text of the last edit the
  sync task has seen, and are not redacted, `Right`). The buffer is compared with
  the log at the length `synced`, never with what the server has by now.
- A delta does not keep these parts from one operation to the next; a message is
  appended before its edit is applied, an edit is sent before its target is gone.
  So each part is stated up to what the remaining operations of the delta bring:
  `Comes` says that one of them inserts or removes the event, `Edited` that one
  brings the edit. `Orderly` and `Faithful` say what a delta must be for its
  operations to keep them; that the deltas of a sync response, of the page read
  after room keys, of an opened room, of a page of history, of an own edit and of
  an own redaction are such is proved from how each is made.
- The loops (`Loop`) are unrolled to the list of their intermediate results, and
  the lemmas go along it by induction (`Induction`, for sets of numbers, from the
  well-foundedness of the naturals).
- `TypeCorrect`, `OrderIsShown`, `RightIsShown`, `HistoryIsConnected`: the other four
  invariants, from `Inv` and from what the desktop makes of the buffer
  (`DedupeShows`: the last copy of each event, in the buffer's order, and nothing
  missing after the first of them).

The attempt to prove the last three refuted an earlier version of the model, whose
exemptions were too narrow; TLC had found nothing in the small instance. In larger
ones it confirmed that a message appended to a full buffer may push out another
above the token, that the order is not kept once there is a hole, and that a page
of history brings a message back in its original text once its edits have gone by.
The code does all this; `trimmed`, `InStep` and `Mismatch` now say so.

`MediaRowsProofs` proves for every set of images and rooms and every size and limit
the four invariants of the run, `DownloadingAlwaysAwaited`, `ReadyAlwaysHasFile`,
`CacheAlwaysBounded` and `PlayingAlwaysBounded`, by `MediaInvariant`. `CacheInv` is the
disk cache by itself: a torn file is known to be gone, every file has an entry, and
more than one entry fits the capacity. How sizes are added up (`Total`) is never
expanded: the bound follows from when the loop of `evict_if_needed` stops
(`EvictedFacts`), for each way an insert can fail half-way
(`InsertedFacts`, `HalfInsertedFacts`), and for the index as it is read again at
start-up (`ReopenedFacts`). `LazyFacts` says what the check at the end of an event
leaves: whatever it sets downloading, it has asked for.

`PanelsProofs` proves for every number of rooms, commands and steps
`KeyAlwaysStays` (`KeyStaysShown`) by `KeyInvariant`: transactions are drawn in
order, an answer carries the transaction of its command, and asking for another
key takes the place of the one shown. So every recovery request under way was made
before the key was shown (`MadeBefore`), or is a restore from a prompt drawn late;
the dialog is then restoring, and the requests that would make a key are still
older (`Older`). `TypesOK` there is the part of the types that
this needs, with the shapes of the events.

`NothingEverWaitsInVain`, `InviteEverAskedOnce` and `KeyShownAlwaysWorks` need more
(`RequestInvariant`): a request is in one of three places, queued, at the runtime
or answered in the stream (`Places`); what waits has one (`Waits`), and a room that
was not forgotten has at most one (`Once`), said of any two positions so that no
events have to be counted. For the key, `KeyRight` says which key the screen has or
will have. The proof showed that the property was wrong as it stood: while a logout
is on its way to the screen, the dialog still has the key of the session before,
whose backup a new session may have replaced; `KeyShownWorks` now says so.

`OutboxProofs` proves for any number of transactions and turns and every capacity
of the stream `InFlightAlwaysAwaited` (`InFlightIsAwaited`) and
`AlwaysListedUntilPosted` (`ListedUntilPosted`) by `OutboxInvariant`. The argument
is about the line of what is under way, the answers not handled and then the
commands not taken: a command keeps its place in it when it is executed
(`LineStays`), the event worker takes the first (`LineShrinks`), and a full stream
drops the first. `LineInv` says of the line that its ids were drawn, that an
upload in it is known by its id alone, and a send too unless the id is one that
both counters have passed; and that every row that is busy has its entry and its
place. A step changes the line in one of three ways (`Moved`), for each of which a
lemma keeps `LineInv`. `AlwaysListedUntilPosted` needs besides that a send answered
as good was posted (`GoodIsPosted`). `PostsAlwaysAskedFor` (`PostsWereAskedFor`) counts:
the posts of an item and the places in the queues that are still to post it are
together no more than the clicks (`CountInv`). A queue grows and shrinks by one
place (`HowManyGrows`, `HowManyShrinks`), which `FiniteSetTheorems` counts.

TLC agreed with the inductive invariants, as far as it can evaluate them, and with
every property before they were proved. Every invariant of the passing runs and
every action property among their properties is stated by a theorem. Only
model-checked are the properties out of the provers' reach, since they are liveness
under fairness: `CommandsFinish`, `FormIsReleased`, `CommandsArrive`, `EveryTryEnds`;
and the four sentences of the documentation that the code does not keep, which are
refuted, not proved.

## 5. Not modelled

- `on_fatal` of the state machine: nothing calls it.
- Texts and codes of errors and statuses, the contents of requests and acks
  (their number and order are modelled), tuning values, the parsing of
  configuration and environment, jitter.
- The names of data directories (`slugify_component`): `LocalStore` has two
  directories and takes them for different. It is without the desktop app's own
  wipe of the data root after LoggedOut (`bridge.rs` 253-269), which may hit the
  store of a login submitted before that event is handled, and takes the legacy
  hint file for the hint. `Runtime` and `DesktopSession` have no directories.
- The clock of a GIF's frames and the limits on what is decoded, the cooldown
  of the scroll position: they decide when something is drawn, not what is true.
- The smoke test, a program of its own, which does not build at this commit:
  its `match` over `TimelineOp` has no arm for `Replace` and it passes a text
  where `DownloadMedia` takes a source.
- Logging, layout and drawing; the Matrix SDK and the homeserver beyond the
  answers listed under the outside assumptions above.

## 6. Plan

What is left, in the order of its worth:

1. A composition of `Runtime` with `LocalStore`, where an init of a homeserver
   chooses the directory, with the desktop app's wipe as a third actor.
2. An abstract specification of the timeline, the last messages of a room in their
   latest edit, with `Timeline` in step as its implementation; today its three
   parts are separate invariants.
3. Two rooms in `Panels` and larger rooms in `Timeline`, which today use up the time
   of a run. The theorems cover these sizes; TLC would show that the cases they
   speak of occur in them.
