----------------------------- MODULE MediaRows -----------------------------
(***************************************************************************)
(* Images of the selected room in the desktop app: the downloads the event *)
(* worker asks for (bridge.rs, state.rs), the disk cache they land in      *)
(* (media_cache.rs) and the playback of the GIFs among them by the         *)
(* interface thread (gif_player.rs, main.rs).                              *)
(*                                                                         *)
(* A source names its image, its row and its file: the path is a hash of   *)
(* the source.  An index keeps of last_access_ms which entry was used      *)
(* before which.  File operations may fail, the process may stop and start *)
(* again, a logout wipes the cache's directory, and the event stream drops *)
(* its oldest event when full.                                             *)
(***************************************************************************)
EXTENDS Naturals, Sequences, SequencesExt, FiniteSetsExt

CONSTANTS Sources,         \* of images, all GIFs; numbers, for rows are sorted
          Rooms,           \* the sources of each room
          Size,            \* of each image
          CacheCapacity,   \* DEFAULT_CAPACITY_BYTES
          DecodeCapacity,  \* DEFAULT_DECODE_CACHE_CAPACITY
          MaxPlaying,      \* MAX_CONCURRENT_ANIMATED_ROWS
          Stale,           \* VISIBLE_STALE_TIMEOUT_MS, in ticks
          EventCapacity,   \* of the event stream
          MaxRequests,     \* downloads ever asked for
          MaxTurns         \* failing files, logouts, restarts

ASSUME MediaAssumption ==
    /\ Sources \subseteq Nat /\ IsFiniteSet(Sources)
    /\ Rooms \subseteq SUBSET Sources
    /\ Size \in [Sources -> Nat \ {0}]
    /\ {CacheCapacity, DecodeCapacity, MaxPlaying, Stale, EventCapacity} \subseteq Nat \ {0}
    /\ {MaxRequests, MaxTurns} \subseteq Nat

VARIABLES
    room,      \* sources of the selected room
    status,    \* DesktopState.media: MediaStatus of each source
    path,      \* sources with a cached_path
    inFlight,  \* media_downloads_in_flight
    requests,  \* DownloadMedia commands the runtime has not taken
    acks,      \* their answers the event worker has not handled
    cache,     \* MediaCache and its directory, see Cache
    offered,   \* rows drawn with a retry button
    attached,  \* attached_gif_sources of the interface
    rows,      \* rows the playback controller has a source for
    decoded,   \* its decode cache, least recently used first
    age,       \* ticks since a row's last visibility ping, Stale + 1 for more
    playing,   \* active rows
    asked, turns,
    lost       \* sources with an answer the stream dropped; not in the code

downloadVars == <<status, path, inFlight>>
queueVars == <<requests, acks, lost>>
playVars == <<offered, attached, rows, decoded, age, playing>>
vars == <<room, downloadVars, queueVars, cache, playVars, asked, turns>>

\* saved: the index file, NoEntries when it cannot be read.  gone: sources whose file was deleted after it was cached or
\* torn by a write that failed (an entry of before still points to it, and get
\* only looks whether the file exists), orphans: sources whose file may have no
\* entry, full: the last eviction failed; the three are not in the code.
Index == [has : SUBSET Sources, before : SUBSET (Sources \X Sources)]
NoEntries == [has |-> {}, before |-> {}]
Cache == [index : Index, saved : Index,
          file : [Sources -> {"none", "whole", "torn"}], rootGone : BOOLEAN,
          gone : SUBSET Sources, orphans : SUBSET Sources, full : BOOLEAN]

Total(set) == MapThenSumSet(LAMBDA s : Size[s], set)
Fits(set) == Total(set) <= CacheCapacity
OnDisk(c) == {s \in Sources : c.file[s] # "none"}
Only(index, set) == [has |-> set, before |-> index.before \cap (set \X set)]
\* The entries of the set are used, or made; one moment is the same for all.
Touch(index, set) ==
    [has |-> index.has \cup set,
     before |-> {p \in index.before : p[1] \notin set /\ p[2] \notin set}
                \cup ((index.has \ set) \X set)]
Turn == turns < MaxTurns /\ turns' = turns + 1

Init ==
    /\ room = {}
    /\ status = [s \in Sources |-> "missing"] /\ path = {} /\ inFlight = {}
    /\ requests = <<>> /\ acks = <<>> /\ lost = {}
    /\ cache = [index |-> NoEntries, saved |-> NoEntries, file |-> [s \in Sources |-> "none"],
                rootGone |-> FALSE, gone |-> {}, orphans |-> {}, full |-> FALSE]
    /\ offered = {} /\ attached = {} /\ rows = {} /\ decoded = <<>>
    /\ age = [s \in Sources |-> Stale + 1] /\ playing = {}
    /\ asked = 0 /\ turns = 0

-----------------------------------------------------------------------------
(* The disk cache.                                                         *)

\* evict_if_needed: while the entries do not fit, the one used longest ago
\* goes, one of them if there are several, but never one of keep.  The entries
\* that have gone at some moment of the loop, in their order.
Evictions(index, keep) ==
    {gone \in SetToAllKPermutations(index.has \ keep) :
        \A k \in 1..Len(gone) :
            LET left == index.has \ {gone[j] : j \in 1..(k - 1)} IN
            /\ ~Fits(left)
            /\ \A s \in left \ keep : <<s, gone[k]>> \notin index.before}

\* Those gone at its end.
Evicted(index, keep) ==
    {ToSet(gone) : gone \in {g \in Evictions(index, keep) :
        LET left == index.has \ ToSet(g) IN Fits(left) \/ left \subseteq keep}}

\* The cache once s is written and the entries of dropped have gone.
Stored(c, index, s, dropped) ==
    LET kept == Only(index, index.has \ dropped) IN
    [c EXCEPT !.file = [x \in Sources |-> IF x = s THEN "whole"
                                          ELSE IF x \in dropped THEN "none" ELSE @[x]],
              !.index = kept, !.saved = kept,
              !.gone = (@ \cup dropped) \ {s}, !.orphans = @ \ {s}, !.full = FALSE]

\* Mutant: entries are evicted before the new one is counted.
InsertedUncounted(c, s) ==
    {Stored(c, Touch(c.index, {s}), s, dropped) :
        dropped \in Evicted(Only(c.index, c.index.has \ {s}), {})}

\* insert: the file is written, the index updated, others make room.
Inserted(c, s) ==
    LET index == Touch(c.index, {s}) IN
    {Stored(c, index, s, dropped) : dropped \in Evicted(index, {s})}

\* What insert leaves when the file is not written, or only in part.
Unwritten(c, s, file) ==
    [c EXCEPT !.file[s] = file,
              !.gone = IF file = "torn" THEN @ \cup {s} ELSE @,
              !.orphans = IF s \in c.index.has THEN @ ELSE @ \cup {s}]

\* When the last file of those to evict is not deleted but its entry is.
Undeleted(c, index, s, gone) ==
    [Stored(c, index, s, ToSet(Front(gone))) EXCEPT
        !.index = Only(index, index.has \ ToSet(gone)), !.saved = c.saved,
        !.orphans = @ \cup {Last(gone)}, !.full = TRUE]

\* When the index is not saved, or only in part.
Unsaved(i, saved) == [i EXCEPT !.saved = saved]

HalfInserted(c, s) ==
    LET index == Touch(c.index, {s}) IN
    {Unwritten(c, s, file) : file \in {c.file[s], "torn"}}
    \cup {Undeleted(c, index, s, gone) : gone \in Evictions(index, {s}) \ {<<>>}}
    \cup {Unsaved(i, saved) : i \in Inserted(c, s), saved \in {c.saved, NoEntries}}

\* with_capacity, at start: entries without a file and what does not fit go.
Reopened(c) ==
    LET index == Only(c.saved, c.saved.has \cap OnDisk(c)) IN
    {LET kept == Only(index, index.has \ dropped)
         file == [s \in Sources |-> IF s \in dropped THEN "none" ELSE c.file[s]] IN
     [c EXCEPT !.index = kept, !.saved = kept, !.file = file, !.rootGone = FALSE,
               !.gone = {s \in Sources : file[s] = "torn"},
               !.orphans = {s \in Sources : file[s] # "none"} \ kept.has, !.full = FALSE] :
        dropped \in Evicted(index, {})}

-----------------------------------------------------------------------------
(* Downloads.                                                              *)

\* Mutant: an image that a cache entry is found for is marked as asked for.
LazyMarksAll(st, pa, fl, c) ==
    LET todo == {s \in room : st[s] = "missing" /\ s \notin fl}
        hits == {s \in todo : s \in c.index.has /\ c.file[s] # "none"} IN
    /\ asked' = asked + Cardinality(todo \ hits) /\ asked' <= MaxRequests
    /\ status' = [s \in Sources |-> IF s \in todo THEN "downloading" ELSE st[s]]
    /\ path' = pa \cup hits
    /\ inFlight' = fl \cup todo
    /\ \E order \in SetToSeqs(todo \ hits) : requests' = requests \o order
    /\ cache' = c

\* Mutant: an entry is trusted without a look at its file.
LazyTrusts(st, pa, fl, c) ==
    LET todo == {s \in room : st[s] = "missing" /\ s \notin fl}
        hits == todo \cap c.index.has
        asks == todo \ hits IN
    /\ asked' = asked + Cardinality(asks) /\ asked' <= MaxRequests
    /\ status' = [s \in Sources |-> IF s \in hits THEN "ready"
                                    ELSE IF s \in asks THEN "downloading" ELSE st[s]]
    /\ path' = pa \cup hits
    /\ inFlight' = fl \cup asks
    /\ \E order \in SetToSeqs(asks) : requests' = requests \o order
    /\ cache' = c

\* trigger_lazy_media_downloads, at the end of every event: each image of the
\* room the state knows nothing of is taken from the cache (get) or asked for.
\* An entry without its file stays in the index.  The arguments are what the
\* event itself left behind; the requests are in the timeline's order.
Lazy(st, pa, fl, c) ==
    LET todo == {s \in room : st[s] = "missing" /\ s \notin fl}
        hits == {s \in todo : s \in c.index.has /\ c.file[s] # "none"}
        asks == todo \ hits
        used == IF hits = {} THEN c.index ELSE Touch(c.index, hits) IN
    /\ asked' = asked + Cardinality(asks) /\ asked' <= MaxRequests
    /\ status' = [s \in Sources |-> IF s \in hits THEN "ready"
                                    ELSE IF s \in asks THEN "downloading" ELSE st[s]]
    /\ path' = pa \cup hits
    /\ inFlight' = fl \cup asks
    /\ \E order \in SetToSeqs(asks) : requests' = requests \o order
    /\ cache' = [c EXCEPT !.index = used, !.saved = IF hits = {} THEN @ ELSE used]

\* Any event but an answer or a logout.
HandleOther ==
    /\ Lazy(status, path, inFlight, cache)
    /\ UNCHANGED <<room, acks, lost, playVars, turns>>

\* handle_media_download_ack: whoever asked, the source is not in flight any
\* more; what cannot be cached has failed and keeps an older path.
HandleAnswer ==
    /\ acks # <<>>
    /\ acks' = Tail(acks)
    /\ LET s == Head(acks).of
           failed == [status EXCEPT ![s] = "failed"]
           flying == inFlight \ {s} IN
       \/ /\ Head(acks).ok /\ ~cache.rootGone
          /\ \E c \in Inserted(cache, s) :
                Lazy([status EXCEPT ![s] = "ready"], path \cup {s}, flying, c)
          /\ UNCHANGED turns
       \/ /\ Head(acks).ok /\ ~cache.rootGone
          /\ Turn
          /\ \E c \in HalfInserted(cache, s) : Lazy(failed, path, flying, c)
       \/ /\ Head(acks).ok => cache.rootGone
          /\ Lazy(failed, path, flying, cache)
          /\ UNCHANGED turns
    /\ UNCHANGED <<room, lost, playVars>>

\* LoggedOut: the data directory is wiped, the cache's own with it.  The
\* timelines are cleared, the media of the state and the index are not.
HandleLogout ==
    /\ Turn
    /\ cache' = [cache EXCEPT !.file = [s \in Sources |-> "none"], !.rootGone = TRUE,
                              !.saved = NoEntries,
                              !.gone = @ \cup {s \in Sources : status[s] = "ready"}]
    /\ room' = {}
    /\ UNCHANGED <<downloadVars, queueVars, playVars, asked>>

\* The runtime takes a command and answers it; a full stream drops its oldest
\* event.
Serve ==
    /\ requests # <<>>
    /\ requests' = Tail(requests)
    /\ \E ok \in BOOLEAN :
       LET ack == [of |-> Head(requests), ok |-> ok] IN
       IF Len(acks) = EventCapacity
       THEN acks' = Append(Tail(acks), ack) /\ lost' = lost \cup {Head(acks).of}
       ELSE acks' = Append(acks, ack) /\ UNCHANGED lost
    /\ UNCHANGED <<room, downloadVars, cache, playVars, asked, turns>>

\* The app is closed, and started again.
Restart ==
    /\ Turn
    /\ room' = {}
    /\ status' = [s \in Sources |-> "missing"] /\ path' = {} /\ inFlight' = {}
    /\ requests' = <<>> /\ acks' = <<>> /\ lost' = {}
    /\ cache' \in Reopened(cache)
    /\ offered' = {} /\ attached' = {} /\ rows' = {} /\ decoded' = <<>>
    /\ age' = [s \in Sources |-> Stale + 1] /\ playing' = {}
    /\ UNCHANGED asked

-----------------------------------------------------------------------------
(* The interface thread.                                                   *)

SelectRoom ==
    /\ room' \in Rooms \ {room}
    /\ UNCHANGED <<downloadVars, queueVars, cache, playVars, asked, turns>>

\* retry_media_download: the row's button is the last drawn one; a download
\* under way is not looked for.
Retry(s) ==
    /\ s \in offered
    /\ asked < MaxRequests
    /\ asked' = asked + 1
    /\ status' = [status EXCEPT ![s] = "downloading"]
    /\ inFlight' = inFlight \cup {s}
    /\ requests' = Append(requests, s)
    /\ UNCHANGED <<room, path, acks, lost, cache, playVars, turns>>

\* get_or_load: a file that cannot be read is remembered as no GIF.
Loaded(entries, s) ==
    LET hit == SelectSeq(entries, LAMBDA e : e.of = s)
        rest == SelectSeq(entries, LAMBDA e : e.of # s)
        new == IF hit # <<>> THEN Head(hit)
               ELSE [of |-> s, gif |-> cache.file[s] = "whole"] IN
    IF Len(rest) = DecodeCapacity THEN Append(Tail(rest), new) ELSE Append(rest, new)

\* apply_snapshot_to_ui: rows with a path that were not drawn with it before
\* are attached to the controller and start over.
Draw ==
    LET shown == room \cap path
        fresh == shown \ attached IN
    /\ offered' = {s \in room : status[s] = "failed"}
    /\ attached' = shown
    /\ <<offered, attached>>' # <<offered, attached>>
    /\ rows' = rows \cup fresh
    /\ \E order \in SetToSeqs(fresh) : decoded' = FoldLeft(Loaded, decoded, order)
    /\ playing' = playing \ fresh
    /\ UNCHANGED <<room, downloadVars, queueVars, cache, age, asked, turns>>

\* A visible row's timer.
Ping(s) ==
    /\ s \in attached
    /\ age[s] # 0
    /\ age' = [age EXCEPT ![s] = 0]
    /\ UNCHANGED <<room, downloadVars, queueVars, cache, offered, attached, rows,
                   decoded, playing, asked, turns>>

\* The rows that may play, the most recently seen first.
Candidates(ages) ==
    LET able == {s \in rows : /\ ages[s] <= Stale
                              /\ \E e \in ToSet(decoded) : e.of = s /\ e.gif}
        Sorted(q) == \A j, k \in 1..Len(q) : j < k =>
                        \/ ages[q[j]] < ages[q[k]]
                        \/ ages[q[j]] = ages[q[k]] /\ q[j] < q[k]
    IN {SubSeq(q, 1, Min({Len(q), MaxPlaying})) : q \in {f \in SetToSeqs(able) : Sorted(f)}}

\* Mutant: rows that lost their place are not stopped.
TickKeeps(ages, first) == playing \cup ToSet(first)

\* The rows left active; the others are stopped.
Chosen(ages, first) == ToSet(first)

\* tick: playing a row is a use of its decoded frames.
Tick ==
    \E ages \in {[s \in Sources |-> IF age[s] > Stale THEN age[s] ELSE age[s] + 1]} :
    \E first \in Candidates(ages) :
       /\ age' = ages
       /\ playing' = Chosen(ages, first)
       /\ decoded' = FoldLeft(Loaded, decoded, first)
       /\ <<age, playing, decoded>>' # <<age, playing, decoded>>
       /\ UNCHANGED <<room, downloadVars, queueVars, cache, offered, attached, rows,
                      asked, turns>>

Next ==
    \/ HandleOther \/ HandleAnswer \/ HandleLogout
    \/ Serve \/ Restart
    \/ SelectRoom \/ Draw \/ Tick
    \/ \E s \in Sources : Retry(s) \/ Ping(s)

Spec == Init /\ [][Next]_vars

-----------------------------------------------------------------------------
(* Properties.                                                             *)

\* A row that says it is downloading, which offers no retry, has a request or
\* an answer under way, unless the event stream dropped one.
DownloadingIsAwaited ==
    \A s \in Sources \ lost :
        status[s] = "downloading" =>
            s \in ToSet(requests) \/ \E a \in ToSet(acks) : a.of = s

\* The file of a row that is ready is there and whole, unless another image
\* took its place in the cache, a logout wiped the cache, or a second write of
\* the file failed half-way.
ReadyHasFile ==
    \A s \in Sources \ cache.gone :
        status[s] = "ready" => s \in path /\ cache.file[s] = "whole"

\* The files known to the index fit the cache's capacity, or are one, unless
\* the last eviction failed, and no file is on the disk without an entry unless
\* a write, a deletion or the saving of the index failed once.
CacheBounded ==
    /\ Cardinality(cache.index.has) > 1 /\ ~cache.full => Fits(cache.index.has)
    /\ OnDisk(cache) \ cache.orphans \subseteq cache.index.has

\* At most MaxPlaying rows play, and none that was not seen for a while or
\* has no source: rows that are scrolled out or closed give their place up.
PlayingIsBounded ==
    /\ Cardinality(playing) <= MaxPlaying
    /\ \A s \in playing : s \in rows /\ age[s] <= Stale
=============================================================================
