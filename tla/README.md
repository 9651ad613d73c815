# A verification of librespot

This directory holds TLA+ models of the parts of this repository (librespot, a
Spotify Connect receiver, with an AirPlay receiver and a TCP control API) whose
correctness depends on the order in which threads, tasks and messages meet,
together with the TLC configurations that check them and TLAPS proofs of the
properties that matter most.  Everything is translated from the source;
`PROJECT.json` names, for every definition that models code, the file and lines
it stands for.

## 1. The system

| Component | State it keeps | Operations | Talks to | What is hard |
|---|---|---|---|---|
| Player engine (`playback/src/player.rs`) | `PlayerState`, preload slot, sink status, id generator | load, preload, play, pause, stop, seek; the poll loop | clients (command channel), listeners (event channels), loader threads, decoder, sink | a load reaches the track by four paths; every sink and decoder call may fail; listeners see only events; the future parks |
| Range set (`audio/src/range_set.rs`) | sorted, disjoint ranges | add, subtract, contains, intersection ... | streaming fetch | boundaries: touching, nested, empty ranges |
| Streaming fetch (`audio/src/fetch/`) | requested and downloaded ranges, condition variable, temporary file | read, seek, fetch_blocking; the fetch loop; download tasks | decoder (reader thread), CDN requests, cache | three kinds of threads share two range sets; requests fail half way; wake-ups may be lost |
| Session (`core/src/session.rs`, `connection/`) | validity, user data, keep-alive state and deadline | connect, dispatch, send, shutdown | all managers, access point | a deadline races packets already received; shutdown must release every waiter |
| Request managers (`core/src/{channel,audio_key}.rs`, `mercury/`) | tables of pending requests by sequence number | request, dispatch, shutdown | session | late answers, timeouts, entries left behind, sequence numbers that wrap |
| Dealer (`core/src/dealer/`) | websocket, handler and subscription maps | connect, reconnect, dispatch, respond, close | spirc, session | ping timeout against late pongs; responders that outlive a connection |
| HTTP side (`http_client`, `spclient`, `login5`, `token`, `apresolve`) | token caches, access-point queues | request with retry and fallback | session, everyone | expiry against use |
| Cache (`core/src/cache.rs`) | LRU queue with a size limit | save, touch, remove, prune | loader, fetch | eviction loop, concurrent users |
| Connect state (`connect/src/state*`, `shuffle_vec.rs`) | contexts, index, previous/next/queued tracks, options | next, prev, set queue, shuffle, transfer ... | spirc | long sequences of legal calls must keep the index and the lists consistent |
| Spirc (`connect/src/spirc.rs`, `context_resolver.rs`) | play status, request id, pending resolves and updates | commands, dealer requests, player events | player, session, connect state | events matched by id while user commands change the state they refer to |
| AirPlay receiver (`airplay/src/`) | RTSP session, recording task, DACP poll, output gain | RTSP verbs; event stream | control API, audio sink | two connections at once; tasks aborted in mid-flight |
| Control API (`src/server.rs`) | connections, now-playing state, active source, covers | requests, pushes, arbitration | player events, AirPlay events, spirc | late covers and stale sessions; clients that stop reading |
| Main loop, discovery (`src/main.rs`, `discovery/`) | session, spirc, credentials, reconnect limits | select loop, shutdown | all of the above | rate limit of reconnects; shutdown order |
| Backends, mixers, decoders, metadata, protocol, oauth | devices and conversions | — | player | device I/O, numeric code, generated code: not modelled |

The properties that make each component correct are the ones its module states;
the hazards behind them are listed, line by line, in `PROJECT.json`.

## 2. Which module models what

| Module | Models | Checked by |
|---|---|---|
| `Player`, `PlaybackProtocol` | the player engine, and the abstract protocol of its events that it implements | `MCPlayer`, `MCLive`, `PlayerProofs` |
| `RangeSet` | range algebra | `MCCore`, `AudioFetchProofs` |
| `AudioFetch` | reader, fetch loop, downloads | `MCAudioFetch`, `MCLive`, `AudioFetchProofs` |
| `ApiServer` | control API: arbitration of sources, covers, subscribers | `MCApiServer`, `MCLive`, `ApiServerProofs` |
| `ConnectState`, `Spirc` | the window of tracks, contexts and options; the task that drives it and the player, composed with `PlaybackProtocol` | `MCConnect`, `ConnectProofs` |
| `Session` | login, keep-alive, Mercury, channels, audio keys, shutdown | `MCCore`, `SessionProofs` |
| `Airplay` | RTSP connections, recording, DACP polls, their events in the control API, command routing | `MCCore`, `AirplayProofs` |
| `Dealer` | websocket tasks, reconnects, handler trees, responders | `MCCore`, `CoreProofs` |
| `SpClient` | access points, tokens, the request loop | `MCCore`, `CoreProofs` |
| `Cache` | audio files, size limiter, restart | `MCCore`, `CoreProofs` |
| `MainLoop` | the select loop of `main`, discovery | `MCCore`, `CoreProofs` |
| `Iteration` | induction over the rounds of a loop, for the proofs | — |

The components of `MCCore`, and the three of `MCLive`, are independent: a variable
`part`, chosen initially, says which of them takes the steps, and the others stay
where they began.  They share a run because each is small; no behaviour composes
them.  What is composed is `Spirc` with `ConnectState` and the player, and `Airplay`
with its end in the control API.

## 3. Modules

### Player

`self` is the `PlayerInternal` struct; its methods are operators from one value
of the struct to the next with the names they have in the source
(`handle_command_load`, `ensure_sink_stopped`, ...), so a handler that calls
several of them is their composition and one atomic step, as it is on the player
thread.  A call that may fail takes its outcome from the `io` argument, which
the action chooses.  The poll loop's phases are actions: `PollCommand` /
`PollNoCommand` / `PollShutdown`, `PollLoader`, `PollPreload`, `PollNotPlaying` /
`PollPlayback`, `PollSuggest`; `Wake` is the waker of the parked future,
`LoaderFinishes` and `PreloaderFinishes` are the loader threads, `DropPlayer` the
last handle going away.  `seen` is what a listener knows from the event stream.

Abstractions: positions are `0 .. Duration`; the command queue is "any command
may arrive at any time", and after the handle is dropped a bounded backlog;
commands that only set a value or emit an event are the command `Emit`; an error
from a packet's `samples()` counts as a failing packet.

### PlaybackProtocol

What a listener may rely on: a status, an id and a track, with the order in
which events may change them.  `Player` implements it under the mapping from
`self.seen` (property `Protocol`).

### RangeSet

Sequences of ranges and the operations of `range_set.rs` in the code's order of
tests, against the sets of bytes they stand for.  `Add` and `Subtract` build every
two vectors there are.  A `for` loop that returns at the first range of a kind is
that range's index (`FirstOf`); `while` loops that carry a value from round to round
(`Merge`, `add_range_set`, `intersection`) are recursive functions of the number of
rounds.

### AudioFetch

The reader thread (`Read`, `ReadWakes`, `Copy`, `Seek`, `fetch_next_and_wait`
with its `BlockLock` and `BlockWakes`), the fetch loop (`LoopStart`, `LoopFetch`,
`LoopMeasures`, `LoopWrite`, `LoopPublish`, `LoopPrefetch`, `LoopEnds`, ...) and the
download tasks (`TakeSlot`, `Respond`, `Settle`).  Sets of bytes stand for range
sets; `RangeSet` shows that they may.  Each lock region is one action; what
happens between two of them interleaves.

Abstractions: throughput and ping, which decide how much is fetched ahead, are a
free choice; a response is one prefix of the range asked for; a measurement is a
round of the loop without data.  `close` and `set_random_access_mode` are public
operations the program itself never calls; they are modelled.  Seeks past the end
and short reads of the temporary file are not.

### ApiServer

`task` is the `ApiServerTask` struct, its methods operators as in `Player`; each
arm of the server task's `select!` is an action (`SetSession`, `SetAirplay`,
`PlayerEventArrives`, `AirplayEventArrives`, `AirplayChannelCloses`, `FetchEnds`,
`Accept`, `Request`, `HandleClosed`, `Shutdown`), because a handler runs to its end
before the next one is chosen.  The reader and writer task of a connection
(`HangUp`, `ReaderStops`; `Write`, `WriterFails`, `WriterShutdown`) and the fetches
run beside it.  `view` is what a subscriber makes of the lines it has read, by
the rules the module documentation of `server.rs` gives clients; `Replica` applies
the lines still queued.  Player and AirPlay events arrive in any order the types
allow, which is more than their senders do.

Abstractions: titles, positions and wording are left out; of an AirPlay track only
the connection that reported it and whether it has a duration are kept; what a
line says is kept for subscribers only.  A `write_all` ends when the client has
taken the line.  Left out: the allow list; the routes of transport and volume
commands to an AirPlay sender are in `Airplay`.  One published state serves both
sources, as the code documents: a Spotify event that arrives while AirPlay is on
the air does overwrite what is shown, so the properties do not say otherwise.

### ConnectState and Spirc

A connect state is a record and its operations are operators from a state to a state,
or to an outcome `[ok, s]` where the code returns a `Result`: where the code returns
early, `s` is the half-changed state it leaves behind.  `Spirc` lifts them to the
task.  The loops over a vector (`FillLoop`, `Retain`, `QueueAll`,
`FillContextFromPages`, `AskForPages`) are recursive functions of the round.  Every
arm of the task's `select!` is an action: commands of the handle and requests of the
dealer (`LoadCommand`, `PlayRequest`, `Command`, `Request`, `TransferRequest`,
`SkipNextRequest`, `SetQueueRequest`, `DisconnectCommand`, `Shutdown` ...), updates
(`ClusterUpdate`, `ContextChanged`, `AutoplayToggled`), the resolver (`NextContext`,
`HourPasses` for the refused uris it forgets), the delays (`StateDelay`,
`VolumeDelay`) and `HandlePlayerEvent`.  The player takes the task's commands in
order (`PlayerLoads`, `PlayerToggles`, `PlayerStops`) and goes on by itself
(`PlayerBegins`, `PlayerFails`, `PlayerEnds`); each of these steps is conjoined with
the step of `PlaybackProtocol` it is, so what they do to status, id and track is
what `Player` is shown to do; which of them a command leads to, and when, is
`Spirc`'s own reading of the player.

`SetQueueRequest` stores the lists of the client as they come, as `set_next_tracks` and
`set_prev_tracks` do: up to `MaxSent` tracks, which may be more than the window holds.

Abstractions: a track is its uri, its provider and its index in the context; a
shuffle is one of two permutations; positions, uids, metadata, revisions and the
texts of restrictions are left out.  A *scene* is a handful of kinds of input that
bear on each other and how many may occur; scenes keep the runs small.  Left out:
search contexts, transfers out of autoplay, preloading, session updates.

### Session

`se` holds the session, the dispatch and the sender task; `merc`, `akey` and `chan` the
three managers with those who wait on them; `stream` the packets not yet read.
Login (`Dial`, `Authenticate`, `ConnectAtOnce`) retries with the next access point;
`DispatchKeepAlive`, `DispatchKey`, `DispatchChunk`, `DispatchMercury`, `StreamEnds` and
`PollTimer` are the dispatch task.  Mercury's `dispatch` is two actions
(`FinishMercury` is the second) because it takes its lock twice.  `Shutdown` is three
steps, one for each lock (`invalid`, Mercury, the channels), for each of the three
tasks that may call it (the program, the sender, dispatch); requests and packets are
handled in between.  Every other handler is one lock region.
`net.asked` is the set of questions the server has been asked.  Channel ids wrap as
the u16 does; the u32 and u64 numbers of key and Mercury requests are taken as
unbounded.  Time is counted in ticks of 20 seconds, and no tick passes over a
deadline that is due.

### Airplay

`conn` holds the locals of `serve_connection`, `rec` the receive loop and its output
thread, `poll` the tasks that resolve and poll a sender's DACP server, `events` the
event channel and `api` what the control API keeps of AirPlay.  `abort()` marks a
task, which ends at its next await: a poll that has its answer runs on to the next
await, sending what changed.  `Request` is every RTSP verb, `PollAnswered` and
`PollRuns` the two halves of a poll, `Route` where a client's command goes.
Titles are numbers, volumes tenths of a decibel; the conversions between percent and
decibels are modelled as computed, and the output's gain is kept in decibels.

### Dealer, SpClient, Cache, MainLoop

`Dealer`: the builder and the manager (`Launch`, `Close`), the socket's send and receive
task with ping and pong, the task that reconnects (`runner`), the trees of
handlers and subscribers as sets of leaves with their paths, and each request
with the responder that owes its answer.  `Reply` queues an answer on the connection
that asked, and its sending task feeds it to the socket (`Feed`): an answer still
queued when that task ends is lost, also when the dealer has reconnected.  A path
comes split into its parts.

`SpClient`: callers meet at every await of `resolve`, `apresolve`, `client_token`,
`auth_token` and `request`; the shared state is the list of access points (counted,
their order left out), the memoized one, and the tokens, which expire at any time.
No caller in the repository gives a `base_url` or a strategy of its own, so
`TryTimes` is the only strategy met.

`Cache`: a thread saves a file in four steps (`Create`, `Copy`, `AddFile`, `Prune` /
`PruneFile`) and removes it in two; `Restart` stops the program anywhere and starts it
with what the disk holds.  `left` records which files an error or a race has left
uncounted.

`MainLoop`: `loop` holds the locals of `main`; each arm of its `select!` is an action.  A
Spirc the loop gave up goes on in a task of its own, and before it ends
(`OtherSpircEnds`) may pause or stop the player it shares with the next one
(`handle_pause`, `handle_stop`) or load on it; `player.plays` says whose track that
is.  While one is being made the loop looks at nothing else.

## 4. Runs

| Run | Result | Shows |
|---|---|---|
| `player` | holds, 697,020 states | the six safety properties below for two tracks, one of them explicit, three request ids, gapless on and off |
| `player_announced` | **violated** | finding 1 |
| `player_sink_start` | **violated** | finding 2 |
| `audio_fetch` | holds, 3,082,712 states | three bytes, one failing request |
| `audio_fetch_blocked` | **violated** | finding 3 |
| `api_server` | holds, 913,708 states up to symmetry | two Spotify items, two AirPlay sessions, one client, two fetches of a url under way |
| `api_server_stalled` | **violated** | finding 4 |
| `connect` | holds, 211,308 states | nine scenes of two to five inputs on a window of two tracks each way, lists of up to four from a client |
| `connect_stale_event` | **violated** | finding 5 |
| `connect_skipped_track` | **violated** | finding 6 |
| `core` | holds, 1,567,176 states | session, AirPlay, dealer, cache, web clients, main loop and range set, each on its own |
| `live` | holds, 101,484 states | what must happen in the player, the fetch and the control API |

Player: `ListenerAgrees` (what the events said is what the player does),
`DeviceReleased` (a paused or stopped player has closed the sink),
`OnlyRefusedLoadsDiverge` and `IdsNeverGoBack` (which id a listener follows),
`Protocol` (refinement), `LoadResolves`, `ShutdownCompletes`.

RangeSet: `RangesAreSets` (the ranges are sorted and disjoint, stand for the bytes
that were added and not subtracted, and every query and every operation between
two range sets agrees with plain sets).

AudioFetch: `NoOrphans` (a requested byte is downloaded, received or owed by a
task), `DownloadedOnce`, `ReadsWhatIsWritten` (the copy after the lock is
released), `CachedFileIsComplete`, `RetriedFetchIsPending` (after the first
wake-up a blocked fetch is always pending), `SleepersWake`.

ApiServer: `ReplicaAgrees` (a subscriber that reads its lines holds the published
state, save for a duration a progress report filled in without pushing it),
`SpotifyCoverFitsTrack`, `CacheConsistent`, `NoGhost` (a session that ended leaves
nothing on display), `SourceMovesOnPlay`, `DroppedReaderIsTold`.

Connect: `WindowOrdered` (without shuffle and repeat the window follows the context
and repeats nothing), `QueueSurvives` (no step loses, reorders or overtakes what the
user queued, but the one that goes on to it), `PlayingIsShown` (when nothing is on
its way, the track that sounds is the one shown), `TypeOK` (the window keeps to its
limits where no client sends lists of its own), `OverlongShrinks` (a list a client made
longer than the window gets no longer by any other step, and none gets too long
without a client).  Each says in its comment where the
code does not keep it, and the same list is in section 5.

Session: `SilenceNoticed` (a silent connection is noticed in 80 seconds, however
deadlines and packets follow each other), `AnswersFitRequests` (an answer reaches
the request it is for, whole), `ChannelsAreSignalled` and `OnlyHeldAnswersAreLeft`
(who may still wait when a shutdown is over; between its locks more may).

Airplay: `OnePollEach`, `EndedLeavesTheAir` (a session that is over is off the air
unless a poll had the last word), `OnlyReceiveErrorsGoUnseen` (a sender shown as
playing was started and not stopped; a receive loop that returned by itself is the one
thing nobody notices).  Dealer: `AnsweredOnce` (one answer, on the connection that
asked, or lost with it), `HandlerFound`.  Cache: `DiskWithinLimit`.  SpClient:
`ResolveFailsOnlyByRace`. MainLoop: `OneSpircServes`.

**Bounds.**  `MaxId = 3` lets a load, a replaced load and a repeat follow each
other; a second track is needed for preloading, one explicit track for the
filter; `Duration = 1` distinguishes start and end.  `FileSize = 3` gives an
initial request, a gap and a remainder; `MaxCommands = 2` lets a command overtake
a prefetch; one failure is enough for every path of `Settle`.  For the API two
items and two sessions let one overtake another; `CONNECTION_QUEUE = 2` holds what
`subscribe` sends and overflows in the middle of a handler that pushes two lines;
a cache of two covers shows a url recorded twice.  Two covers never overflow it, so
that the oldest goes is left to the theorem, which is for caches of any size; so is
the volume a subscriber knows, for the run has one volume only.  Items with their
covers, and sessions, are symmetric.

For Connect a context of four tracks in two pages does not fit a window of two, so
that windows are full, cut and refilled and a page has to be asked for; lists of
`MaxSent = 4` are twice its size.  In the session two requests of each kind let
answers cross, three packets split one of them, and the third of three channels is
given the first of two ids again; two access points let a login be retried.  Two
AirPlay connections and two polls let one take over from the other; two sockets let
the dealer reconnect under a request; two cache threads and two files of different
size let a save meet a prune, a removal and a restart; two callers exhaust a list of
one access point; three Spircs and a reconnect limit of one let the main loop reach
the limit.  Two range sets of five bytes hold three ranges each: one to be merged or
cut at either side and one in between.

Runs may stop (the process exits, the file is closed, the server is shut down, all
the inputs of a scene have been given), so deadlock is not checked.

**Fairness.**  `Poll` is weakly fair: the player has a thread of its own that
polls the future whenever it was woken.  Nothing makes clients send commands or
load threads end.  In `AudioFetch` the loop and the tasks run on the runtime and
the reader's own steps on its thread; timeouts are not fair, and liveness is
checked without failures, because `Read` relies on its timeout after one.
In `ApiServer` the handling of `Closed` and the writer's shutdown are weakly
fair: the runtime polls the tasks, and `select!` picks among ready arms at random.
Nothing makes a client read, so `Write` is not fair; `DroppedReaderIsTold` assumes
it of the client it speaks of.  No other module assumes fairness.

## 5. Findings

1. `handle_command_load` announces the new play request id before a seek that may
   fail; the track that goes on playing then sends events under an id that
   `spirc.rs` discards as belonging to an earlier track.
2. A sink that fails to start while playing makes `ensure_sink_running` pause the
   player, after which the poll loop's match takes the state for an impossible
   one and exits the process.
3. `fetch_blocking` sends its request before it takes the lock and first tests
   only `downloaded`; a request that fails in between leaves it asleep for bytes
   nobody is fetching.
4. A client that is dropped because it stopped reading keeps its writer task in
   `write_all`, which nothing times out or cancels; the shutdown that should tell
   it, as `disconnect` and the module documentation promise, is never reached.
5. `handle_player_event` compares an event's request id with the id the last
   `PlayRequestIdChanged` *event* told it, so the end of the old track, still in the
   channel when the user loads or skips, is taken for the end of the new one, and
   the track the user chose is skipped.
6. `prev_track` cuts a full window at its end and leaves the context's index where
   it was; the tracks that were cut are never loaded again.

Other behaviour that the models reproduce, and that the properties therefore
except or do not speak of:

- Connect: a refreshed playlist with a full window repeats a track
  (`find_last_index_in_new_context`); a queued track is lost when skipping back is
  followed by `clear_next_tracks`; tracks appended after a shuffle keep `unshuffle`
  from restoring the order; a skip to a track that is in neither window nor context
  never ends (`stuck` in the model); pausing and playing within one round of events
  leaves the device shown as paused; a shuffled transfer of a queued track shows the
  context's track; the lists of a client's `set_queue` are stored however long they
  are, although `state.rs` calls the limits "essential" (line 39), and `add_to_queue`
  then throws queued tracks out.
- Session: a Mercury request whose answer came in parts may wait for ever if
  the shutdown falls between the two locks of `dispatch`.
- AirPlay: `PlaybackChanged` of a poll caught by the abort may follow `SessionEnded`; a
  receive loop that returns by itself (a read error, a decoder that does not start) is
  noticed by nobody, and its sender stays on the air as playing until it hangs up; a
  second `RECORD` after `TEARDOWN` is answered with 200 and starts nothing; commands go
  to the DACP endpoint that was resolved last, whoever is on the air.
- Dealer: the task that reconnects ends for good when no url can be had; a
  subscriber at a shorter path hides those at longer ones; a request that cannot be
  read is never answered, and an answer that waits for a connection that breaks is
  lost, for the responder holds the old sender.
- Web clients: with a configured port other than 443 there is no fallback access
  point; two callers may find the list empty after both looked.
- Cache: a copy or a removal that fails, or a removal that meets a save, leaves a
  file on the disk that is not counted until the next start.
- Main loop: the Spirc of the last user may pause or stop the shared player, or load on
  it, after the next Spirc has begun; the reconnect limit admits one more than its number.

## 6. Proofs

Every theorem is about the specification the runs check, for all values of the
constants that satisfy the named assumptions.  Each proof first states the
invariant that is inductive, of which the property is a part or a consequence;
most were first checked with TLC on the instance of the run.

| Module | Properties proved | Invariant they rest on |
|---|---|---|
| `PlayerProofs` | `TypeOK`, `DeviceReleased`, `ListenerAgrees`, `OnlyRefusedLoadsDiverge`, `IdsNeverGoBack`, `Protocol` | `IInv`, `Truth` |
| `AudioFetchProofs` | `TypeOK`, `NoOrphans`, `DownloadedOnce`, `ReadsWhatIsWritten`, `CachedFileIsComplete`, `RetriedFetchIsPending`, `RangesAreSets` | `IInv`, `Pending`, `RangesInv` |
| `ApiServerProofs` | `TypeOK`, `SpotifyCoverFitsTrack`, `CacheConsistent`, `NoGhost`, `SourceMovesOnPlay`, `ReplicaAgrees` | `TypeOK`, `Display`, `Replicated` |
| `SessionProofs` | `SilenceNoticed`, `ChannelsAreSignalled`, `AnswersFitRequests`, `OnlyHeldAnswersAreLeft` | `Types`, `Deadlines`, `Signals`, `KeysFit` and `MercuryFits` |
| `AirplayProofs` | `OnePollEach`, `OnlyReceiveErrorsGoUnseen`, `EndedLeavesTheAir` | `AirplayTypes`, `OnePollEach`, `Air` |
| `CoreProofs` | `AnsweredOnce`, `HandlerFound`, `ResolveFailsOnlyByRace`, `OneSpircServes`, `DiskWithinLimit` | `DealerInv`, `SpInv`, `MainInv`, `CacheInv` |
| `ConnectProofs` | `TypeOK`, `QueueSurvives` | `SpircInv` |

**Player.**  A handler is a composition of operators on the struct, so what a step
preserves is a lemma about each operator.  `IInv` adds to the types that the
process has exited exactly when `exit` is set, and states the device property of
the struct (`Released`).  `Truth` says what the listener knows: the last event
agrees with the state (`Agrees`), the ids it knows of are below the generator
(`Counted`; without it a new request could repeat an id), the announced id is
the state's unless a load was refused (`Follows`), a preloader is never left
terminated (a load that takes it over would have announced an unavailable track
as loading), and a state that became invalid does not outlive the round.  The
lemmas `...Tells` say what each operator does to the listener without assuming
the truth of anything, since within a handler the events and the state disagree;
the lemmas `...Told` say that whole handlers restore `Truth` and take the protocol
at most one step further (`Says`).  The refinement `Spec => Protocol` is then one
step: `Says` is `[PNext]_pvars` under the mapping.

**AudioFetch.**  The invariant says of every byte who owes it and that nobody
else does (`Exclusive`), that what a task received was requested
(`AllRequested`), that received data goes with the loop's phase (`LoopOK`), and
what the reader may still rely on after it left the lock (`ReaderOK`).  The
lemmas on `Runs` show that splitting a set into maximal runs partitions it.
`Pending` is `RetriedFetchIsPending` bytewise: it survives a failing request only
because the same lock region that gives bytes up marks the sleeper as woken.

**ApiServer.**  `Display` relates what is shown to where it came from: a fetched
cover is the wanted one, the wanted one is the displayed item's, and nothing of an
AirPlay session is left when none is connected.  `ReplicaAgrees` is about the lines a
subscriber has not read yet, so its invariant `Replicated` says that a subscriber
that reads all of its queue has the published state, and that only connections that
were accepted and not dropped are subscribed.  `Read` is a recursive function over
the queue; that appending one line is reading one line more is proved by the least
index at which it would fail (`LeastNumber` of `Iteration`).

**Loops.**  The library's induction theorems take a formula as a parameter, which
the installed provers cannot instantiate.  `Iteration` states induction of sets
instead: a set of rounds that holds the first and with each the next holds all
(`EveryRound`), a function that goes from round to round within a set stays in it
(`StaysIn`), and the recursive function a loop is written as exists and goes from round to
round (`RoundsExist`).  What a loop keeps is then a set of values given for that
loop.

**RangeSet.**  `RangesInv` is the property's first part: each vector is sorted,
has no empty range and a gap between any two, and stands for its set of bytes.  The
proof is about the operators: which ranges the loop of `add_range` passes, and that
merging ends at a gap; that `subtract_range` truncates at most the last range it
passes; that each round of `intersection` adds what two ranges share and that what
it goes past shares nothing more.  The queries and operations follow for any
normal vectors, so the theorem holds for files of any size, where the run has five
bytes.

**Connect.**  `SpircInv` says that every part of the task is of its type, that the window
is within its bounds (`Limit`: those of the code where no client sends lists of its own,
`MaxSent` where one does), that the track a shuffle put first is within the context
(`unshuffle` indexes it), that a transfer waiting for its context names its queued
track, and that a track is found unavailable only in scenes where that occurs.  For
the queue, every operation of `ConnectState` is shown to keep the queued head of the
window or to serve it from the front (`Served`), half-changed states of early
returns included, and the handlers of `Spirc` compose them.

**Session.**  `Deadlines` bounds the ticks since the last packet by what is left of
the deadline in each keep-alive state.  `Signals` says what each lock of `shutdown`
leaves behind for the next: an invalid session has a caller that is past its first
lock, one past its second has shut Mercury down and one past its third the channels,
and a manager that is invalid has no sender left and opens nothing more; a dispatch
that runs has not called it (`DispatchOnce`).  `KeysFit` and `MercuryFits` name, for
each sequence number given out, the request it was given to, and say that every
question the server was asked, every packet not yet read, every entry of a pending
table, the answer `dispatch` holds between its two lock regions and every answer
delivered agree with it.

**Airplay.**  `OnePollEach` is inductive with the types: an aborted task counts as
gone.  `Air` follows a session through the event channel (`Followed`): a report that it
plays, handled already or still queued, is followed by one that it does not, unless
its receive loop was started and not stopped or a poll task was the last to report.  A
session that ended has therefore left the air once the channel is empty, unless
that poll reported after the end (`late`).

**Dealer, SpClient, MainLoop, Cache.**  `AnsweredOnce` is inductive with the types and
with a responder's connection having been opened before; a handler that was accepted
is found because no handler's path begins with another's (`PrefixFree`), which is what
the check before an insertion keeps.  A caller about to take an access point finds one
unless another came first or the configured port leaves none (`WellPlaced`).  The loop
connects only when it holds no Spirc task, the handle it holds is the task's (`Held`),
the session served is the task's (`Sessions`), and a Spirc that goes on by itself has
been told to stop and its session is dead (`GivenUp`).  In the cache, the limiter's
total is the sum of what it holds (`Fits`), every file on the disk is counted, left
behind by an error or in the hands of a thread that will count or remove it
(`Accounted`), and while there is too much some thread is still to prune (`Pruned`):
with every thread done, the disk is within the limit.

Assumptions, all on constants: `PlayerAssumption`, `FetchAssumption` and
`ApiServerAssumption` are evaluated in `player`, `audio_fetch` and `api_server`;
`PathsAssumption`, `SocketsAssumption`, `SpircsAssumption`, `WantsAssumption`,
`ResolvableAssumption`, `IdsAssumption`, `ConnsAssumption`, `PollsAssumption`,
`CacheAssumption` and `RangesAssumption` in `core`; `ConnectAssumption` and
`SpircAssumption` in `connect`.  The last says what inputs there are: pages and
transfers of the right type, lists of a client up to a bound that is not below the
window's, and a transfer that plays from the queue names the
queued track.

Only model-checked: the liveness properties (fairness and ENABLED are out of the
prover's reach), and `OverlongShrinks`, `WindowOrdered` and `PlayingIsShown` of
`Spirc`.  The last two are true of the contexts the run gives and not of every
`Content`: a context in which a uri occurs twice repeats a track in the window, and
where the track that plays is not in the context that was resolved (`try_finish`,
`finish_transfer`), the device shows the context's first track while the other sounds.

## 7. Not modelled

- Device I/O, sample processing, decoders, mixers and dithering: numeric code and
  drivers; the player uses them through the outcomes their calls may have.
- Cryptography: the handshake, the Shannon codec, audio decryption, RSA and ALAC.
- Generated protobuf code and the metadata conversions; identifiers and their
  parsers: pure functions over long strings, covered by unit tests.
- Option parsing, OAuth, the player event hooks, zeroconf backends other than
  avahi.
- Code that nothing calls: `TokenProvider`, `Dealer::remove_handler`,
  `RequestStrategy::Infinitely`.
- In the modelled components: the player's `load_handles`, preloading in Spirc, search
  contexts, transfers out of autoplay, the credentials and volume files of the
  cache, the allow list of the control API.
