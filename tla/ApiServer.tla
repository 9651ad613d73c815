----------------------------- MODULE ApiServer -----------------------------
(***************************************************************************)
(* The control API, src/server.rs: a task that keeps what is playing now,  *)
(* fed by player events, by the events of the AirPlay receiver and by the  *)
(* cover fetches it started, and pushes every change to the subscribed     *)
(* connections.                                                            *)
(*                                                                         *)
(* The variable task is the ApiServerTask struct.  Its methods are         *)
(* operators from one value of the struct to the next, named as in the     *)
(* source; a handler runs to its end before the next select, so it is one  *)
(* step.  The reader and the writer task of a connection and the fetches   *)
(* run beside it.  An event or answer is a line in the connection's        *)
(* bounded queue; view is what a client makes of the lines it has read.    *)
(*                                                                         *)
(* Abstractions: titles, positions and the wording of lines are left out;  *)
(* of an AirPlay track only the connection that reported it is kept, of a  *)
(* picture only where it came from.  Volumes are a small range.  Transport *)
(* and volume commands change nothing in this task and are left out, and   *)
(* with them the routes they take (airplay_dacp, airplay_peer, spirc).     *)
(* A peer that is not on the allow list is refused before anything exists  *)
(* for it, so Accept is about the others.                                  *)
(***************************************************************************)
EXTENDS Naturals, Sequences, SequencesExt

CONSTANTS Tracks,           \* the Spotify items the player may report
          Urls,             \* the cover urls they offer
          None,             \* stands for the absence of a value
          CoverUrl,         \* the largest cover of each item, or None
          Senders,          \* the numbers of AirPlay connections
          Volumes,          \* the volumes reported
          COVER_CACHE_SIZE, \* covers kept
          CONNECTION_QUEUE, \* lines that may wait for one client
          MaxConnections,   \* bound: connections accepted in a behaviour
          MaxFetches        \* bound: fetches of one url under way at once

ASSUME ApiServerAssumption ==
  /\ None \notin Tracks \cup Urls \cup Senders
  /\ CoverUrl \in [Tracks -> Urls \cup {None}]
  /\ 0 \in Volumes
  /\ COVER_CACHE_SIZE \in Nat \ {0}
  /\ CONNECTION_QUEUE \in Nat \ {0}
  /\ MaxConnections \in Nat
  /\ MaxFetches \in Nat

VARIABLES task,     \* the ApiServerTask struct
          sockets,  \* per connection, its reader and its writer task
          view,     \* per subscriber, what it has made of the lines it read
          fetches   \* per url, the number of fetch_cover tasks under way

vars == <<task, sockets, view, fetches>>

-----------------------------------------------------------------------------
(* The data. *)

Ids == 0 .. MaxConnections - 1

\* TrackResponse.  item is the Spotify item, or the connection of an AirPlay
\* track; timed says that duration_ms is not 0.
TrackResponse ==
  [source : {"", "spotify", "airplay"}, item : Tracks \cup Senders \cup {None},
   timed : BOOLEAN]

EmptyTrack == [source |-> "", item |-> None, timed |-> FALSE]

SpotifyTrack(t) == [source |-> "spotify", item |-> t, timed |-> TRUE]

\* Cover.  key is the url it was fetched from or the connection that sent it.
Cover ==
  [from : {"none", "spotify", "airplay"}, key : Urls \cup Senders \cup {None}]

NoCover == [from |-> "none", key |-> None]

Fetched(url) == [from |-> "spotify", key |-> url]

Sent(c) == [from |-> "airplay", key |-> c]

\* An Event line.  fresh tells a client's first snapshot from one that answers
\* status or a repeated subscribe, as the client can, having asked for it.
Line ==
  [event : {"snapshot"}, track : TrackResponse, playing : BOOLEAN,
   volume : Volumes, fresh : BOOLEAN]
    \cup [event : {"track_changed"}, track : TrackResponse]
    \cup [event : {"playback_changed"}, playing : BOOLEAN]
    \cup [event : {"volume_changed"}, volume : Volumes]
    \cup [event : {"cover"}, cover : Cover]
    \cup [event : {"answer"}]

\* Connection, with the queue its sender feeds.  The queue outlives the entry in
\* the map: the writer drains what is left.  What a line says is kept for
\* subscribers only; for the others it is Answer, a line that takes its place.
Connection ==
  [open : BOOLEAN, subscribed : BOOLEAN, queue : Seq(Line)]

NoConnection == [open |-> FALSE, subscribed |-> FALSE, queue |-> <<>>]

Answer == [event |-> "answer"]

\* The connection without its subscription.
Unfollowed(connection, open) ==
  [open |-> open, subscribed |-> FALSE,
   queue |-> [i \in DOMAIN connection.queue |-> Answer]]

\* A subscriber's picture of the state.  It is followed only while the
\* connection is subscribed: what others do with their lines is their business.
View ==
  [track : TrackResponse, playing : BOOLEAN, volume : Volumes, cover : Cover]

NoView ==
  [track |-> EmptyTrack, playing |-> FALSE, volume |-> 0, cover |-> NoCover]

ApiServerTask ==
  [running : BOOLEAN, session : BOOLEAN, airplay_events : BOOLEAN,
   next_connection_id : 0 .. MaxConnections,
   connections : [Ids -> Connection],
   current_track : TrackResponse, current_volume : Volumes,
   is_playing : BOOLEAN, covers : Seq(Urls), current_cover : Cover,
   current_cover_url : Urls \cup {None}, active_source : {"Spotify", "Airplay"},
   airplay_connection : Senders \cup {None}]

-----------------------------------------------------------------------------
(* Lines to clients. *)

disconnect(s, id) ==
  [s EXCEPT !.connections[id] = Unfollowed(@, FALSE)]

\* Mutant: one line too many fits.
MutantFits(s, id) ==
  sockets[id].writer = "running" /\ Len(s.connections[id].queue) <= CONNECTION_QUEUE

\* try_send: there is room, and the writer task still holds the receiver.
Fits(s, id) ==
  sockets[id].writer = "running" /\ Len(s.connections[id].queue) < CONNECTION_QUEUE

\* A connection that cannot take the line is dropped.
send_line(s, line, id) ==
  CASE ~s.connections[id].open -> s
    [] s.connections[id].open /\ Fits(s, id) ->
         [s EXCEPT !.connections[id].queue = Append(@, line)]
    [] OTHER -> disconnect(s, id)

broadcast(s, line) ==
  [s EXCEPT !.connections =
     [id \in Ids |-> IF s.connections[id].subscribed
                     THEN send_line(s, line, id).connections[id]
                     ELSE s.connections[id]]]

has_subscribers(s) ==
  \E id \in Ids : s.connections[id].open /\ s.connections[id].subscribed

announce_track(s) ==
  broadcast(s, [event |-> "track_changed", track |-> s.current_track])

\* The position is left out; a seek changes nothing else but is pushed.
update_playback(s, is_playing) ==
  broadcast([s EXCEPT !.is_playing = is_playing],
            [event |-> "playback_changed", playing |-> is_playing])

announce_volume(s, v) ==
  broadcast([s EXCEPT !.current_volume = v],
            [event |-> "volume_changed", volume |-> v])

encode_cover(s) == [event |-> "cover", cover |-> s.current_cover]

announce_cover(s, cover) ==
  LET t == [s EXCEPT !.current_cover = cover]
  IN IF has_subscribers(t) THEN broadcast(t, encode_cover(t)) ELSE t

clear_now_playing(s) ==
  update_playback(
    announce_track([s EXCEPT !.current_track = EmptyTrack,
                             !.current_cover = NoCover,
                             !.current_cover_url = None]), FALSE)

-----------------------------------------------------------------------------
(* Covers. *)

\* Mutant: nobody looks whether the url is there already.
MutantInsert(covers, url) ==
  IF Len(covers) >= COVER_CACHE_SIZE THEN Append(Tail(covers), url)
  ELSE Append(covers, url)

\* CoverCache::insert: the oldest goes when the cache is full.
insert(covers, url) ==
  CASE url \in ToSet(covers) -> covers
    [] url \notin ToSet(covers) /\ Len(covers) >= COVER_CACHE_SIZE ->
         Append(Tail(covers), url)
    [] OTHER -> Append(covers, url)

\* load_cover without the fetch it may start.
load_cover(s, url) ==
  LET t == [s EXCEPT !.current_cover = NoCover, !.current_cover_url = url]
  IN IF url \in ToSet(s.covers) THEN announce_cover(t, Fetched(url)) ELSE t

Fetches(s, url) == url # None /\ url \notin ToSet(s.covers) /\ s.session

\* Mutant: a picture that arrives late is published all the same.
MutantCover(s, url) ==
  announce_cover([s EXCEPT !.covers = insert(@, url)], Fetched(url))

\* A fetch that ended well.
handle_cover(s, url) ==
  LET t == [s EXCEPT !.covers = insert(@, url)]
  IN IF s.current_cover_url = url THEN announce_cover(t, Fetched(url)) ELSE t

-----------------------------------------------------------------------------
(* Events of the player and of the AirPlay receiver. *)

\* Mutant: a cached cover overtakes the track it belongs to.
MutantTrack(s, t) ==
  announce_track(load_cover([s EXCEPT !.current_track = SpotifyTrack(t)],
                            CoverUrl[t]))

SpotifyTrackChanged(s, t) ==
  load_cover(announce_track([s EXCEPT !.current_track = SpotifyTrack(t)]),
             CoverUrl[t])

\* Paused stands for Stopped too, and Seeked for PositionCorrection and Loading.
PlayerEvent ==
  [e : {"TrackChanged"}, track : Tracks] \cup [e : {"VolumeChanged"}, volume : Volumes]
    \cup [e : {"Playing", "Paused", "Seeked", "SessionDisconnected"}]

handle_player_event(s, ev) ==
  CASE ev.e = "TrackChanged" -> SpotifyTrackChanged(s, ev.track)
    [] ev.e = "Playing" ->
         update_playback([s EXCEPT !.active_source = "Spotify"], TRUE)
    [] ev.e = "Paused" -> update_playback(s, FALSE)
    [] ev.e = "Seeked" -> update_playback(s, s.is_playing)
    [] ev.e = "VolumeChanged" -> announce_volume(s, ev.volume)
    [] ev.e = "SessionDisconnected" ->
         IF s.active_source = "Spotify" THEN clear_now_playing(s) ELSE s

airplay_is_on_the_air(s, c) ==
  s.active_source = "Airplay" /\ s.airplay_connection = c

\* Only starting to play puts a session on the air.
AirplayPlayback(s, c, is_playing) ==
  CASE is_playing ->
         update_playback([s EXCEPT !.active_source = "Airplay",
                                   !.airplay_connection = c], TRUE)
    [] ~is_playing /\ airplay_is_on_the_air(s, c) -> update_playback(s, FALSE)
    [] OTHER -> s

AirplayTrackChanged(s, c, timed, cover) ==
  LET t == announce_track(
             [s EXCEPT !.current_cover = NoCover, !.current_cover_url = None,
                       !.current_track = [source |-> "airplay", item |-> c,
                                          timed |-> timed]])
  IN IF cover = NoCover THEN t ELSE announce_cover(t, cover)

\* A duration the metadata did not give is taken from the progress report.
ProgressChanged(s, timed) ==
  update_playback([s EXCEPT !.current_track.timed = @ \/ timed], s.is_playing)

\* Mutant: control goes back to Spotify when the sender stops.
MutantHandBack(s, c) ==
  IF s.airplay_connection # c THEN s
  ELSE clear_now_playing([s EXCEPT !.airplay_connection = None,
                                   !.active_source = "Spotify"])

\* Mutant: what the session was playing stays on display.
MutantSessionEnded(s, c) ==
  IF s.airplay_connection = c THEN [s EXCEPT !.airplay_connection = None] ELSE s

SessionEnded(s, c) ==
  LET t == [s EXCEPT !.airplay_connection = None]
  IN CASE s.airplay_connection # c -> s
       [] airplay_is_on_the_air(s, c) -> clear_now_playing(t)
       [] OTHER -> t

AirplayEvent ==
  [e : {"SessionEnded"}, c : Senders]
    \cup [e : {"PlaybackChanged"}, c : Senders, is_playing : BOOLEAN]
    \cup [e : {"TrackChanged"}, c : Senders, timed : BOOLEAN, cover : BOOLEAN]
    \cup [e : {"CoverChanged"}, c : Senders, oversized : BOOLEAN]
    \cup [e : {"ProgressChanged"}, c : Senders, timed : BOOLEAN]
    \cup [e : {"VolumeChanged"}, c : Senders, volume : Volumes]

\* What counts only from the session that is on the air.
OnTheAirEvent(s, ev) ==
  CASE ev.e = "TrackChanged" ->
         AirplayTrackChanged(s, ev.c, ev.timed,
                             IF ev.cover THEN Sent(ev.c) ELSE NoCover)
    [] ev.e = "CoverChanged" ->
         IF ev.oversized THEN s ELSE announce_cover(s, Sent(ev.c))
    [] ev.e = "ProgressChanged" -> ProgressChanged(s, ev.timed)
    [] ev.e = "VolumeChanged" -> announce_volume(s, ev.volume)

handle_airplay_event(s, ev) ==
  CASE ev.e = "SessionEnded" -> SessionEnded(s, ev.c)
    [] ev.e = "PlaybackChanged" -> AirplayPlayback(s, ev.c, ev.is_playing)
    [] OTHER -> IF airplay_is_on_the_air(s, ev.c) THEN OnTheAirEvent(s, ev)
                ELSE s

-----------------------------------------------------------------------------
(* Requests. *)

snapshot(s, fresh) ==
  [event |-> "snapshot", track |-> s.current_track, playing |-> s.is_playing,
   volume |-> s.current_volume, fresh |-> fresh]

\* A new subscriber also gets the picture that is already here.
subscribe(s, id) ==
  LET is_new == ~s.connections[id].subscribed
      t == send_line([s EXCEPT !.connections[id].subscribed = TRUE],
                     snapshot(s, is_new), id)
  IN IF is_new /\ s.current_cover # NoCover
     THEN send_line(t, encode_cover(t), id)
     ELSE t

unsubscribe(s, id) == [s EXCEPT !.connections[id] = Unfollowed(@, TRUE)]

\* getvol stands for current_track too.
Commands == {"getvol", "status", "subscribe", "unsubscribe"}

\* The connection may be gone by the time its request is handled.
handle_request(s, id, command) ==
  IF ~s.connections[id].open THEN s
  ELSE
  CASE command = "getvol" -> send_line(s, Answer, id)
    [] command = "status" ->
         send_line(s, IF s.connections[id].subscribed THEN snapshot(s, FALSE)
                      ELSE Answer, id)
    [] command = "subscribe" -> subscribe(s, id)
    [] command = "unsubscribe" -> unsubscribe(s, id)

-----------------------------------------------------------------------------
(* The steps of the server task: one arm of its select each. *)

\* The server task goes from task to t.
Becomes(t) ==
  /\ task' = t
  /\ view' = [id \in Ids |-> IF t.connections[id].subscribed THEN view[id] ELSE NoView]

InitialTask ==
  [running |-> TRUE, session |-> FALSE, airplay_events |-> FALSE,
   next_connection_id |-> 0, connections |-> [id \in Ids |-> NoConnection],
   current_track |-> EmptyTrack, current_volume |-> 0, is_playing |-> FALSE,
   covers |-> <<>>, current_cover |-> NoCover, current_cover_url |-> None,
   active_source |-> "Spotify", airplay_connection |-> None]

SetSession ==
  /\ task.running
  /\ Becomes([task EXCEPT !.session = TRUE])
  /\ UNCHANGED <<sockets, fetches>>

SetAirplay ==
  /\ task.running
  /\ Becomes([task EXCEPT !.airplay_events = TRUE])
  /\ UNCHANGED <<sockets, fetches>>

\* The fetch that load_cover starts is bounded by MaxFetches.
PlayerEventArrives(ev) ==
  LET url == IF ev.e = "TrackChanged" THEN CoverUrl[ev.track] ELSE None
  IN /\ task.running
     /\ Becomes(handle_player_event(task, ev))
     /\ IF Fetches(task, url)
        THEN /\ fetches[url] < MaxFetches
             /\ fetches' = [fetches EXCEPT ![url] = @ + 1]
        ELSE UNCHANGED fetches
     /\ UNCHANGED sockets

AirplayEventArrives(ev) ==
  /\ task.running /\ task.airplay_events
  /\ Becomes(handle_airplay_event(task, ev))
  /\ UNCHANGED <<sockets, fetches>>

AirplayChannelCloses ==
  /\ task.running /\ task.airplay_events
  /\ Becomes([task EXCEPT !.airplay_events = FALSE])
  /\ UNCHANGED <<sockets, fetches>>

\* A fetch_cover task ends and its result is taken: a failed, timed out or
\* oversized one carries no cover, and nobody takes one after the shutdown.
FetchEnds(url, ok) ==
  /\ fetches[url] > 0
  /\ fetches' = [fetches EXCEPT ![url] = @ - 1]
  /\ Becomes(IF ok /\ task.running THEN handle_cover(task, url) ELSE task)
  /\ UNCHANGED sockets

\* accept and admit, and a client that knows nothing yet.
Accept ==
  LET id == task.next_connection_id
  IN /\ task.running
     /\ id < MaxConnections
     /\ Becomes([task EXCEPT !.next_connection_id = id + 1,
                             !.connections[id].open = TRUE])
     /\ sockets' = [sockets EXCEPT ![id] = [reader |-> "reading",
                                            writer |-> "running"]]
     /\ UNCHANGED fetches

\* A request that was read before the stream ended comes before the Closed.
Request(id, command) ==
  /\ task.running
  /\ sockets[id].reader \in {"reading", "closing"}
  /\ Becomes(handle_request(task, id, command))
  /\ UNCHANGED <<sockets, fetches>>

HandleClosed(id) ==
  /\ task.running
  /\ sockets[id].reader = "closing"
  /\ sockets' = [sockets EXCEPT ![id].reader = "done"]
  /\ Becomes(disconnect(task, id))
  /\ UNCHANGED fetches

\* The handle is dropped: the loop ends, and the struct goes with every
\* Connection in it.
Shutdown ==
  /\ task.running
  /\ Becomes([InitialTask EXCEPT !.running = FALSE,
                                 !.connections =
                [id \in Ids |-> Unfollowed(task.connections[id], FALSE)]])
  /\ UNCHANGED <<sockets, fetches>>

-----------------------------------------------------------------------------
(* The tasks of a connection, and its client. *)

\* The reader meets the end of the stream, an error or an overlong line.
HangUp(id) ==
  /\ sockets[id].reader = "reading"
  /\ sockets' = [sockets EXCEPT ![id].reader = "closing"]
  /\ UNCHANGED <<task, view, fetches>>

\* With the server task gone there is nobody to report to.
ReaderStops(id) ==
  /\ ~task.running
  /\ sockets[id].reader \in {"reading", "closing"}
  /\ sockets' = [sockets EXCEPT ![id].reader = "done"]
  /\ UNCHANGED <<task, view, fetches>>

\* What a client makes of a line: track_changed tells it to drop the picture.
Apply(v, line) ==
  CASE line.event = "snapshot" ->
         [track |-> line.track, playing |-> line.playing, volume |-> line.volume,
          cover |-> IF line.fresh THEN NoCover ELSE v.cover]
    [] line.event = "track_changed" ->
         [v EXCEPT !.track = line.track, !.cover = NoCover]
    [] line.event = "playback_changed" -> [v EXCEPT !.playing = line.playing]
    [] line.event = "volume_changed" -> [v EXCEPT !.volume = line.volume]
    [] line.event = "cover" -> [v EXCEPT !.cover = line.cover]
    [] line.event = "answer" -> v

\* write_all ends once the client has taken the line: a client that stops
\* reading stops the writer here.
Write(id) ==
  /\ sockets[id].writer = "running"
  /\ task.connections[id].queue # <<>>
  /\ view' = IF task.connections[id].subscribed
             THEN [view EXCEPT ![id] = Apply(@, Head(task.connections[id].queue))]
             ELSE view
  /\ task' = [task EXCEPT !.connections[id].queue = Tail(@)]
  /\ UNCHANGED <<sockets, fetches>>

\* The write fails: what is queued is lost, and the reader meets the same end.
WriterFails(id) ==
  /\ sockets[id].writer = "running"
  /\ task.connections[id].queue # <<>>
  /\ sockets' = [sockets EXCEPT ![id].writer = "ended",
                                ![id].reader = IF @ = "reading" THEN "closing" ELSE @]
  /\ task' = [task EXCEPT !.connections[id].queue = <<>>]
  /\ UNCHANGED <<view, fetches>>

\* Mutant: without an explicit shutdown the socket stays up while the reader
\* holds its half.
MutantShutdown(id) ==
  /\ sockets[id].writer = "running"
  /\ ~task.connections[id].open /\ task.connections[id].queue = <<>>
  /\ sockets[id].reader = "done"
  /\ sockets' = [sockets EXCEPT ![id].writer = "ended"]
  /\ UNCHANGED <<task, view, fetches>>

\* The sender was dropped and the queue drained: the socket is shut down.
WriterShutdown(id) ==
  /\ sockets[id].writer = "running"
  /\ ~task.connections[id].open /\ task.connections[id].queue = <<>>
  /\ sockets' = [sockets EXCEPT ![id].writer = "ended"]
  /\ UNCHANGED <<task, view, fetches>>

-----------------------------------------------------------------------------
Init ==
  /\ task = InitialTask
  /\ sockets = [id \in Ids |-> [reader |-> "none", writer |-> "none"]]
  /\ view = [id \in Ids |-> NoView]
  /\ fetches = [url \in Urls |-> 0]

Next ==
  \/ SetSession \/ SetAirplay \/ AirplayChannelCloses \/ Accept \/ Shutdown
  \/ \E ev \in PlayerEvent : PlayerEventArrives(ev)
  \/ \E ev \in AirplayEvent : AirplayEventArrives(ev)
  \/ \E url \in Urls, ok \in BOOLEAN : FetchEnds(url, ok)
  \/ \E id \in Ids :
       \/ \E command \in Commands : Request(id, command)
       \/ HangUp(id) \/ HandleClosed(id) \/ ReaderStops(id)
       \/ Write(id) \/ WriterFails(id) \/ WriterShutdown(id)

Spec == Init /\ [][Next]_vars

\* The runtime keeps polling the server task and the two tasks of a
\* connection.  Nothing makes a client read, so Write has no fairness.
FairSpec ==
  /\ Spec
  /\ \A id \in Ids :
       /\ WF_vars(HandleClosed(id))
       /\ WF_vars(WriterShutdown(id))

-----------------------------------------------------------------------------
(* Properties. *)

\* Types, and no more lines wait for a client than its queue holds
\* (CONNECTION_QUEUE, send_line).
TypeOK ==
  /\ task \in ApiServerTask
  /\ \A id \in Ids : Len(task.connections[id].queue) <= CONNECTION_QUEUE
  /\ sockets \in [Ids -> [reader : {"none", "reading", "closing", "done"},
                          writer : {"none", "running", "ended"}]]
  /\ view \in [Ids -> View]
  /\ fetches \in [Urls -> 0 .. MaxFetches]

\* What a client that holds v makes of the lines of a queue, one after another.
Read(v, queue) ==
  LET read[n \in 0 .. Len(queue)] ==
        IF n = 0 THEN v ELSE Apply(read[n - 1], queue[n])
  IN read[Len(queue)]

\* What a client holds once it has read every line that waits for it.
Replica(id) == Read(view[id], task.connections[id].queue)

\* Whatever was pushed, dropped, asked for in between or fetched late, a
\* subscriber whose stream is up ends up with the published state: track,
\* play state, volume and picture.  Its track may only lack the duration,
\* which a progress report fills in without pushing it.
ReplicaAgrees ==
  \A id \in Ids :
    task.connections[id].subscribed /\ sockets[id].writer = "running" =>
    LET v == Replica(id)
    IN /\ [v.track EXCEPT !.timed = task.current_track.timed] = task.current_track
       /\ v.track.timed => task.current_track.timed
       /\ v.playing = task.is_playing
       /\ v.volume = task.current_volume
       /\ v.cover = task.current_cover

\* A picture that was fetched is published only under the track it belongs to,
\* however late the fetch ends and whichever source took over meanwhile
\* (handle_cover, current_cover_url).
SpotifyCoverFitsTrack ==
  task.current_cover.from = "spotify" =>
    /\ task.current_track.source = "spotify"
    /\ CoverUrl[task.current_track.item] = task.current_cover.key

\* The cover cache keeps its bound and its order lists each cover once, also
\* when one url is fetched twice at the same time (CoverCache::insert).
CacheConsistent ==
  Len(task.covers) <= COVER_CACHE_SIZE /\ IsInjective(task.covers)

\* An AirPlay session that ended leaves neither its track nor a running
\* position on display (SessionEnded, clear_now_playing).
NoGhost ==
  task.active_source = "Airplay" /\ task.airplay_connection = None =>
    task.current_track.source # "airplay" /\ ~task.is_playing

\* Control moves to the other source only when that one starts to play: a
\* pause, a stop or the end of a session never hands it over (enum Source).
SourceMovesOnPlay ==
  [][task'.running /\ task'.active_source # task.active_source
       => task'.is_playing]_vars

\* A client that keeps reading and whose connection was dropped sees the
\* socket close: the writer drains what is queued and shuts it down.
DroppedReaderIsTold ==
  \A id \in Ids :
    WF_vars(Write(id)) =>
      (~task.connections[id].open /\ sockets[id].writer = "running"
         ~> sockets[id].writer = "ended")

\* What disconnect documents: dropping a Connection ends the writer's loop and
\* its shutdown takes the socket down, unless the client hangs up or the server
\* stops first.
DroppedIsClosed ==
  \A id \in Ids :
    ~task.connections[id].open /\ sockets[id].writer = "running"
      ~> \/ sockets[id].writer = "ended"
         \/ sockets[id].reader # "reading"
         \/ ~task.running

=============================================================================
