--------------------------- MODULE ApiServerProofs ---------------------------
(***************************************************************************)
(* Proofs about the control API, for any items, covers, AirPlay senders,   *)
(* clients, cache size and queue length.                                   *)
(***************************************************************************)
EXTENDS ApiServer, WellFoundedInduction, TLAPS

-----------------------------------------------------------------------------
(* Types.                                                                  *)

QueuesFit(s) ==
  \A id \in Ids : Len(s.connections[id].queue) <= CONNECTION_QUEUE

TaskOK(s) == s \in ApiServerTask /\ QueuesFit(s)

Sockets == [Ids -> [reader : {"none", "reading", "closing", "done"},
                    writer : {"none", "running", "ended"}]]

LEMMA LineTypes ==
  /\ Answer \in Line
  /\ \A t \in TrackResponse : [event |-> "track_changed", track |-> t] \in Line
  /\ \A b \in BOOLEAN : [event |-> "playback_changed", playing |-> b] \in Line
  /\ \A v \in Volumes : [event |-> "volume_changed", volume |-> v] \in Line
  /\ \A c \in Cover : [event |-> "cover", cover |-> c] \in Line
BY DEF Answer, Line

LEMMA SnapshotType ==
  ASSUME NEW s \in ApiServerTask, NEW fresh \in BOOLEAN
  PROVE  snapshot(s, fresh) \in Line
<1>1. /\ s.current_track \in TrackResponse /\ s.is_playing \in BOOLEAN
      /\ s.current_volume \in Volumes
  BY DEF ApiServerTask
<1>2. QED
  BY <1>1 DEF snapshot, Line

LEMMA SpotifyTypes ==
  /\ EmptyTrack \in TrackResponse /\ NoCover \in Cover
  /\ \A t \in Tracks : SpotifyTrack(t) \in TrackResponse
  /\ \A u \in Urls : Fetched(u) \in Cover
  /\ \A c \in Senders : Sent(c) \in Cover
BY DEF EmptyTrack, NoCover, SpotifyTrack, Fetched, Sent, TrackResponse, Cover

\* A connection that takes a line, and one that no longer follows.
LEMMA ConnectionTypes ==
  ASSUME NEW c \in Connection
  PROVE  /\ \A b \in BOOLEAN :
              /\ Unfollowed(c, b) \in Connection
              /\ Len(Unfollowed(c, b).queue) = Len(c.queue)
         /\ \A line \in Line :
              /\ [c EXCEPT !.queue = Append(@, line)] \in Connection
              /\ Len([c EXCEPT !.queue = Append(@, line)].queue)
                   = Len(c.queue) + 1
<1>1. c.queue \in Seq(Line)
  BY DEF Connection
<1>2. ASSUME NEW b \in BOOLEAN
      PROVE  /\ Unfollowed(c, b) \in Connection
             /\ Len(Unfollowed(c, b).queue) = Len(c.queue)
  <2>1. /\ [i \in DOMAIN c.queue |-> Answer] \in Seq(Line)
        /\ Len([i \in DOMAIN c.queue |-> Answer]) = Len(c.queue)
    BY <1>1, LineTypes
  <2>2. QED
    BY <2>1 DEF Unfollowed, Connection
<1>3. ASSUME NEW line \in Line
      PROVE  /\ [c EXCEPT !.queue = Append(@, line)] \in Connection
             /\ Len([c EXCEPT !.queue = Append(@, line)].queue)
                  = Len(c.queue) + 1
  BY <1>1 DEF Connection
<1>4. QED
  BY <1>2, <1>3

\* One connection of the struct is replaced by another.
LEMMA ReplaceConnection ==
  ASSUME NEW s, TaskOK(s), NEW id \in Ids, NEW c \in Connection,
         Len(c.queue) <= CONNECTION_QUEUE
  PROVE  TaskOK([s EXCEPT !.connections[id] = c])
<1>1. s.connections \in [Ids -> Connection]
  BY DEF TaskOK, ApiServerTask
<1>2. [s EXCEPT !.connections[id] = c] \in ApiServerTask
  BY DEF TaskOK, ApiServerTask
<1>3. QED
  BY <1>1, <1>2 DEF TaskOK, QueuesFit, ApiServerTask

LEMMA DisconnectOK ==
  ASSUME NEW s, TaskOK(s), NEW id \in Ids
  PROVE  TaskOK(disconnect(s, id))
<1> DEFINE c == Unfollowed(s.connections[id], FALSE)
<1>1. /\ s.connections[id] \in Connection
      /\ s.connections \in [Ids -> Connection]
      /\ Len(s.connections[id].queue) <= CONNECTION_QUEUE
  BY DEF TaskOK, QueuesFit, ApiServerTask
<1>2. c \in Connection /\ Len(c.queue) <= CONNECTION_QUEUE
  BY <1>1, ConnectionTypes
<1>3. disconnect(s, id) = [s EXCEPT !.connections[id] = c]
  BY <1>1 DEF disconnect
<1> HIDE DEF c
<1>4. QED
  BY <1>2, <1>3, ReplaceConnection

LEMMA SendLineOK ==
  ASSUME NEW s, TaskOK(s), NEW id \in Ids, NEW line \in Line
  PROVE  TaskOK(send_line(s, line, id))
<1>1. s.connections[id] \in Connection /\ s.connections \in [Ids -> Connection]
  BY DEF TaskOK, ApiServerTask
<1>2. CASE s.connections[id].open /\ Fits(s, id)
  <2> DEFINE c == [s.connections[id] EXCEPT !.queue = Append(@, line)]
  <2>1. c \in Connection /\ Len(c.queue) = Len(s.connections[id].queue) + 1
    BY <1>1, ConnectionTypes
  <2>2. Len(c.queue) <= CONNECTION_QUEUE
    <3>1. Len(s.connections[id].queue) \in Nat
      BY <1>1 DEF Connection
    <3>2. QED
      BY <1>2, <2>1, <3>1, ApiServerAssumption DEF Fits
  <2>3. TaskOK([s EXCEPT !.connections[id] = c])
    BY <2>1, <2>2, ReplaceConnection
  <2>4. send_line(s, line, id) = [s EXCEPT !.connections[id] = c]
    BY <1>1, <1>2 DEF send_line
  <2>5. QED
    BY <2>3, <2>4
<1>3. QED
  BY <1>2, DisconnectOK DEF send_line

LEMMA BroadcastOK ==
  ASSUME NEW s, TaskOK(s), NEW line \in Line
  PROVE  TaskOK(broadcast(s, line))
<1> DEFINE after == [id \in Ids |-> IF s.connections[id].subscribed
                                    THEN send_line(s, line, id).connections[id]
                                    ELSE s.connections[id]]
<1>1. ASSUME NEW id \in Ids
      PROVE  /\ after[id] \in Connection
             /\ Len(after[id].queue) <= CONNECTION_QUEUE
  BY SendLineOK DEF TaskOK, QueuesFit, ApiServerTask
<1>2. after \in [Ids -> Connection]
  BY <1>1
<1> HIDE DEF after
<1>3. [s EXCEPT !.connections = after] \in ApiServerTask
  BY <1>2 DEF TaskOK, ApiServerTask
<1>4. TaskOK([s EXCEPT !.connections = after])
  BY <1>1, <1>3 DEF TaskOK, QueuesFit, ApiServerTask
<1>5. QED
  BY <1>4 DEF broadcast, after
\* What is published may be replaced by any value of its type.
LEMMA ReplacePublished ==
  ASSUME NEW s, TaskOK(s)
  PROVE  /\ \A t \in TrackResponse : TaskOK([s EXCEPT !.current_track = t])
         /\ \A b \in BOOLEAN : TaskOK([s EXCEPT !.is_playing = b])
         /\ \A v \in Volumes : TaskOK([s EXCEPT !.current_volume = v])
         /\ \A c \in Cover : TaskOK([s EXCEPT !.current_cover = c])
         /\ \A u \in Urls \cup {None} :
              TaskOK([s EXCEPT !.current_cover_url = u])
         /\ \A x \in {"Spotify", "Airplay"} :
              TaskOK([s EXCEPT !.active_source = x])
         /\ \A c \in Senders \cup {None} :
              TaskOK([s EXCEPT !.airplay_connection = c])
         /\ \A q \in Seq(Urls) : TaskOK([s EXCEPT !.covers = q])
BY DEF TaskOK, QueuesFit, ApiServerTask

LEMMA AnnounceTrackOK ==
  ASSUME NEW s, TaskOK(s)
  PROVE  TaskOK(announce_track(s))
<1>1. s.current_track \in TrackResponse
  BY DEF TaskOK, ApiServerTask
<1>2. QED
  BY <1>1, LineTypes, BroadcastOK DEF announce_track

LEMMA UpdatePlaybackOK ==
  ASSUME NEW s, TaskOK(s), NEW b \in BOOLEAN
  PROVE  TaskOK(update_playback(s, b))
<1>1. TaskOK([s EXCEPT !.is_playing = b])
  BY ReplacePublished
<1>2. QED
  BY <1>1, LineTypes, BroadcastOK DEF update_playback

LEMMA AnnounceVolumeOK ==
  ASSUME NEW s, TaskOK(s), NEW v \in Volumes
  PROVE  TaskOK(announce_volume(s, v))
<1>1. TaskOK([s EXCEPT !.current_volume = v])
  BY ReplacePublished
<1>2. QED
  BY <1>1, LineTypes, BroadcastOK DEF announce_volume

LEMMA AnnounceCoverOK ==
  ASSUME NEW s, TaskOK(s), NEW c \in Cover
  PROVE  TaskOK(announce_cover(s, c))
<1> DEFINE t == [s EXCEPT !.current_cover = c]
<1>1. TaskOK(t)
  BY ReplacePublished
<1> HIDE DEF t
<1>2. encode_cover(t) \in Line
  BY <1>1, LineTypes DEF encode_cover, TaskOK, ApiServerTask
<1>3. TaskOK(IF has_subscribers(t) THEN broadcast(t, encode_cover(t)) ELSE t)
  BY <1>1, <1>2, BroadcastOK
<1>4. QED
  BY <1>3 DEF announce_cover, t

LEMMA ClearNowPlayingOK ==
  ASSUME NEW s, TaskOK(s)
  PROVE  TaskOK(clear_now_playing(s))
<1> DEFINE t == [s EXCEPT !.current_track = EmptyTrack,
                          !.current_cover = NoCover,
                          !.current_cover_url = None]
<1>1. TaskOK(t)
  BY SpotifyTypes DEF TaskOK, QueuesFit, ApiServerTask
<1> HIDE DEF t
<1>2. TaskOK(update_playback(announce_track(t), FALSE))
  BY <1>1, AnnounceTrackOK, UpdatePlaybackOK
<1>3. QED
  BY <1>2 DEF clear_now_playing, t

\* CoverCache::insert.
LEMMA InsertType ==
  ASSUME NEW covers \in Seq(Urls), NEW url \in Urls
  PROVE  insert(covers, url) \in Seq(Urls)
<1>1. Len(covers) >= COVER_CACHE_SIZE => Tail(covers) \in Seq(Urls)
  BY ApiServerAssumption
<1>2. QED
  BY <1>1 DEF insert

LEMMA LoadCoverOK ==
  ASSUME NEW s, TaskOK(s), NEW url \in Urls \cup {None}
  PROVE  TaskOK(load_cover(s, url))
<1> DEFINE t == [s EXCEPT !.current_cover = NoCover, !.current_cover_url = url]
<1>1. TaskOK(t)
  BY SpotifyTypes DEF TaskOK, QueuesFit, ApiServerTask
<1>2. url \in ToSet(s.covers) => Fetched(url) \in Cover
  BY SpotifyTypes DEF TaskOK, ApiServerTask, ToSet
<1> HIDE DEF t
<1>3. TaskOK(IF url \in ToSet(s.covers) THEN announce_cover(t, Fetched(url))
             ELSE t)
  BY <1>1, <1>2, AnnounceCoverOK
<1>4. QED
  BY <1>3 DEF load_cover, t

LEMMA HandleCoverOK ==
  ASSUME NEW s, TaskOK(s), NEW url \in Urls
  PROVE  TaskOK(handle_cover(s, url))
<1> DEFINE t == [s EXCEPT !.covers = insert(@, url)]
<1>1. insert(s.covers, url) \in Seq(Urls)
  BY InsertType DEF TaskOK, ApiServerTask
<1>2. t = [s EXCEPT !.covers = insert(s.covers, url)]
  OBVIOUS
<1>3. TaskOK(t)
  BY <1>1, <1>2, ReplacePublished
<1> HIDE DEF t
<1>4. TaskOK(IF s.current_cover_url = url THEN announce_cover(t, Fetched(url))
             ELSE t)
  BY <1>3, AnnounceCoverOK, SpotifyTypes
<1>5. QED
  BY <1>4 DEF handle_cover, t

LEMMA PlayerEventOK ==
  ASSUME NEW s, TaskOK(s), NEW ev \in PlayerEvent
  PROVE  TaskOK(handle_player_event(s, ev))
<1>1. ev.e \in {"TrackChanged", "VolumeChanged", "Playing", "Paused", "Seeked",
                "SessionDisconnected"}
  BY DEF PlayerEvent
<1>2. CASE ev.e = "TrackChanged"
  <2>1. ev.track \in Tracks
    BY <1>2 DEF PlayerEvent
  <2>2. TaskOK([s EXCEPT !.current_track = SpotifyTrack(ev.track)])
    BY <2>1, SpotifyTypes, ReplacePublished
  <2>3. TaskOK(SpotifyTrackChanged(s, ev.track))
    BY <2>1, <2>2, AnnounceTrackOK, LoadCoverOK, ApiServerAssumption
       DEF SpotifyTrackChanged
  <2>4. QED
    BY <1>2, <2>3 DEF handle_player_event
<1>3. CASE ev.e = "VolumeChanged"
  <2>1. ev.volume \in Volumes
    BY <1>3 DEF PlayerEvent
  <2>2. QED
    BY <1>3, <2>1, AnnounceVolumeOK DEF handle_player_event
<1>4. CASE ev.e = "Playing"
  <2>1. TaskOK([s EXCEPT !.active_source = "Spotify"])
    BY ReplacePublished
  <2>2. QED
    BY <1>4, <2>1, UpdatePlaybackOK DEF handle_player_event
<1>5. CASE ev.e \in {"Paused", "Seeked"}
  <2>1. s.is_playing \in BOOLEAN
    BY DEF TaskOK, ApiServerTask
  <2>2. QED
    BY <1>5, <2>1, UpdatePlaybackOK DEF handle_player_event
<1>6. CASE ev.e = "SessionDisconnected"
  BY <1>6, ClearNowPlayingOK DEF handle_player_event
<1>7. QED
  BY <1>1, <1>2, <1>3, <1>4, <1>5, <1>6
LEMMA AirplayPlaybackOK ==
  ASSUME NEW s, TaskOK(s), NEW c \in Senders, NEW b \in BOOLEAN
  PROVE  TaskOK(AirplayPlayback(s, c, b))
<1>1. TaskOK([s EXCEPT !.active_source = "Airplay", !.airplay_connection = c])
  BY DEF TaskOK, QueuesFit, ApiServerTask
<1>2. QED
  BY <1>1, UpdatePlaybackOK DEF AirplayPlayback

LEMMA AirplayTrackChangedOK ==
  ASSUME NEW s, TaskOK(s), NEW c \in Senders, NEW timed \in BOOLEAN,
         NEW cover \in Cover
  PROVE  TaskOK(AirplayTrackChanged(s, c, timed, cover))
<1> DEFINE t == [s EXCEPT !.current_cover = NoCover,
                          !.current_cover_url = None,
                          !.current_track = [source |-> "airplay", item |-> c,
                                             timed |-> timed]]
<1>1. [source |-> "airplay", item |-> c, timed |-> timed] \in TrackResponse
  BY DEF TrackResponse
<1>2. TaskOK(t)
  BY <1>1, SpotifyTypes DEF TaskOK, QueuesFit, ApiServerTask
<1> HIDE DEF t
<1>3. TaskOK(IF cover = NoCover THEN announce_track(t)
             ELSE announce_cover(announce_track(t), cover))
  BY <1>2, AnnounceTrackOK, AnnounceCoverOK
<1>4. QED
  BY <1>3 DEF AirplayTrackChanged, t

LEMMA ProgressChangedOK ==
  ASSUME NEW s, TaskOK(s), NEW timed \in BOOLEAN
  PROVE  TaskOK(ProgressChanged(s, timed))
<1> DEFINE track == [s.current_track EXCEPT !.timed = @ \/ timed]
<1>1. s.current_track \in TrackResponse /\ s.is_playing \in BOOLEAN
  BY DEF TaskOK, ApiServerTask
<1>2. track \in TrackResponse
  BY <1>1 DEF TrackResponse
<1>3. [s EXCEPT !.current_track.timed = @ \/ timed]
        = [s EXCEPT !.current_track = track]
  BY <1>1 DEF TrackResponse
<1> HIDE DEF track
<1>4. QED
  BY <1>1, <1>2, <1>3, ReplacePublished, UpdatePlaybackOK DEF ProgressChanged

LEMMA SessionEndedOK ==
  ASSUME NEW s, TaskOK(s), NEW c \in Senders
  PROVE  TaskOK(SessionEnded(s, c))
<1>1. TaskOK([s EXCEPT !.airplay_connection = None])
  BY ReplacePublished
<1>2. QED
  BY <1>1, ClearNowPlayingOK DEF SessionEnded

LEMMA AirplayEventOK ==
  ASSUME NEW s, TaskOK(s), NEW ev \in AirplayEvent
  PROVE  TaskOK(handle_airplay_event(s, ev))
<1>1. /\ ev.e \in {"SessionEnded", "PlaybackChanged", "TrackChanged",
                   "CoverChanged", "ProgressChanged", "VolumeChanged"}
      /\ ev.c \in Senders
  BY DEF AirplayEvent
<1>2. CASE ev.e = "SessionEnded"
  BY <1>1, <1>2, SessionEndedOK DEF handle_airplay_event
<1>3. CASE ev.e = "PlaybackChanged"
  <2>1. ev.is_playing \in BOOLEAN
    BY <1>3 DEF AirplayEvent
  <2>2. QED
    BY <1>1, <1>3, <2>1, AirplayPlaybackOK DEF handle_airplay_event
<1>4. CASE ev.e \notin {"SessionEnded", "PlaybackChanged"}
  <2> SUFFICES TaskOK(OnTheAirEvent(s, ev))
    BY <1>4 DEF handle_airplay_event
  <2>1. CASE ev.e = "TrackChanged"
    <3>1. ev.timed \in BOOLEAN
      BY <2>1 DEF AirplayEvent
    <3>2. (IF ev.cover THEN Sent(ev.c) ELSE NoCover) \in Cover
      BY <1>1, SpotifyTypes
    <3>3. QED
      BY <1>1, <2>1, <3>1, <3>2, AirplayTrackChangedOK DEF OnTheAirEvent
  <2>2. CASE ev.e = "CoverChanged"
    BY <1>1, <2>2, SpotifyTypes, AnnounceCoverOK DEF OnTheAirEvent
  <2>3. CASE ev.e = "ProgressChanged"
    <3>1. ev.timed \in BOOLEAN
      BY <2>3 DEF AirplayEvent
    <3>2. QED
      BY <2>3, <3>1, ProgressChangedOK DEF OnTheAirEvent
  <2>4. CASE ev.e = "VolumeChanged"
    <3>1. ev.volume \in Volumes
      BY <2>4 DEF AirplayEvent
    <3>2. QED
      BY <2>4, <3>1, AnnounceVolumeOK DEF OnTheAirEvent
  <2>5. QED
    BY <1>1, <1>4, <2>1, <2>2, <2>3, <2>4
<1>5. QED
  BY <1>2, <1>3, <1>4

LEMMA SubscribeOK ==
  ASSUME NEW s, TaskOK(s), NEW id \in Ids
  PROVE  TaskOK(subscribe(s, id))
<1> DEFINE is_new == ~s.connections[id].subscribed
           c == [s.connections[id] EXCEPT !.subscribed = TRUE]
           t == send_line([s EXCEPT !.connections[id] = c],
                          snapshot(s, is_new), id)
<1>1. /\ s.connections \in [Ids -> Connection] /\ s \in ApiServerTask
      /\ Len(s.connections[id].queue) <= CONNECTION_QUEUE
  BY DEF TaskOK, QueuesFit, ApiServerTask
<1>2. c \in Connection /\ c.queue = s.connections[id].queue
  BY <1>1 DEF Connection
<1>3. [s EXCEPT !.connections[id].subscribed = TRUE]
        = [s EXCEPT !.connections[id] = c]
  BY <1>1
<1> HIDE DEF c
<1>4. TaskOK([s EXCEPT !.connections[id] = c])
  BY <1>1, <1>2, ReplaceConnection
<1>5. snapshot(s, is_new) \in Line
  BY <1>1, SnapshotType
<1>6. TaskOK(t)
  BY <1>4, <1>5, SendLineOK
<1>7. subscribe(s, id) = IF is_new /\ s.current_cover # NoCover
                         THEN send_line(t, encode_cover(t), id) ELSE t
  BY <1>3 DEF subscribe
<1> HIDE DEF t
<1>8. encode_cover(t) \in Line
  BY <1>6, LineTypes DEF encode_cover, TaskOK, ApiServerTask
<1>9. QED
  BY <1>6, <1>7, <1>8, SendLineOK

LEMMA UnsubscribeOK ==
  ASSUME NEW s, TaskOK(s), NEW id \in Ids
  PROVE  TaskOK(unsubscribe(s, id))
<1> DEFINE c == Unfollowed(s.connections[id], TRUE)
<1>1. /\ s.connections[id] \in Connection
      /\ s.connections \in [Ids -> Connection]
      /\ Len(s.connections[id].queue) <= CONNECTION_QUEUE
  BY DEF TaskOK, QueuesFit, ApiServerTask
<1>2. c \in Connection /\ Len(c.queue) <= CONNECTION_QUEUE
  BY <1>1, ConnectionTypes
<1>3. unsubscribe(s, id) = [s EXCEPT !.connections[id] = c]
  BY <1>1 DEF unsubscribe
<1> HIDE DEF c
<1>4. QED
  BY <1>2, <1>3, ReplaceConnection

LEMMA RequestOK ==
  ASSUME NEW s, TaskOK(s), NEW id \in Ids, NEW command \in Commands
  PROVE  TaskOK(handle_request(s, id, command))
<1>1. (IF s.connections[id].subscribed THEN snapshot(s, FALSE) ELSE Answer)
        \in Line
  BY LineTypes, SnapshotType DEF TaskOK
<1>2. QED
  BY <1>1, LineTypes, SendLineOK, SubscribeOK, UnsubscribeOK
     DEF handle_request, Commands
LEMMA NoViewType == NoView \in View
BY SpotifyTypes, ApiServerAssumption DEF NoView, View

LEMMA ApplyType ==
  ASSUME NEW v \in View, NEW line \in Line
  PROVE  Apply(v, line) \in View
<1>1. line.event \in {"snapshot", "track_changed", "playback_changed",
                      "volume_changed", "cover", "answer"}
  BY DEF Line
<1>2. CASE line.event = "snapshot"
  <2>1. /\ line.track \in TrackResponse /\ line.playing \in BOOLEAN
        /\ line.volume \in Volumes
    BY <1>2 DEF Line
  <2>2. (IF line.fresh THEN NoCover ELSE v.cover) \in Cover
    BY SpotifyTypes DEF View
  <2>3. QED
    BY <1>2, <2>1, <2>2 DEF Apply, View
<1>3. CASE line.event = "track_changed"
  <2>1. line.track \in TrackResponse
    BY <1>3 DEF Line
  <2>2. QED
    BY <1>3, <2>1, SpotifyTypes DEF Apply, View
<1>4. CASE line.event = "playback_changed"
  <2>1. line.playing \in BOOLEAN
    BY <1>4 DEF Line
  <2>2. QED
    BY <1>4, <2>1 DEF Apply, View
<1>5. CASE line.event = "volume_changed"
  <2>1. line.volume \in Volumes
    BY <1>5 DEF Line
  <2>2. QED
    BY <1>5, <2>1 DEF Apply, View
<1>6. CASE line.event = "cover"
  <2>1. line.cover \in Cover
    BY <1>6 DEF Line
  <2>2. QED
    BY <1>6, <2>1 DEF Apply, View
<1>7. CASE line.event = "answer"
  BY <1>7 DEF Apply
<1>8. QED
  BY <1>1, <1>2, <1>3, <1>4, <1>5, <1>6, <1>7

LEMMA TypeParts ==
  TypeOK <=> /\ TaskOK(task) /\ sockets \in Sockets /\ view \in [Ids -> View]
             /\ fetches \in [Urls -> 0 .. MaxFetches]
BY DEF TypeOK, TaskOK, QueuesFit, Sockets

\* A turn of the server task leaves the types alone.
LEMMA BecomesTypes ==
  ASSUME TypeOK, NEW t, TaskOK(t), Becomes(t), sockets' \in Sockets,
         fetches' \in [Urls -> 0 .. MaxFetches]
  PROVE  TypeOK'
<1>1. TaskOK(task')
  BY DEF Becomes
<1>2. view' \in [Ids -> View]
  BY NoViewType DEF Becomes, TypeOK
<1>3. QED
  BY <1>1, <1>2 DEF TypeOK, TaskOK, QueuesFit, Sockets

LEMMA InitialTaskType == InitialTask \in ApiServerTask
<1>1. NoConnection \in Connection
  BY DEF NoConnection, Connection
<1>2. [id \in Ids |-> NoConnection] \in [Ids -> Connection]
  BY <1>1
<1>3. QED
  BY <1>2, SpotifyTypes, ApiServerAssumption DEF InitialTask, ApiServerTask

LEMMA InitTypes == Init => TypeOK
<1> SUFFICES ASSUME Init PROVE TypeOK
  OBVIOUS
<1>1. NoConnection.queue = <<>>
  BY DEF NoConnection
<1>2. TaskOK(task)
  BY <1>1, InitialTaskType, ApiServerAssumption DEF Init, InitialTask, TaskOK, QueuesFit
<1>3. sockets \in Sockets
  BY DEF Init, Sockets
<1>4. view \in [Ids -> View]
  BY NoViewType DEF Init
<1>5. fetches \in [Urls -> 0 .. MaxFetches]
  BY ApiServerAssumption DEF Init
<1>6. QED
  BY <1>2, <1>3, <1>4, <1>5, TypeParts

LEMMA ShutdownType ==
  ASSUME TypeOK
  PROVE  TaskOK([InitialTask EXCEPT
                   !.running = FALSE,
                   !.connections = [id \in Ids |->
                      Unfollowed(task.connections[id], FALSE)]])
<1> DEFINE after == [id \in Ids |-> Unfollowed(task.connections[id], FALSE)]
<1>1. TaskOK(task)
  BY TypeParts
<1>2. ASSUME NEW id \in Ids
      PROVE  /\ after[id] \in Connection
             /\ Len(after[id].queue) <= CONNECTION_QUEUE
  BY <1>1, ConnectionTypes DEF TaskOK, QueuesFit, ApiServerTask
<1>3. after \in [Ids -> Connection]
  BY <1>2
<1> HIDE DEF after
<1> DEFINE t == [InitialTask EXCEPT !.running = FALSE, !.connections = after]
<1>4. t \in ApiServerTask /\ t.connections = after
  <2>1. InitialTask \in ApiServerTask
    BY InitialTaskType
  <2>2. QED
    BY <1>3, <2>1 DEF ApiServerTask
<1>5. TaskOK(t)
  BY <1>2, <1>4 DEF TaskOK, QueuesFit
<1>6. QED
  BY <1>5 DEF after

\* The writer takes lines off the queue of its connection.
LEMMA ShorterQueueOK ==
  ASSUME NEW s, TaskOK(s), NEW id \in Ids, NEW q \in Seq(Line),
         Len(q) <= Len(s.connections[id].queue)
  PROVE  TaskOK([s EXCEPT !.connections[id].queue = q])
<1> DEFINE c == [s.connections[id] EXCEPT !.queue = q]
<1>1. /\ s.connections \in [Ids -> Connection]
      /\ Len(s.connections[id].queue) <= CONNECTION_QUEUE
      /\ s.connections[id].queue \in Seq(Line)
  BY DEF TaskOK, QueuesFit, ApiServerTask, Connection
<1>2. c \in Connection /\ c.queue = q
  BY <1>1 DEF Connection
<1>3. Len(c.queue) <= CONNECTION_QUEUE
  BY <1>1, <1>2, ApiServerAssumption
<1>4. [s EXCEPT !.connections[id].queue = q] = [s EXCEPT !.connections[id] = c]
  BY <1>1
<1> HIDE DEF c
<1>5. QED
  BY <1>2, <1>3, <1>4, ReplaceConnection
LEMMA StepTypes == TypeOK /\ [Next]_vars => TypeOK'
<1> SUFFICES ASSUME TypeOK, [Next]_vars PROVE TypeOK'
  OBVIOUS
<1>1. /\ TaskOK(task) /\ sockets \in Sockets /\ view \in [Ids -> View]
      /\ fetches \in [Urls -> 0 .. MaxFetches]
  BY TypeParts
<1>2. CASE SetSession
  <2>1. TaskOK([task EXCEPT !.session = TRUE])
    BY <1>1 DEF TaskOK, QueuesFit, ApiServerTask
  <2>2. QED
    BY <1>1, <1>2, <2>1, BecomesTypes DEF SetSession
<1>3. CASE SetAirplay
  <2>1. TaskOK([task EXCEPT !.airplay_events = TRUE])
    BY <1>1 DEF TaskOK, QueuesFit, ApiServerTask
  <2>2. QED
    BY <1>1, <1>3, <2>1, BecomesTypes DEF SetAirplay
<1>4. CASE AirplayChannelCloses
  <2>1. TaskOK([task EXCEPT !.airplay_events = FALSE])
    BY <1>1 DEF TaskOK, QueuesFit, ApiServerTask
  <2>2. QED
    BY <1>1, <1>4, <2>1, BecomesTypes DEF AirplayChannelCloses
<1>5. CASE Accept
  <2> DEFINE id == task.next_connection_id
             c == [task.connections[id] EXCEPT !.open = TRUE]
             s == [task EXCEPT !.next_connection_id = id + 1]
  <2>1. id \in Ids /\ id + 1 \in 0 .. MaxConnections
    BY <1>1, <1>5, ApiServerAssumption DEF Accept, Ids, TaskOK, ApiServerTask
  <2>2. TaskOK(s) /\ s.connections = task.connections
    BY <1>1, <2>1 DEF TaskOK, QueuesFit, ApiServerTask
  <2>3. c \in Connection /\ Len(c.queue) <= CONNECTION_QUEUE
    BY <1>1, <2>1 DEF TaskOK, QueuesFit, ApiServerTask, Connection
  <2>4. [task EXCEPT !.next_connection_id = id + 1,
                     !.connections[id].open = TRUE]
          = [s EXCEPT !.connections[id] = c]
    BY <1>1, <2>1 DEF TaskOK, ApiServerTask
  <2>5. sockets' \in Sockets
    BY <1>1, <1>5, <2>1 DEF Accept, Sockets
  <2>6. Becomes([s EXCEPT !.connections[id] = c])
    BY <1>5, <2>4 DEF Accept
  <2>7. TaskOK([s EXCEPT !.connections[id] = c])
    <3> HIDE DEF id, c, s
    <3>1. QED
      BY <2>1, <2>2, <2>3, ReplaceConnection
  <2>8. QED
    <3>1. fetches' = fetches
      BY <1>5 DEF Accept
    <3> HIDE DEF id, c, s
    <3>2. QED
      BY <1>1, <2>5, <2>6, <2>7, <3>1, BecomesTypes
<1>6. CASE Shutdown
  BY <1>1, <1>6, ShutdownType, BecomesTypes DEF Shutdown
<1>7. ASSUME NEW ev \in PlayerEvent, PlayerEventArrives(ev) PROVE TypeOK'
  <2>1. TaskOK(handle_player_event(task, ev))
    BY <1>1, PlayerEventOK
  <2>2. fetches' \in [Urls -> 0 .. MaxFetches]
    <3> DEFINE url == IF ev.e = "TrackChanged" THEN CoverUrl[ev.track]
                      ELSE None
    <3>1. ev.e = "TrackChanged" => ev.track \in Tracks
      BY DEF PlayerEvent
    <3>2. url \in Urls \cup {None}
      BY <3>1, ApiServerAssumption
    <3>3. \/ UNCHANGED fetches
          \/ /\ url # None /\ fetches[url] < MaxFetches
             /\ fetches' = [fetches EXCEPT ![url] = @ + 1]
      BY <1>7 DEF PlayerEventArrives, Fetches
    <3> HIDE DEF url
    <3>4. QED
      BY <1>1, <3>2, <3>3, ApiServerAssumption
  <2>3. QED
    BY <1>1, <1>7, <2>1, <2>2, BecomesTypes DEF PlayerEventArrives
<1>8. ASSUME NEW ev \in AirplayEvent, AirplayEventArrives(ev) PROVE TypeOK'
  BY <1>1, <1>8, AirplayEventOK, BecomesTypes DEF AirplayEventArrives
<1>9. ASSUME NEW url \in Urls, NEW ok \in BOOLEAN, FetchEnds(url, ok)
      PROVE  TypeOK'
  <2>1. TaskOK(IF ok /\ task.running THEN handle_cover(task, url) ELSE task)
    BY <1>1, HandleCoverOK
  <2>2. fetches' \in [Urls -> 0 .. MaxFetches]
    BY <1>1, <1>9, ApiServerAssumption DEF FetchEnds
  <2>3. QED
    BY <1>1, <1>9, <2>1, <2>2, BecomesTypes DEF FetchEnds
<1>10. ASSUME NEW id \in Ids, NEW command \in Commands, Request(id, command)
       PROVE  TypeOK'
  BY <1>1, <1>10, RequestOK, BecomesTypes DEF Request
<1>11. ASSUME NEW id \in Ids, HandleClosed(id) PROVE TypeOK'
  <2>1. sockets' \in Sockets
    BY <1>1, <1>11 DEF HandleClosed, Sockets
  <2>2. QED
    BY <1>1, <1>11, <2>1, DisconnectOK, BecomesTypes DEF HandleClosed
<1>12. ASSUME NEW id \in Ids, HangUp(id) \/ ReaderStops(id)
                                \/ WriterShutdown(id)
       PROVE  TypeOK'
  <2>1. sockets' \in Sockets
    BY <1>1, <1>12 DEF HangUp, ReaderStops, WriterShutdown, Sockets
  <2>2. UNCHANGED <<task, view, fetches>>
    BY <1>12 DEF HangUp, ReaderStops, WriterShutdown
  <2>3. QED
    BY <1>1, <2>1, <2>2 DEF TypeOK, Sockets
<1>13. ASSUME NEW id \in Ids, Write(id) PROVE TypeOK'
  <2> DEFINE q == task.connections[id].queue
  <2>1. q \in Seq(Line) /\ q # <<>>
    BY <1>1, <1>13 DEF Write, TaskOK, ApiServerTask, Connection
  <2>2. Head(q) \in Line /\ Tail(q) \in Seq(Line) /\ Len(Tail(q)) <= Len(q)
    <3> HIDE DEF q
    <3>1. Head(q) \in Line /\ Tail(q) \in Seq(Line) /\ Len(Tail(q)) = Len(q) - 1
      BY <2>1
    <3>2. QED
      BY <2>1, <3>1
  <2>3. task' = [task EXCEPT !.connections[id].queue = Tail(q)]
    BY <1>1, <1>13 DEF Write, TaskOK, ApiServerTask
  <2>4. view' \in [Ids -> View]
    BY <1>1, <1>13, <2>2, ApplyType DEF Write
  <2>5. UNCHANGED <<sockets, fetches>>
    BY <1>13 DEF Write
  <2>6. TaskOK(task')
    BY <1>1, <2>2, <2>3, ShorterQueueOK
  <2>7. QED
    BY <1>1, <2>4, <2>5, <2>6 DEF TypeOK, TaskOK, QueuesFit, Sockets
<1>14. ASSUME NEW id \in Ids, WriterFails(id) PROVE TypeOK'
  <2>1. task.connections[id].queue \in Seq(Line)
    BY <1>1 DEF TaskOK, ApiServerTask, Connection
  <2>2. <<>> \in Seq(Line) /\ Len(<<>>) <= Len(task.connections[id].queue)
    BY <2>1
  <2>3. task' = [task EXCEPT !.connections[id].queue = <<>>]
    BY <1>14 DEF WriterFails
  <2>4. TaskOK(task')
    BY <1>1, <2>2, <2>3, ShorterQueueOK
  <2>5. sockets' \in Sockets
    BY <1>1, <1>14 DEF WriterFails, Sockets
  <2>6. UNCHANGED <<view, fetches>>
    BY <1>14 DEF WriterFails
  <2>7. QED
    BY <1>1, <2>4, <2>5, <2>6 DEF TypeOK, TaskOK, QueuesFit, Sockets
<1>15. CASE UNCHANGED vars
  BY <1>15 DEF vars, TypeOK
<1>16. QED
  BY <1>2, <1>3, <1>4, <1>5, <1>6, <1>7, <1>8, <1>9, <1>10, <1>11, <1>12,
     <1>13, <1>14, <1>15 DEF Next

\* The struct, its connections, the lines that wait and what clients make of
\* them keep their types, and no queue outgrows its bound (CONNECTION_QUEUE).
THEOREM TypesHold == Spec => []TypeOK
BY InitTypes, StepTypes, PTL DEF Spec
-----------------------------------------------------------------------------
(* What is on display, and which source is in control.                     *)

\* What the struct keeps beside its connections.
Published(s) ==
  <<s.running, s.session, s.airplay_events, s.current_track,
    s.current_volume, s.is_playing, s.covers, s.current_cover,
    s.current_cover_url, s.active_source, s.airplay_connection>>

Fields == {"running", "session", "airplay_events", "next_connection_id",
           "connections", "current_track", "current_volume", "is_playing",
           "covers", "current_cover", "current_cover_url", "active_source",
           "airplay_connection"}

Shape(s) ==
  DOMAIN s = Fields /\ DOMAIN s.current_track = {"source", "item", "timed"}

\* A fetched picture is the one that is wanted, and a wanted picture is the one
\* of the item on display: handle_cover compares with the wanted url alone.
CoverIsWanted(s) ==
  s.current_cover.from = "spotify" =>
    s.current_cover.key = s.current_cover_url /\ s.current_cover_url # None
WantedFitsTrack(s) ==
  s.current_cover_url # None =>
    /\ s.current_track.source = "spotify"
    /\ CoverUrl[s.current_track.item] = s.current_cover_url
GhostFree(s) ==
  s.active_source = "Airplay" /\ s.airplay_connection = None =>
    s.current_track.source # "airplay" /\ s.is_playing = FALSE
CacheOK(covers) ==
  /\ covers \in Seq(Urls) /\ Len(covers) <= COVER_CACHE_SIZE
  /\ \A i, j \in 1 .. Len(covers) : covers[i] = covers[j] => i = j

Display(s) ==
  /\ Shape(s) /\ CoverIsWanted(s) /\ WantedFitsTrack(s) /\ GhostFree(s)
  /\ CacheOK(s.covers)

\* Nothing of this is about the connections.
LEMMA DisplayIsPublished ==
  ASSUME NEW s, NEW t, Display(s), DOMAIN t = Fields,
         Published(t) = Published(s)
  PROVE  Display(t) /\ t.active_source = s.active_source
BY DEF Display, Shape, CoverIsWanted, WantedFitsTrack, GhostFree, Published

LEMMA BroadcastPublishesNothing ==
  ASSUME NEW s, NEW line, Display(s)
  PROVE  /\ Display(broadcast(s, line))
         /\ Published(broadcast(s, line)) = Published(s)
<1>1. /\ DOMAIN broadcast(s, line) = Fields
      /\ Published(broadcast(s, line)) = Published(s)
  BY DEF broadcast, Display, Shape, Published, Fields
<1>2. QED
  BY <1>1, DisplayIsPublished

LEMMA SendLinePublishesNothing ==
  ASSUME NEW s, NEW line, NEW id, Display(s)
  PROVE  /\ Display(send_line(s, line, id))
         /\ Published(send_line(s, line, id)) = Published(s)
<1>1. /\ DOMAIN send_line(s, line, id) = Fields
      /\ Published(send_line(s, line, id)) = Published(s)
  BY DEF send_line, disconnect, Display, Shape, Published, Fields
<1>2. QED
  BY <1>1, DisplayIsPublished

\* Whoever shows that something runs on has a session to show it for.
LEMMA PlaybackKeepsDisplay ==
  ASSUME NEW s, NEW b, Display(s),
         \/ b = FALSE \/ b = s.is_playing
         \/ s.active_source # "Airplay" \/ s.airplay_connection # None
  PROVE  /\ Display(update_playback(s, b))
         /\ update_playback(s, b).active_source = s.active_source
         /\ update_playback(s, b).is_playing = b
<1> DEFINE t == [s EXCEPT !.is_playing = b]
<1>1. Display(t) /\ t.active_source = s.active_source /\ t.is_playing = b
  BY DEF Display, Shape, Fields, CoverIsWanted, WantedFitsTrack, GhostFree
<1> HIDE DEF t
<1>2. QED
  BY <1>1, BroadcastPublishesNothing DEF update_playback, Published, t

LEMMA VolumeKeepsDisplay ==
  ASSUME NEW s, NEW v, Display(s)
  PROVE  /\ Display(announce_volume(s, v))
         /\ announce_volume(s, v).active_source = s.active_source
<1> DEFINE t == [s EXCEPT !.current_volume = v]
<1>1. Display(t) /\ t.active_source = s.active_source
  BY DEF Display, Shape, Fields, CoverIsWanted, WantedFitsTrack, GhostFree
<1> HIDE DEF t
<1>2. QED
  BY <1>1, BroadcastPublishesNothing DEF announce_volume, Published, t

LEMMA CoverKeepsDisplay ==
  ASSUME NEW s, NEW cover, Display(s),
         cover.from = "spotify" =>
           cover.key = s.current_cover_url /\ s.current_cover_url # None
  PROVE  /\ Display(announce_cover(s, cover))
         /\ announce_cover(s, cover).active_source = s.active_source
<1> DEFINE t == [s EXCEPT !.current_cover = cover]
<1>1. Display(t) /\ t.active_source = s.active_source
  BY DEF Display, Shape, Fields, CoverIsWanted, WantedFitsTrack, GhostFree
<1> HIDE DEF t
<1>2. QED
  BY <1>1, BroadcastPublishesNothing DEF announce_cover, Published, t

LEMMA TrackKeepsDisplay ==
  ASSUME NEW s, Display(s)
  PROVE  /\ Display(announce_track(s))
         /\ Published(announce_track(s)) = Published(s)
BY BroadcastPublishesNothing DEF announce_track

LEMMA ClearKeepsDisplay ==
  ASSUME NEW s, DOMAIN s = Fields, CacheOK(s.covers)
  PROVE  /\ Display(clear_now_playing(s))
         /\ clear_now_playing(s).active_source = s.active_source
<1> DEFINE t == [s EXCEPT !.current_track = EmptyTrack,
                          !.current_cover = NoCover,
                          !.current_cover_url = None]
           u == announce_track(t)
<1>1. /\ DOMAIN t = Fields /\ t.active_source = s.active_source
      /\ t.covers = s.covers /\ t.current_track = EmptyTrack
      /\ t.current_cover = NoCover /\ t.current_cover_url = None
      /\ t.is_playing = s.is_playing
  BY DEF Fields
<1> HIDE DEF t
<1>2. /\ DOMAIN u = Fields /\ u.active_source = s.active_source
      /\ u.covers = s.covers /\ u.current_track = EmptyTrack
      /\ u.current_cover = NoCover /\ u.current_cover_url = None
  BY <1>1 DEF announce_track, broadcast, Fields
<1> HIDE DEF u
<1> DEFINE v == [u EXCEPT !.is_playing = FALSE]
<1>3. Display(v) /\ v.active_source = s.active_source
  <2>1. /\ DOMAIN v = Fields /\ v.active_source = s.active_source
        /\ v.covers = s.covers /\ v.current_track = EmptyTrack
        /\ v.current_cover = NoCover /\ v.current_cover_url = None
        /\ v.is_playing = FALSE
    BY <1>2 DEF Fields
  <2> HIDE DEF v
  <2>2. /\ DOMAIN EmptyTrack = {"source", "item", "timed"}
        /\ EmptyTrack.source # "airplay" /\ NoCover.from # "spotify"
    BY DEF EmptyTrack, NoCover
  <2>3. QED
    BY <2>1, <2>2 DEF Display, Shape, CoverIsWanted, WantedFitsTrack, GhostFree
<1> HIDE DEF v
<1>4. /\ Display(update_playback(u, FALSE))
      /\ update_playback(u, FALSE).active_source = s.active_source
  BY <1>3, BroadcastPublishesNothing DEF update_playback, Published, v
<1>5. QED
  BY <1>4 DEF clear_now_playing, t, u
-----------------------------------------------------------------------------
(* The handlers keep the display.                                          *)

LEMMA InsertKeepsCache ==
  ASSUME NEW covers, CacheOK(covers), NEW url \in Urls
  PROVE  CacheOK(insert(covers, url))
<1>1. CASE url \in ToSet(covers)
  BY <1>1 DEF insert
<1>2. CASE url \notin ToSet(covers) /\ Len(covers) >= COVER_CACHE_SIZE
  <2> DEFINE q == Tail(covers)
             r == Append(q, url)
  <2>1. covers \in Seq(Urls) /\ covers # <<>> /\ Len(covers) \in Nat \ {0}
    BY <1>2, ApiServerAssumption DEF CacheOK
  <2>2. /\ q \in Seq(Urls) /\ Len(q) = Len(covers) - 1
        /\ \A i \in 1 .. Len(q) : q[i] = covers[i + 1]
    BY <2>1
  <2> HIDE DEF q
  <2>3. /\ r \in Seq(Urls) /\ Len(r) = Len(covers)
        /\ \A i \in 1 .. Len(covers) - 1 : r[i] = covers[i + 1]
        /\ r[Len(covers)] = url
    BY <2>1, <2>2
  <2>4. \A i \in 1 .. Len(covers) : covers[i] # url
    BY <1>2, <2>1 DEF ToSet
  <2> HIDE DEF r
  <2>5. ASSUME NEW i \in 1 .. Len(r), NEW j \in 1 .. Len(r), r[i] = r[j]
        PROVE  i = j
    <3>1. CASE i < Len(covers) /\ j < Len(covers)
      BY <2>1, <2>3, <2>5, <3>1 DEF CacheOK
    <3>2. CASE i = Len(covers) \/ j = Len(covers)
      BY <2>1, <2>3, <2>4, <2>5, <3>2
    <3>3. QED
      BY <2>1, <2>3, <3>1, <3>2
  <2>6. CacheOK(r)
    BY <2>3, <2>5 DEF CacheOK
  <2>7. QED
    BY <1>2, <2>6 DEF insert, r, q
<1>3. CASE url \notin ToSet(covers) /\ ~(Len(covers) >= COVER_CACHE_SIZE)
  <2> DEFINE r == Append(covers, url)
  <2>1. covers \in Seq(Urls) /\ Len(covers) \in Nat
    BY DEF CacheOK
  <2>2. /\ r \in Seq(Urls) /\ Len(r) = Len(covers) + 1
        /\ \A i \in 1 .. Len(covers) : r[i] = covers[i]
        /\ r[Len(covers) + 1] = url
    BY <2>1
  <2>3. \A i \in 1 .. Len(covers) : covers[i] # url
    BY <1>3, <2>1 DEF ToSet
  <2> HIDE DEF r
  <2>4. ASSUME NEW i \in 1 .. Len(r), NEW j \in 1 .. Len(r), r[i] = r[j]
        PROVE  i = j
    BY <2>1, <2>2, <2>3, <2>4 DEF CacheOK
  <2>5. Len(r) <= COVER_CACHE_SIZE
    BY <1>3, <2>1, <2>2, ApiServerAssumption
  <2>6. CacheOK(r)
    BY <2>2, <2>4, <2>5 DEF CacheOK
  <2>7. QED
    BY <1>3, <2>6 DEF insert, r
<1>4. QED
  BY <1>1, <1>2, <1>3

\* load_cover is called with the url of the item on display.
LEMMA LoadCoverKeepsDisplay ==
  ASSUME NEW s, Shape(s), CacheOK(s.covers), GhostFree(s), NEW url,
         url # None => /\ s.current_track.source = "spotify"
                       /\ CoverUrl[s.current_track.item] = url,
         url \in ToSet(s.covers) => url # None
  PROVE  /\ Display(load_cover(s, url))
         /\ load_cover(s, url).active_source = s.active_source
<1> DEFINE t == [s EXCEPT !.current_cover = NoCover, !.current_cover_url = url]
<1>1. /\ DOMAIN t = Fields /\ t.active_source = s.active_source
      /\ t.covers = s.covers /\ t.current_track = s.current_track
      /\ t.current_cover = NoCover /\ t.current_cover_url = url
      /\ t.is_playing = s.is_playing
      /\ t.airplay_connection = s.airplay_connection
  BY DEF Shape, Fields
<1> HIDE DEF t
<1>2. NoCover.from # "spotify"
  BY DEF NoCover
<1>3. Display(t)
  BY <1>1, <1>2 DEF Display, Shape, CoverIsWanted, WantedFitsTrack, GhostFree
<1>4. url \in ToSet(s.covers) =>
        /\ Display(announce_cover(t, Fetched(url)))
        /\ announce_cover(t, Fetched(url)).active_source = s.active_source
  BY <1>1, <1>3, CoverKeepsDisplay DEF Fetched
<1>5. QED
  BY <1>1, <1>3, <1>4 DEF load_cover, t

LEMMA HandleCoverKeepsDisplay ==
  ASSUME NEW s, Display(s), NEW url \in Urls
  PROVE  /\ Display(handle_cover(s, url))
         /\ handle_cover(s, url).active_source = s.active_source
<1> DEFINE t == [s EXCEPT !.covers = insert(@, url)]
<1>1. CacheOK(insert(s.covers, url))
  BY InsertKeepsCache DEF Display
<1>2. /\ DOMAIN t = Fields /\ t.active_source = s.active_source
      /\ t.covers = insert(s.covers, url)
      /\ t.current_track = s.current_track
      /\ t.current_cover = s.current_cover
      /\ t.current_cover_url = s.current_cover_url
      /\ t.is_playing = s.is_playing
      /\ t.airplay_connection = s.airplay_connection
  BY DEF Display, Shape, Fields
<1> HIDE DEF t
<1>3. Display(t)
  BY <1>1, <1>2 DEF Display, Shape, CoverIsWanted, WantedFitsTrack, GhostFree
<1>4. s.current_cover_url = url =>
        /\ Display(announce_cover(t, Fetched(url)))
        /\ announce_cover(t, Fetched(url)).active_source = s.active_source
  BY <1>2, <1>3, CoverKeepsDisplay, ApiServerAssumption DEF Fetched
<1>5. QED
  BY <1>2, <1>3, <1>4 DEF handle_cover, t
\* Control moves only with something that plays.
Moved(s, t) == t.active_source # s.active_source => t.is_playing = TRUE

LEMMA PlayerEventKeepsDisplay ==
  ASSUME NEW s, TaskOK(s), Display(s), NEW ev \in PlayerEvent
  PROVE  /\ Display(handle_player_event(s, ev))
         /\ Moved(s, handle_player_event(s, ev))
<1>1. ev.e \in {"TrackChanged", "VolumeChanged", "Playing", "Paused", "Seeked",
                "SessionDisconnected"}
  BY DEF PlayerEvent
<1>2. CASE ev.e = "TrackChanged"
  <2> DEFINE track == SpotifyTrack(ev.track)
             t == [s EXCEPT !.current_track = track]
             u == announce_track(t)
             url == CoverUrl[ev.track]
  <2>1. /\ DOMAIN track = {"source", "item", "timed"}
        /\ track.source = "spotify" /\ track.item = ev.track
    BY DEF SpotifyTrack
  <2> HIDE DEF track
  <2>2. /\ DOMAIN u = Fields /\ u.active_source = s.active_source
        /\ u.covers = s.covers /\ u.current_track = track
        /\ u.is_playing = s.is_playing
        /\ u.airplay_connection = s.airplay_connection
    BY DEF announce_track, broadcast, Display, Shape, Fields
  <2>3. url \in ToSet(s.covers) => url # None
    <3>1. s.covers \in Seq(Urls)
      BY DEF TaskOK, ApiServerTask
    <3>2. QED
      BY <3>1, ApiServerAssumption DEF ToSet
  <2>4. handle_player_event(s, ev) = load_cover(u, url)
    BY <1>2 DEF handle_player_event, SpotifyTrackChanged, track
  <2> HIDE DEF u, url
  <2>5. /\ Display(load_cover(u, url))
        /\ load_cover(u, url).active_source = s.active_source
    <3>1. Shape(u) /\ CacheOK(u.covers) /\ GhostFree(u)
      BY <2>1, <2>2 DEF Display, Shape, GhostFree
    <3>2. /\ u.current_track.source = "spotify"
          /\ CoverUrl[u.current_track.item] = url
      BY <2>1, <2>2 DEF url
    <3>3. QED
      BY <2>2, <2>3, <3>1, <3>2, LoadCoverKeepsDisplay
  <2>6. QED
    BY <2>4, <2>5 DEF Moved
<1>3. CASE ev.e = "VolumeChanged"
  BY <1>3, VolumeKeepsDisplay DEF handle_player_event, Moved
<1>4. CASE ev.e = "Playing"
  <2> DEFINE t == [s EXCEPT !.active_source = "Spotify"]
  <2>1. Display(t) /\ t.active_source = "Spotify"
    BY DEF Display, Shape, Fields, CoverIsWanted, WantedFitsTrack, GhostFree
  <2> HIDE DEF t
  <2>2. Display(update_playback(t, TRUE)) /\ update_playback(t, TRUE).is_playing = TRUE
    BY <2>1, PlaybackKeepsDisplay
  <2>3. QED
    BY <1>4, <2>2 DEF handle_player_event, Moved, t
<1>5. CASE ev.e = "Paused"
  BY <1>5, PlaybackKeepsDisplay DEF handle_player_event, Moved
<1>6. CASE ev.e = "Seeked"
  BY <1>6, PlaybackKeepsDisplay DEF handle_player_event, Moved
<1>7. CASE ev.e = "SessionDisconnected"
  BY <1>7, ClearKeepsDisplay DEF handle_player_event, Moved, Display, Shape
<1>8. QED
  BY <1>1, <1>2, <1>3, <1>4, <1>5, <1>6, <1>7

LEMMA OnTheAirKeepsDisplay ==
  ASSUME NEW s, Display(s), NEW ev \in AirplayEvent,
         airplay_is_on_the_air(s, ev.c),
         ev.e \notin {"SessionEnded", "PlaybackChanged"}
  PROVE  /\ Display(OnTheAirEvent(s, ev))
         /\ OnTheAirEvent(s, ev).active_source = s.active_source
<1>1. /\ ev.e \in {"TrackChanged", "CoverChanged", "ProgressChanged",
                   "VolumeChanged"}
      /\ ev.c \in Senders
  BY DEF AirplayEvent
<1>2. s.airplay_connection # None
  BY <1>1, ApiServerAssumption DEF airplay_is_on_the_air
<1>3. NoCover.from # "spotify" /\ Sent(ev.c).from # "spotify"
  BY DEF NoCover, Sent
<1>4. CASE ev.e = "TrackChanged"
  <2> DEFINE track == [source |-> "airplay", item |-> ev.c, timed |-> ev.timed]
             cover == IF ev.cover THEN Sent(ev.c) ELSE NoCover
             t == [s EXCEPT !.current_cover = NoCover,
                            !.current_cover_url = None,
                            !.current_track = track]
             u == announce_track(t)
  <2>1. DOMAIN track = {"source", "item", "timed"}
    OBVIOUS
  <2>2. cover.from # "spotify"
    BY <1>3
  <2>3. OnTheAirEvent(s, ev)
          = IF cover = NoCover THEN u ELSE announce_cover(u, cover)
    BY <1>4 DEF OnTheAirEvent, AirplayTrackChanged
  <2> HIDE DEF track, cover
  <2>4. /\ DOMAIN t = Fields /\ t.active_source = s.active_source
        /\ t.covers = s.covers /\ t.current_track = track
        /\ t.current_cover = NoCover /\ t.current_cover_url = None
        /\ t.airplay_connection = s.airplay_connection
    BY DEF Display, Shape, Fields
  <2> HIDE DEF t
  <2>5. Display(t)
    BY <1>2, <1>3, <2>1, <2>4
       DEF Display, Shape, CoverIsWanted, WantedFitsTrack, GhostFree
  <2>6. Display(u) /\ u.active_source = s.active_source
    BY <2>4, <2>5, TrackKeepsDisplay DEF Published
  <2> HIDE DEF u
  <2>7. QED
    BY <2>2, <2>3, <2>6, CoverKeepsDisplay
<1>5. CASE ev.e = "CoverChanged"
  BY <1>3, <1>5, CoverKeepsDisplay DEF OnTheAirEvent
<1>6. CASE ev.e = "ProgressChanged"
  <2> DEFINE t == [s EXCEPT !.current_track.timed = @ \/ ev.timed]
  <2>1. /\ Display(t) /\ t.active_source = s.active_source
        /\ t.is_playing = s.is_playing
    BY DEF Display, Shape, Fields, CoverIsWanted, WantedFitsTrack, GhostFree
  <2> HIDE DEF t
  <2>2. /\ Display(update_playback(t, s.is_playing))
        /\ update_playback(t, s.is_playing).active_source = s.active_source
    BY <2>1, PlaybackKeepsDisplay
  <2>3. QED
    BY <1>6, <2>2 DEF OnTheAirEvent, ProgressChanged, t
<1>7. CASE ev.e = "VolumeChanged"
  BY <1>7, VolumeKeepsDisplay DEF OnTheAirEvent
<1>8. QED
  BY <1>1, <1>4, <1>5, <1>6, <1>7

LEMMA AirplayEventKeepsDisplay ==
  ASSUME NEW s, Display(s), NEW ev \in AirplayEvent
  PROVE  /\ Display(handle_airplay_event(s, ev))
         /\ Moved(s, handle_airplay_event(s, ev))
<1>1. /\ ev.e \in {"SessionEnded", "PlaybackChanged", "TrackChanged",
                   "CoverChanged", "ProgressChanged", "VolumeChanged"}
      /\ ev.c \in Senders /\ ev.c # None
  BY ApiServerAssumption DEF AirplayEvent
<1>2. CASE ev.e = "SessionEnded"
  <2> DEFINE t == [s EXCEPT !.airplay_connection = None]
  <2>1. /\ DOMAIN t = Fields /\ t.active_source = s.active_source
        /\ t.covers = s.covers /\ t.current_track = s.current_track
        /\ t.current_cover = s.current_cover
        /\ t.current_cover_url = s.current_cover_url
    BY DEF Display, Shape, Fields
  <2>2. handle_airplay_event(s, ev) =
          CASE s.airplay_connection # ev.c -> s
            [] airplay_is_on_the_air(s, ev.c) -> clear_now_playing(t)
            [] OTHER -> t
    BY <1>2 DEF handle_airplay_event, SessionEnded
  <2> HIDE DEF t
  <2>3. /\ Display(clear_now_playing(t))
        /\ clear_now_playing(t).active_source = s.active_source
    BY <2>1, ClearKeepsDisplay DEF Display
  <2>4. CASE s.airplay_connection = ev.c /\ ~airplay_is_on_the_air(s, ev.c)
    <3>1. Display(t)
      BY <2>1, <2>4 DEF Display, Shape, CoverIsWanted, WantedFitsTrack,
                        GhostFree, airplay_is_on_the_air
    <3>2. QED
      BY <2>1, <2>2, <2>4, <3>1 DEF Moved
  <2>5. CASE s.airplay_connection # ev.c
    <3>1. handle_airplay_event(s, ev) = s
      BY <1>2, <2>5 DEF handle_airplay_event, SessionEnded,
                        airplay_is_on_the_air
    <3>2. QED
      BY <3>1 DEF Moved
  <2>6. CASE s.airplay_connection = ev.c /\ airplay_is_on_the_air(s, ev.c)
    <3>1. handle_airplay_event(s, ev) = clear_now_playing(t)
      BY <2>2, <2>6
    <3>2. QED
      BY <2>3, <3>1 DEF Moved
  <2>7. QED
    BY <2>4, <2>5, <2>6
<1>3. CASE ev.e = "PlaybackChanged"
  <2> DEFINE t == [s EXCEPT !.active_source = "Airplay",
                            !.airplay_connection = ev.c]
  <2>1. ev.is_playing \in BOOLEAN
    BY <1>3 DEF AirplayEvent
  <2>2. Display(t) /\ t.airplay_connection # None
    BY <1>1 DEF Display, Shape, Fields, CoverIsWanted, WantedFitsTrack,
                GhostFree
  <2>3. handle_airplay_event(s, ev) =
          IF ev.is_playing THEN update_playback(t, TRUE)
          ELSE IF airplay_is_on_the_air(s, ev.c) THEN update_playback(s, FALSE)
          ELSE s
    BY <1>3, <2>1 DEF handle_airplay_event, AirplayPlayback
  <2> HIDE DEF t
  <2>4. /\ Display(update_playback(t, TRUE))
        /\ update_playback(t, TRUE).is_playing = TRUE
    BY <2>2, PlaybackKeepsDisplay
  <2>5. /\ Display(update_playback(s, FALSE))
        /\ update_playback(s, FALSE).active_source = s.active_source
    BY PlaybackKeepsDisplay
  <2>6. QED
    BY <2>3, <2>4, <2>5 DEF Moved
<1>4. CASE ev.e \notin {"SessionEnded", "PlaybackChanged"}
  BY <1>4, OnTheAirKeepsDisplay DEF handle_airplay_event, Moved
<1>5. QED
  BY <1>2, <1>3, <1>4

\* A request is about connections.
LEMMA RequestKeepsDisplay ==
  ASSUME NEW s, Display(s), NEW id \in Ids, NEW command \in Commands
  PROVE  /\ Display(handle_request(s, id, command))
         /\ handle_request(s, id, command).active_source = s.active_source
<1>1. ASSUME NEW t, Display(t), t.active_source = s.active_source, NEW line
      PROVE  /\ Display(send_line(t, line, id))
             /\ send_line(t, line, id).active_source = s.active_source
  BY <1>1, SendLinePublishesNothing DEF Published
<1>2. /\ Display(subscribe(s, id))
      /\ subscribe(s, id).active_source = s.active_source
  <2> DEFINE t == [s EXCEPT !.connections[id].subscribed = TRUE]
             u == send_line(t, snapshot(s, ~s.connections[id].subscribed), id)
  <2>1. DOMAIN t = Fields /\ Published(t) = Published(s)
    BY DEF Published, Fields, Display, Shape
  <2>2. Display(t) /\ t.active_source = s.active_source
    BY <2>1, DisplayIsPublished
  <2> HIDE DEF t
  <2>3. Display(u) /\ u.active_source = s.active_source
    BY <1>1, <2>2
  <2> HIDE DEF u
  <2>4. QED
    BY <1>1, <2>3 DEF subscribe, u, t
<1>3. /\ Display(unsubscribe(s, id))
      /\ unsubscribe(s, id).active_source = s.active_source
  <2>1. /\ DOMAIN unsubscribe(s, id) = Fields
        /\ Published(unsubscribe(s, id)) = Published(s)
    BY DEF unsubscribe, Published, Fields, Display, Shape
  <2>2. QED
    BY <2>1, DisplayIsPublished
<1>4. QED
  BY <1>1, <1>2, <1>3 DEF handle_request, Commands
-----------------------------------------------------------------------------
(* The server task keeps the display.                                      *)

LEMMA InitialDisplay == Display(InitialTask)
<1>1. /\ DOMAIN EmptyTrack = {"source", "item", "timed"}
      /\ NoCover.from # "spotify"
  BY DEF EmptyTrack, NoCover
<1>2. CacheOK(<<>>)
  BY ApiServerAssumption DEF CacheOK
<1>3. QED
  BY <1>1, <1>2 DEF InitialTask, Display, Shape, Fields, CoverIsWanted,
                    WantedFitsTrack, GhostFree

\* One turn of the server task, or of a writer.
LEMMA StepDisplay ==
  ASSUME TypeOK, Display(task), [Next]_vars
  PROVE  Display(task') /\ (task'.running => Moved(task, task'))
<1>1. TaskOK(task)
  BY TypeParts
<1>2. ASSUME NEW t, DOMAIN t = Fields, Published(t) = Published(task), task' = t
      PROVE  Display(task') /\ Moved(task, task')
  BY <1>2, DisplayIsPublished DEF Moved
<1>3. CASE SetSession
  <2> DEFINE t == [task EXCEPT !.session = TRUE]
  <2>1. Display(t) /\ t.active_source = task.active_source
    BY DEF Display, Shape, Fields, CoverIsWanted, WantedFitsTrack, GhostFree
  <2>2. QED
    BY <1>3, <2>1 DEF SetSession, Becomes, Moved
<1>4. CASE SetAirplay \/ AirplayChannelCloses
  <2>1. ASSUME NEW b
        PROVE  LET t == [task EXCEPT !.airplay_events = b]
               IN Display(t) /\ t.active_source = task.active_source
    BY DEF Display, Shape, Fields, CoverIsWanted, WantedFitsTrack, GhostFree
  <2>2. QED
    BY <1>4, <2>1 DEF SetAirplay, AirplayChannelCloses, Becomes, Moved
<1>5. CASE Accept
  <2>1. DOMAIN task' = Fields /\ Published(task') = Published(task)
    BY <1>5 DEF Accept, Becomes, Published, Fields, Display, Shape
  <2>2. QED
    BY <1>2, <2>1
<1>6. CASE Shutdown
  <2>1. Display(InitialTask)
    BY InitialDisplay
  <2>2. DOMAIN InitialTask = Fields
    BY DEF InitialTask, Fields
  <2> DEFINE after == [id \in Ids |-> Unfollowed(task.connections[id], FALSE)]
  <2>3. task' = [InitialTask EXCEPT !.running = FALSE, !.connections = after]
    BY <1>6 DEF Shutdown, Becomes
  <2> HIDE DEF after
  <2>4. Display(task') /\ task'.running = FALSE
    BY <2>1, <2>2, <2>3 DEF Display, Shape, Fields, CoverIsWanted,
                            WantedFitsTrack, GhostFree
  <2>5. QED
    BY <2>4
<1>7. ASSUME NEW ev \in PlayerEvent, PlayerEventArrives(ev)
      PROVE  Display(task') /\ Moved(task, task')
  BY <1>1, <1>7, PlayerEventKeepsDisplay DEF PlayerEventArrives, Becomes
<1>8. ASSUME NEW ev \in AirplayEvent, AirplayEventArrives(ev)
      PROVE  Display(task') /\ Moved(task, task')
  BY <1>8, AirplayEventKeepsDisplay DEF AirplayEventArrives, Becomes
<1>9. ASSUME NEW url \in Urls, NEW ok \in BOOLEAN, FetchEnds(url, ok)
      PROVE  Display(task') /\ Moved(task, task')
  BY <1>9, HandleCoverKeepsDisplay DEF FetchEnds, Becomes, Moved
<1>10. ASSUME NEW id \in Ids, NEW command \in Commands, Request(id, command)
       PROVE  Display(task') /\ Moved(task, task')
  BY <1>10, RequestKeepsDisplay DEF Request, Becomes, Moved
<1>11. ASSUME NEW id \in Ids, HandleClosed(id)
       PROVE  Display(task') /\ Moved(task, task')
  <2>1. DOMAIN task' = Fields /\ Published(task') = Published(task)
    BY <1>11
       DEF HandleClosed, Becomes, disconnect, Published, Fields, Display, Shape
  <2>2. QED
    BY <1>2, <2>1
<1>12. ASSUME NEW id \in Ids, Write(id) \/ WriterFails(id)
       PROVE  Display(task') /\ Moved(task, task')
  <2>1. DOMAIN task' = Fields /\ Published(task') = Published(task)
    BY <1>12 DEF Write, WriterFails, Published, Fields, Display, Shape
  <2>2. QED
    BY <1>2, <2>1
<1>13. CASE UNCHANGED task
  BY <1>13 DEF Moved
<1>14. QED
  BY <1>3, <1>4, <1>5, <1>6, <1>7, <1>8, <1>9, <1>10, <1>11, <1>12, <1>13
     DEF Next, HangUp, ReaderStops, WriterShutdown, vars

\* The display is sound at every turn: the strengthening that the theorems
\* below rest on.
THEOREM DisplayHolds == Spec => []Display(task)
<1>1. TypeOK /\ Display(task) /\ [Next]_vars => Display(task)'
  BY StepDisplay
<1>2. Init => Display(task)
  BY InitialDisplay DEF Init
<1>3. QED
  BY <1>1, <1>2, TypesHold, PTL DEF Spec

\* handle_cover and load_cover: a fetched picture is on display only under the
\* item it belongs to, however late the fetch ended.
THEOREM FetchedCoversFit == Spec => []SpotifyCoverFitsTrack
<1>1. Display(task) => SpotifyCoverFitsTrack
  BY DEF Display, CoverIsWanted, WantedFitsTrack, SpotifyCoverFitsTrack
<1>2. QED
  BY <1>1, DisplayHolds, PTL

\* CoverCache::insert: the cache keeps its bound and lists no cover twice.
THEOREM CacheStaysConsistent == Spec => []CacheConsistent
<1>1. Display(task) => CacheConsistent
  BY DEF Display, CacheOK, CacheConsistent, IsInjective
<1>2. QED
  BY <1>1, DisplayHolds, PTL

\* SessionEnded and clear_now_playing: a sender that left leaves neither its
\* track nor a running position on display.
THEOREM NoGhosts == Spec => []NoGhost
<1>1. Display(task) => NoGhost
  BY DEF Display, GhostFree, NoGhost
<1>2. QED
  BY <1>1, DisplayHolds, PTL

\* enum Source: control moves to the other source only when that one plays.
THEOREM SourceMovesWithPlayback == Spec => SourceMovesOnPlay
<1>1. TypeOK /\ Display(task) /\ [Next]_vars
        => [task'.running /\ task'.active_source # task.active_source
              => task'.is_playing]_vars
  BY StepDisplay DEF Moved
<1>2. QED
  BY <1>1, DisplayHolds, TypesHold, PTL DEF Spec, SourceMovesOnPlay
-----------------------------------------------------------------------------
(* Reading a queue.                                                        *)

\* A set of numbers has a least one.
LEMMA LeastNumber ==
  ASSUME NEW T \in SUBSET Nat, T # {}
  PROVE  \E n \in T : \A m \in T : n <= m
<1>1. PICK n \in T : \A m \in T : ~(<<m, n>> \in OpToRel(<, Nat))
  BY NatLessThanWellFounded, WFMin, Zenon
<1>2. ASSUME NEW m \in T, m < n PROVE FALSE
  BY <1>1, <1>2, Zenon DEF OpToRel
<1>3. \A m \in T : ~(m < n)
  BY <1>2
<1>4. QED
  BY <1>3

\* r[n] is what the client holds after n of the lines of q.
Reading(v, q, r) ==
  r = [n \in 0 .. Len(q) |-> IF n = 0 THEN v ELSE Apply(r[n - 1], q[n])]

LEMMA ReadingSteps ==
  ASSUME NEW v, NEW q, Len(q) \in Nat, NEW r, Reading(v, q, r)
  PROVE  /\ r[0] = v
         /\ \A n \in 1 .. Len(q) : r[n] = Apply(r[n - 1], q[n])
<1>1. 0 \in 0 .. Len(q) /\ \A n \in 1 .. Len(q) : n \in 0 .. Len(q) /\ n # 0
  OBVIOUS
<1>2. \A n \in 0 .. Len(q) :
        r[n] = IF n = 0 THEN v ELSE Apply(r[n - 1], q[n])
  BY DEF Reading
<1>3. QED
  BY <1>1, <1>2

\* Two readings of the same lines agree.
LEMMA ReadingUnique ==
  ASSUME NEW v, NEW q, Len(q) \in Nat, NEW r, NEW s, Reading(v, q, r),
         Reading(v, q, s)
  PROVE  \A n \in 0 .. Len(q) : r[n] = s[n]
<1> DEFINE T == {n \in 0 .. Len(q) : r[n] # s[n]}
<1>1. /\ r[0] = v /\ s[0] = v
      /\ \A n \in 1 .. Len(q) : r[n] = Apply(r[n - 1], q[n])
      /\ \A n \in 1 .. Len(q) : s[n] = Apply(s[n - 1], q[n])
  BY ReadingSteps
<1>2. CASE T # {}
  <2>1. T \in SUBSET Nat
    OBVIOUS
  <2>2. PICK n \in T : \A m \in T : n <= m
    <3> HIDE DEF T
    <3>1. QED
      BY <1>2, <2>1, LeastNumber
  <2>3. n \in 1 .. Len(q) /\ n - 1 \in 0 .. Len(q) /\ n - 1 \notin T
    BY <1>1, <2>2
  <2>4. r[n - 1] = s[n - 1]
    BY <2>3
  <2>5. r[n] = s[n]
    BY <1>1, <2>3, <2>4
  <2>6. QED
    BY <2>5
<1>3. QED
  BY <1>2

\* Every queue can be read.
LEMMA ReadingExists ==
  ASSUME NEW v \in View, NEW q \in Seq(Line)
  PROVE  \E r : Reading(v, q, r) /\ \A n \in 0 .. Len(q) : r[n] \in View
<1> DEFINE Part(n, r) ==
             /\ r = [i \in 0 .. n |-> IF i = 0 THEN v
                                      ELSE Apply(r[i - 1], q[i])]
             /\ \A i \in 0 .. n : r[i] \in View
           T == {n \in 0 .. Len(q) : ~\E r : Part(n, r)}
<1>1. Len(q) \in Nat /\ \A n \in 1 .. Len(q) : q[n] \in Line
  OBVIOUS
<1>2. Part(0, [i \in 0 .. 0 |-> v])
  OBVIOUS
<1>3. ASSUME NEW n \in 1 .. Len(q), NEW r, Part(n - 1, r)
      PROVE  \E s : Part(n, s)
  <2> DEFINE w == Apply(r[n - 1], q[n])
             s == [i \in 0 .. n |-> IF i = n THEN w ELSE r[i]]
  <2>1. n \in Nat \ {0} /\ n - 1 \in 0 .. n - 1
    BY <1>1
  <2>2. /\ \A i \in 0 .. n - 1 :
             r[i] = IF i = 0 THEN v ELSE Apply(r[i - 1], q[i])
        /\ \A i \in 0 .. n - 1 : r[i] \in View
    BY <1>3
  <2>3. w \in View
    BY <1>1, <2>1, <2>2, ApplyType
  <2> HIDE DEF w
  <2>4. \A i \in 0 .. n - 1 : s[i] = r[i]
    BY <2>1
  <2>5. s[n] = w
    BY <2>1
  <2>6. ASSUME NEW i \in 0 .. n
        PROVE  /\ s[i] \in View
               /\ s[i] = IF i = 0 THEN v ELSE Apply(s[i - 1], q[i])
    <3> HIDE DEF s
    <3>1. CASE i = n
      <4>1. s[n - 1] = r[n - 1] /\ i # 0
        BY <2>1, <2>4, <3>1
      <4>2. QED
        BY <2>3, <2>5, <3>1, <4>1 DEF w
    <3>2. CASE i # n
      <4>1. i \in 0 .. n - 1 /\ (i # 0 => i - 1 \in 0 .. n - 1)
        BY <2>1, <3>2
      <4>2. s[i] = r[i] /\ (i # 0 => s[i - 1] = r[i - 1])
        BY <2>4, <4>1
      <4>3. QED
        BY <2>2, <4>1, <4>2
    <3>3. QED
      BY <3>1, <3>2
  <2>7. s = [i \in 0 .. n |-> s[i]]
    OBVIOUS
  <2> HIDE DEF s
  <2>8. s = [i \in 0 .. n |-> IF i = 0 THEN v ELSE Apply(s[i - 1], q[i])]
    BY <2>6, <2>7
  <2>9. Part(n, s)
    BY <2>6, <2>8
  <2>10. QED
    BY <2>9
<1>4. \E r : Part(0, r)
  BY <1>2
<1> HIDE DEF Part
<1>5. CASE T # {}
  <2>1. T \in SUBSET Nat
    OBVIOUS
  <2>2. PICK n \in T : \A m \in T : n <= m
    <3> HIDE DEF T
    <3>1. QED
      BY <1>5, <2>1, LeastNumber
  <2>3. n \in 1 .. Len(q) /\ n - 1 \in 0 .. Len(q) /\ n - 1 \notin T
    BY <1>1, <1>4, <2>2
  <2>4. PICK r : Part(n - 1, r)
    BY <2>3
  <2>5. QED
    BY <1>3, <2>3, <2>4
<1>6. CASE T = {}
  <2>1. Len(q) \in 0 .. Len(q)
    BY <1>1
  <2>2. PICK r : Part(Len(q), r)
    BY <1>6, <2>1
  <2>3. QED
    BY <2>2 DEF Part, Reading
<1>7. QED
  BY <1>5, <1>6

\* So Read is the end of the one reading.
LEMMA ReadIs ==
  ASSUME NEW v \in View, NEW q \in Seq(Line)
  PROVE  \E r : /\ Reading(v, q, r) /\ Read(v, q) = r[Len(q)]
                /\ \A n \in 0 .. Len(q) : r[n] \in View
<1> DEFINE c == CHOOSE r : Reading(v, q, r)
<1>1. PICK r : Reading(v, q, r) /\ \A n \in 0 .. Len(q) : r[n] \in View
  BY ReadingExists
<1>2. Reading(v, q, c)
  BY <1>1
<1>3. Read(v, q) = c[Len(q)]
  BY DEF Read, Reading
<1> HIDE DEF c
<1>4. Len(q) \in Nat /\ Len(q) \in 0 .. Len(q)
  OBVIOUS
<1>5. \A n \in 0 .. Len(q) : c[n] = r[n]
  BY <1>1, <1>2, <1>4, ReadingUnique
<1>6. QED
  BY <1>1, <1>2, <1>3, <1>5
LEMMA ReadType ==
  ASSUME NEW v \in View, NEW q \in Seq(Line)
  PROVE  Read(v, q) \in View
<1>1. Len(q) \in 0 .. Len(q)
  OBVIOUS
<1>2. QED
  BY <1>1, ReadIs

\* A line that is pushed is read last.
LEMMA ReadAppend ==
  ASSUME NEW v \in View, NEW q \in Seq(Line), NEW line \in Line
  PROVE  Read(v, Append(q, line)) = Apply(Read(v, q), line)
<1> DEFINE p == Append(q, line)
<1>1. /\ p \in Seq(Line) /\ Len(p) = Len(q) + 1 /\ Len(q) \in Nat
      /\ p[Len(q) + 1] = line /\ \A n \in 1 .. Len(q) : p[n] = q[n]
  OBVIOUS
<1> HIDE DEF p
<1>2. PICK r : Reading(v, p, r) /\ Read(v, p) = r[Len(p)]
  BY <1>1, ReadIs
<1>3. PICK t : Reading(v, q, t) /\ Read(v, q) = t[Len(q)]
  BY ReadIs
<1>4. r[0] = v /\ \A n \in 1 .. Len(q) + 1 : r[n] = Apply(r[n - 1], p[n])
  BY <1>1, <1>2, ReadingSteps
<1> DEFINE s == [n \in 0 .. Len(q) |-> r[n]]
<1>5. Reading(v, q, s)
  <2>1. ASSUME NEW n \in 0 .. Len(q)
        PROVE  r[n] = IF n = 0 THEN v ELSE Apply(s[n - 1], q[n])
    <3>1. CASE n # 0
      <4>1. /\ n \in 1 .. Len(q) /\ n \in 1 .. Len(q) + 1
            /\ n - 1 \in 0 .. Len(q)
        BY <1>1, <3>1
      <4>2. QED
        BY <1>1, <1>4, <3>1, <4>1
    <3>2. QED
      BY <1>4, <3>1
  <2>2. s = [n \in 0 .. Len(q) |-> IF n = 0 THEN v ELSE Apply(s[n - 1], q[n])]
    BY <2>1
  <2>3. QED
    BY <2>2 DEF Reading
<1>6. /\ Len(q) \in 0 .. Len(q) /\ Len(q) + 1 \in 1 .. Len(q) + 1
      /\ Len(q) + 1 - 1 = Len(q)
  BY <1>1
<1>7. s[Len(q)] = r[Len(q)]
  BY <1>6
<1> HIDE DEF s
<1>8. s[Len(q)] = t[Len(q)]
  BY <1>1, <1>3, <1>5, <1>6, ReadingUnique
<1>9. Read(v, p) = Apply(Read(v, q), line)
  <2>1. r[Len(q) + 1] = Apply(r[Len(q) + 1 - 1], p[Len(q) + 1])
    BY <1>4, <1>6
  <2>2. r[Len(q) + 1] = Apply(r[Len(q)], line)
    BY <1>1, <1>6, <2>1
  <2>3. r[Len(p)] = r[Len(q) + 1]
    BY <1>1
  <2>4. QED
    BY <1>2, <1>3, <1>7, <1>8, <2>2, <2>3
<1>10. QED
  BY <1>9 DEF p

\* The writer hands over the oldest line: what is left goes on from there.
LEMMA ReadTail ==
  ASSUME NEW v \in View, NEW q \in Seq(Line), q # <<>>
  PROVE  Read(Apply(v, Head(q)), Tail(q)) = Read(v, q)
<1> DEFINE p == Tail(q)
           w == Apply(v, Head(q))
<1>1. /\ p \in Seq(Line) /\ Len(p) = Len(q) - 1 /\ Len(q) \in Nat \ {0}
      /\ Head(q) = q[1] /\ Head(q) \in Line
      /\ \A n \in 1 .. Len(q) - 1 : p[n] = q[n + 1]
  OBVIOUS
<1> HIDE DEF p
<1>2. w \in View /\ w = Apply(v, q[1])
  BY <1>1, ApplyType
<1> HIDE DEF w
<1>3. PICK r : Reading(v, q, r) /\ Read(v, q) = r[Len(q)]
  BY ReadIs
<1>4. PICK t : Reading(w, p, t) /\ Read(w, p) = t[Len(p)]
  BY <1>1, <1>2, ReadIs
<1>5. r[0] = v /\ \A n \in 1 .. Len(q) : r[n] = Apply(r[n - 1], q[n])
  BY <1>1, <1>3, ReadingSteps
<1> DEFINE s == [n \in 0 .. Len(p) |-> r[n + 1]]
<1>6. Reading(w, p, s)
  <2>1. ASSUME NEW n \in 0 .. Len(p)
        PROVE  r[n + 1] = IF n = 0 THEN w ELSE Apply(s[n - 1], p[n])
    <3>1. n + 1 \in 1 .. Len(q) /\ n + 1 - 1 = n
      BY <1>1
    <3>2. r[n + 1] = Apply(r[n], q[n + 1])
      BY <1>5, <3>1
    <3>3. CASE n # 0
      <4>1. /\ n \in 1 .. Len(q) - 1 /\ n - 1 \in 0 .. Len(p)
            /\ n - 1 + 1 = n
        BY <1>1, <3>3
      <4>2. s[n - 1] = r[n]
        BY <4>1
      <4>3. p[n] = q[n + 1]
        BY <1>1, <4>1
      <4>4. QED
        BY <3>2, <3>3, <4>2, <4>3
    <3>4. CASE n = 0
      BY <1>2, <1>5, <3>2, <3>4
    <3>5. QED
      BY <3>3, <3>4
  <2>2. s = [n \in 0 .. Len(p) |-> IF n = 0 THEN w ELSE Apply(s[n - 1], p[n])]
    BY <2>1
  <2>3. QED
    BY <2>2 DEF Reading
<1>7. /\ Len(p) \in 0 .. Len(p) /\ Len(p) \in Nat /\ Len(p) + 1 = Len(q)
  BY <1>1
<1>8. s[Len(p)] = r[Len(q)]
  BY <1>7
<1> HIDE DEF s
<1>9. s[Len(p)] = t[Len(p)]
  BY <1>4, <1>6, <1>7, ReadingUnique
<1>10. Read(w, p) = Read(v, q)
  BY <1>3, <1>4, <1>8, <1>9
<1>11. QED
  BY <1>10 DEF p, w
-----------------------------------------------------------------------------
(* Every line keeps a subscriber's picture together with what is published. *)

\* v shows the track t, apart from a duration that came later, p, m and c.
Match(v, t, p, m, c) ==
  /\ v.track.source = t.source /\ v.track.item = t.item
  /\ v.track.timed = TRUE => t.timed = TRUE
  /\ v.playing = p /\ v.volume = m /\ v.cover = c

\* So will every subscriber, once it has read what waits for it.
Follow(s, t, p, m, c) ==
  \A id \in Ids :
    s.connections[id].subscribed /\ sockets[id].writer = "running"
      => Match(Read(view[id], s.connections[id].queue), t, p, m, c)

\* Only a connection that was accepted and not dropped is subscribed.
Admitted(s) ==
  \A id \in Ids : s.connections[id].subscribed =>
                    s.connections[id].open /\ id < s.next_connection_id

Following(s, t, p, m, c) ==
  TaskOK(s) /\ Admitted(s) /\ Follow(s, t, p, m, c)

Followed(s) ==
  Following(s, s.current_track, s.is_playing, s.current_volume,
            s.current_cover)

\* It is about the connections only.
LEMMA FollowingIsAboutConnections ==
  ASSUME NEW s, NEW u, NEW t, NEW p, NEW m, NEW c, Following(s, t, p, m, c),
         TaskOK(u), u.connections = s.connections,
         u.next_connection_id = s.next_connection_id
  PROVE  Following(u, t, p, m, c)
BY DEF Following, Admitted, Follow

\* A connection that is sent a line and still subscribed has taken it.
LEMMA SendLineTakes ==
  ASSUME NEW s, TaskOK(s), NEW id \in Ids, NEW line \in Line,
         s.connections[id].open,
         send_line(s, line, id).connections[id].subscribed
  PROVE  /\ send_line(s, line, id).connections[id].open
         /\ s.connections[id].subscribed
         /\ send_line(s, line, id).connections[id].queue
              = Append(s.connections[id].queue, line)
<1>1. /\ s.connections \in [Ids -> Connection] /\ s.connections[id] \in Connection
      /\ DOMAIN s.connections[id] = {"open", "subscribed", "queue"}
      /\ "connections" \in DOMAIN s
  BY DEF TaskOK, ApiServerTask, Connection
<1>2. Unfollowed(s.connections[id], FALSE).subscribed = FALSE
  BY DEF Unfollowed
<1>3. CASE ~Fits(s, id)
  BY <1>1, <1>2, <1>3 DEF send_line, disconnect
<1>4. CASE Fits(s, id)
  BY <1>1, <1>4 DEF send_line
<1>5. QED
  BY <1>3, <1>4

\* A line that moves every picture of the state to the next is pushed.
LEMMA BroadcastFollows ==
  ASSUME TypeOK, NEW s, NEW t, NEW p, NEW m, NEW c, Following(s, t, p, m, c),
         NEW line \in Line, NEW t2, NEW p2, NEW m2, NEW c2,
         \A v \in View : Match(v, t, p, m, c)
                           => Match(Apply(v, line), t2, p2, m2, c2)
  PROVE  Following(broadcast(s, line), t2, p2, m2, c2)
<1> DEFINE b == broadcast(s, line)
<1>1. TaskOK(s) /\ TaskOK(b) /\ view \in [Ids -> View]
  BY BroadcastOK, TypeParts DEF Following
<1>2. b.next_connection_id = s.next_connection_id
  BY <1>1 DEF broadcast, TaskOK, ApiServerTask
<1>3. ASSUME NEW id \in Ids
      PROVE  b.connections[id] = IF s.connections[id].subscribed
                                 THEN send_line(s, line, id).connections[id]
                                 ELSE s.connections[id]
  BY <1>1 DEF broadcast, TaskOK, ApiServerTask
<1> HIDE DEF b
<1>4. ASSUME NEW id \in Ids, b.connections[id].subscribed
      PROVE  /\ s.connections[id].subscribed /\ b.connections[id].open
             /\ id < b.next_connection_id
             /\ b.connections[id].queue
                  = Append(s.connections[id].queue, line)
  <2>1. /\ s.connections[id].subscribed
        /\ b.connections[id] = send_line(s, line, id).connections[id]
    BY <1>3, <1>4
  <2>2. s.connections[id].open /\ id < s.next_connection_id
    BY <2>1 DEF Following, Admitted
  <2>3. send_line(s, line, id).connections[id].subscribed
    BY <1>4, <2>1
  <2>4. QED
    BY <1>1, <1>2, <2>1, <2>2, <2>3, SendLineTakes
<1>5. ASSUME NEW id \in Ids, b.connections[id].subscribed,
             sockets[id].writer = "running"
      PROVE  Match(Read(view[id], b.connections[id].queue), t2, p2, m2, c2)
  <2> DEFINE q == s.connections[id].queue
             v == Read(view[id], q)
  <2>1. q \in Seq(Line) /\ view[id] \in View
    BY <1>1 DEF TaskOK, ApiServerTask, Connection
  <2>2. v \in View /\ Match(v, t, p, m, c)
    <3>1. v \in View
      BY <2>1, ReadType
    <3>2. Follow(s, t, p, m, c) /\ s.connections[id].subscribed
      BY <1>4, <1>5 DEF Following
    <3>3. Match(v, t, p, m, c)
      BY <1>5, <3>2 DEF Follow
    <3>4. QED
      BY <3>1, <3>3
  <2>3. Read(view[id], b.connections[id].queue) = Apply(v, line)
    <3>1. b.connections[id].queue = Append(q, line)
      BY <1>4, <1>5
    <3> HIDE DEF q
    <3>2. QED
      BY <2>1, <3>1, ReadAppend
  <2> HIDE DEF v
  <2>4. QED
    BY <2>2, <2>3
<1>6. QED
  BY <1>1, <1>4, <1>5 DEF Following, Admitted, Follow, b

LEMMA TaskFields ==
  ASSUME NEW s, TaskOK(s)
  PROVE  /\ DOMAIN s = Fields /\ s.current_track \in TrackResponse
         /\ s.is_playing \in BOOLEAN /\ s.current_volume \in Volumes
         /\ s.current_cover \in Cover /\ s.covers \in Seq(Urls)
BY DEF TaskOK, ApiServerTask, Fields

LEMMA BroadcastLeaves ==
  ASSUME NEW s, NEW line, DOMAIN s = Fields
  PROVE  LET b == broadcast(s, line)
         IN /\ b.current_track = s.current_track /\ b.is_playing = s.is_playing
            /\ b.current_volume = s.current_volume /\ b.covers = s.covers
            /\ b.current_cover = s.current_cover
            /\ b.current_cover_url = s.current_cover_url
BY DEF broadcast, Fields

\* What the lines do to a picture.
LEMMA ApplyMatches ==
  ASSUME NEW v \in View, NEW t, NEW p, NEW m, NEW c, Match(v, t, p, m, c)
  PROVE  /\ \A x \in TrackResponse :
              Match(Apply(v, [event |-> "track_changed", track |-> x]),
                    x, p, m, NoCover)
         /\ \A x \in BOOLEAN :
              Match(Apply(v, [event |-> "playback_changed", playing |-> x]),
                    t, x, m, c)
         /\ \A x \in Volumes :
              Match(Apply(v, [event |-> "volume_changed", volume |-> x]),
                    t, p, x, c)
         /\ \A x \in Cover :
              Match(Apply(v, [event |-> "cover", cover |-> x]), t, p, m, x)
         /\ Apply(v, Answer) = v
<1>1. DOMAIN v = {"track", "playing", "volume", "cover"}
  BY DEF View
<1>2. ASSUME NEW x
      PROVE  Match(Apply(v, [event |-> "track_changed", track |-> x]),
                   x, p, m, NoCover)
  BY <1>1 DEF Apply, Match
<1>3. ASSUME NEW x
      PROVE  Match(Apply(v, [event |-> "playback_changed", playing |-> x]),
                   t, x, m, c)
  BY <1>1 DEF Apply, Match
<1>4. ASSUME NEW x
      PROVE  Match(Apply(v, [event |-> "volume_changed", volume |-> x]),
                   t, p, x, c)
  BY <1>1 DEF Apply, Match
<1>5. ASSUME NEW x
      PROVE  Match(Apply(v, [event |-> "cover", cover |-> x]), t, p, m, x)
  BY <1>1 DEF Apply, Match
<1>6. Apply(v, Answer) = v
  BY DEF Apply, Answer
<1>7. QED
  BY <1>2, <1>3, <1>4, <1>5, <1>6
LEMMA PlaybackFollows ==
  ASSUME TypeOK, NEW s, NEW t, NEW p, NEW m, NEW c, Following(s, t, p, m, c),
         NEW b \in BOOLEAN
  PROVE  LET u == update_playback(s, b)
         IN /\ Following(u, t, b, m, c) /\ u.current_track = s.current_track
            /\ u.is_playing = b /\ u.current_volume = s.current_volume
            /\ u.current_cover = s.current_cover
<1> DEFINE r == [s EXCEPT !.is_playing = b]
           line == [event |-> "playback_changed", playing |-> b]
<1>1. TaskOK(s) /\ TaskOK(r)
  BY ReplacePublished DEF Following
<1>2. /\ r.connections = s.connections /\ r.is_playing = b
      /\ r.next_connection_id = s.next_connection_id
      /\ r.current_track = s.current_track
      /\ r.current_volume = s.current_volume
      /\ r.current_cover = s.current_cover
  BY <1>1, TaskFields DEF Fields
<1>3. update_playback(s, b) = broadcast(r, line)
  BY DEF update_playback
<1> HIDE DEF r
<1>4. Following(r, t, p, m, c)
  BY <1>1, <1>2, FollowingIsAboutConnections
<1>5. line \in Line
  BY LineTypes
<1>6. \A v \in View : Match(v, t, p, m, c) => Match(Apply(v, line), t, b, m, c)
  BY ApplyMatches
<1> HIDE DEF line
<1>7. Following(broadcast(r, line), t, b, m, c)
  BY <1>4, <1>5, <1>6, BroadcastFollows
<1>8. DOMAIN r = Fields
  BY <1>1, TaskFields
<1>9. QED
  BY <1>2, <1>3, <1>7, <1>8, BroadcastLeaves

LEMMA VolumeFollows ==
  ASSUME TypeOK, NEW s, Followed(s), NEW v \in Volumes
  PROVE  Followed(announce_volume(s, v))
<1> DEFINE r == [s EXCEPT !.current_volume = v]
           line == [event |-> "volume_changed", volume |-> v]
           t == s.current_track
           p == s.is_playing
           m == s.current_volume
           c == s.current_cover
<1>1. TaskOK(s) /\ TaskOK(r)
  BY ReplacePublished DEF Followed, Following
<1>2. /\ r.connections = s.connections /\ r.is_playing = p
      /\ r.next_connection_id = s.next_connection_id /\ r.current_track = t
      /\ r.current_volume = v /\ r.current_cover = c
  BY <1>1, TaskFields DEF Fields
<1>3. announce_volume(s, v) = broadcast(r, line)
  BY DEF announce_volume
<1> HIDE DEF r
<1>4. Following(s, t, p, m, c)
  BY DEF Followed
<1> HIDE DEF t, p, m, c
<1>5. Following(r, t, p, m, c)
  BY <1>1, <1>2, <1>4, FollowingIsAboutConnections
<1>6. line \in Line
  BY LineTypes
<1>7. \A w \in View : Match(w, t, p, m, c) => Match(Apply(w, line), t, p, v, c)
  BY ApplyMatches
<1> HIDE DEF line
<1>8. Following(broadcast(r, line), t, p, v, c)
  BY <1>5, <1>6, <1>7, BroadcastFollows
<1>9. DOMAIN r = Fields
  BY <1>1, TaskFields
<1>10. QED
  BY <1>2, <1>3, <1>8, <1>9, BroadcastLeaves DEF Followed

\* announce_track tells the clients to drop the picture.
LEMMA TrackFollows ==
  ASSUME TypeOK, NEW s, NEW t, NEW p, NEW m, NEW c, Following(s, t, p, m, c)
  PROVE  LET u == announce_track(s)
         IN /\ Following(u, s.current_track, p, m, NoCover)
            /\ u.current_track = s.current_track
            /\ u.is_playing = s.is_playing
            /\ u.current_volume = s.current_volume
            /\ u.current_cover = s.current_cover
            /\ u.covers = s.covers
<1> DEFINE x == s.current_track
           line == [event |-> "track_changed", track |-> x]
<1>1. TaskOK(s) /\ x \in TrackResponse /\ DOMAIN s = Fields
  BY TaskFields DEF Following
<1>2. announce_track(s) = broadcast(s, line)
  BY DEF announce_track
<1> HIDE DEF x
<1>3. line \in Line
  BY <1>1, LineTypes
<1>4. \A v \in View : Match(v, t, p, m, c)
                        => Match(Apply(v, line), x, p, m, NoCover)
  BY <1>1, ApplyMatches
<1> HIDE DEF line
<1>5. Following(broadcast(s, line), x, p, m, NoCover)
  BY <1>3, <1>4, BroadcastFollows
<1>6. QED
  BY <1>1, <1>2, <1>5, BroadcastLeaves DEF x

\* announce_cover pushes nothing when nobody has subscribed.
LEMMA CoverFollows ==
  ASSUME TypeOK, NEW s, NEW t, NEW p, NEW m, NEW c, Following(s, t, p, m, c),
         NEW x \in Cover
  PROVE  LET u == announce_cover(s, x)
         IN /\ Following(u, t, p, m, x) /\ u.current_track = s.current_track
            /\ u.is_playing = s.is_playing
            /\ u.current_volume = s.current_volume /\ u.current_cover = x
<1> DEFINE r == [s EXCEPT !.current_cover = x]
           line == [event |-> "cover", cover |-> x]
<1>1. TaskOK(s) /\ TaskOK(r)
  BY ReplacePublished DEF Following
<1>2. /\ r.connections = s.connections /\ r.is_playing = s.is_playing
      /\ r.next_connection_id = s.next_connection_id
      /\ r.current_track = s.current_track
      /\ r.current_volume = s.current_volume /\ r.current_cover = x
  BY <1>1, TaskFields DEF Fields
<1>3. announce_cover(s, x) = IF has_subscribers(r) THEN broadcast(r, line)
                             ELSE r
  BY <1>2 DEF announce_cover, encode_cover
<1> HIDE DEF r
<1>4. Following(r, t, p, m, c)
  BY <1>1, <1>2, FollowingIsAboutConnections
<1>5. CASE has_subscribers(r)
  <2>1. line \in Line
    BY LineTypes
  <2>2. \A v \in View : Match(v, t, p, m, c)
                          => Match(Apply(v, line), t, p, m, x)
    BY ApplyMatches
  <2> HIDE DEF line
  <2>3. Following(broadcast(r, line), t, p, m, x)
    BY <1>4, <2>1, <2>2, BroadcastFollows
  <2>4. DOMAIN r = Fields
    BY <1>1, TaskFields
  <2>5. QED
    BY <1>2, <1>3, <1>5, <2>3, <2>4, BroadcastLeaves
<1>6. CASE ~has_subscribers(r)
  <2>1. \A id \in Ids : ~r.connections[id].subscribed
    BY <1>4, <1>6 DEF has_subscribers, Following, Admitted
  <2>2. Following(r, t, p, m, x)
    BY <1>4, <2>1 DEF Following, Follow
  <2>3. QED
    BY <1>2, <1>3, <1>6, <2>2
<1>7. QED
  BY <1>5, <1>6

LEMMA ClearFollows ==
  ASSUME TypeOK, NEW s, Followed(s)
  PROVE  Followed(clear_now_playing(s))
<1> DEFINE t == s.current_track
           p == s.is_playing
           m == s.current_volume
           c == s.current_cover
           r == [s EXCEPT !.current_track = EmptyTrack,
                          !.current_cover = NoCover,
                          !.current_cover_url = None]
           u == announce_track(r)
<1>1. Following(s, t, p, m, c) /\ TaskOK(s)
  BY DEF Followed, Following
<1>2. TaskOK(r)
  BY <1>1, SpotifyTypes DEF TaskOK, QueuesFit, ApiServerTask
<1>3. /\ r.connections = s.connections /\ r.is_playing = p
      /\ r.next_connection_id = s.next_connection_id
      /\ r.current_track = EmptyTrack /\ r.current_volume = m
      /\ r.current_cover = NoCover
  BY <1>1, TaskFields DEF Fields
<1>4. clear_now_playing(s) = update_playback(u, FALSE)
  BY DEF clear_now_playing
<1> HIDE DEF r, t, p, m, c
<1>5. Following(r, t, p, m, c)
  BY <1>1, <1>2, <1>3, FollowingIsAboutConnections
<1>6. /\ Following(u, EmptyTrack, p, m, NoCover)
      /\ u.current_track = EmptyTrack /\ u.current_volume = m
      /\ u.current_cover = NoCover
  BY <1>3, <1>5, TrackFollows
<1> HIDE DEF u
<1> DEFINE w == update_playback(u, FALSE)
<1>7. /\ Following(w, EmptyTrack, FALSE, m, NoCover)
      /\ w.current_track = EmptyTrack /\ w.is_playing = FALSE
      /\ w.current_volume = m /\ w.current_cover = NoCover
  BY <1>6, PlaybackFollows
<1> HIDE DEF w
<1>8. Followed(w)
  BY <1>7 DEF Followed
<1>9. QED
  BY <1>4, <1>8 DEF w
\* load_cover starts from no picture: the clients have dropped theirs.
LEMMA LoadCoverFollows ==
  ASSUME TypeOK, NEW s, NEW url \in Urls \cup {None},
         Following(s, s.current_track, s.is_playing, s.current_volume, NoCover)
  PROVE  Followed(load_cover(s, url))
<1> DEFINE t == s.current_track
           p == s.is_playing
           m == s.current_volume
           r == [s EXCEPT !.current_cover = NoCover, !.current_cover_url = url]
           w == announce_cover(r, Fetched(url))
<1>1. TaskOK(s) /\ Following(s, t, p, m, NoCover)
  BY DEF Following
<1>2. TaskOK(r)
  BY <1>1, SpotifyTypes DEF TaskOK, QueuesFit, ApiServerTask
<1>3. /\ r.connections = s.connections /\ r.is_playing = p
      /\ r.next_connection_id = s.next_connection_id
      /\ r.current_track = t /\ r.current_volume = m
      /\ r.current_cover = NoCover
  BY <1>1, TaskFields DEF Fields
<1>4. load_cover(s, url) = IF url \in ToSet(s.covers) THEN w ELSE r
  BY DEF load_cover
<1>5. url \in ToSet(s.covers) => Fetched(url) \in Cover
  BY <1>1, SpotifyTypes DEF TaskOK, ApiServerTask, ToSet
<1> HIDE DEF r, t, p, m
<1>6. Following(r, t, p, m, NoCover)
  BY <1>1, <1>2, <1>3, FollowingIsAboutConnections
<1>7. CASE url \in ToSet(s.covers)
  <2>1. /\ Following(w, t, p, m, Fetched(url)) /\ w.current_track = t
        /\ w.is_playing = p /\ w.current_volume = m
        /\ w.current_cover = Fetched(url)
    BY <1>3, <1>5, <1>6, <1>7, CoverFollows
  <2> HIDE DEF w
  <2>2. QED
    BY <1>4, <1>7, <2>1 DEF Followed
<1>8. QED
  BY <1>3, <1>4, <1>6, <1>7 DEF Followed

LEMMA HandleCoverFollows ==
  ASSUME TypeOK, NEW s, NEW url \in Urls, Followed(s)
  PROVE  Followed(handle_cover(s, url))
<1> DEFINE t == s.current_track
           p == s.is_playing
           m == s.current_volume
           c == s.current_cover
           r == [s EXCEPT !.covers = insert(@, url)]
           w == announce_cover(r, Fetched(url))
<1>1. TaskOK(s) /\ Following(s, t, p, m, c)
  BY DEF Followed, Following
<1>2. TaskOK(r)
  <2>1. insert(s.covers, url) \in Seq(Urls)
    BY <1>1, TaskFields, InsertType
  <2>2. r = [s EXCEPT !.covers = insert(s.covers, url)]
    OBVIOUS
  <2>3. QED
    BY <1>1, <2>1, <2>2, ReplacePublished
<1>3. /\ r.connections = s.connections /\ r.is_playing = p
      /\ r.next_connection_id = s.next_connection_id
      /\ r.current_track = t /\ r.current_volume = m
      /\ r.current_cover = c
  BY <1>1, TaskFields DEF Fields
<1>4. handle_cover(s, url) = IF s.current_cover_url = url THEN w ELSE r
  BY DEF handle_cover
<1>5. Fetched(url) \in Cover
  BY SpotifyTypes
<1> HIDE DEF r, t, p, m, c
<1>6. Following(r, t, p, m, c)
  BY <1>1, <1>2, <1>3, FollowingIsAboutConnections
<1>7. /\ Following(w, t, p, m, Fetched(url)) /\ w.current_track = t
      /\ w.is_playing = p /\ w.current_volume = m
      /\ w.current_cover = Fetched(url)
  BY <1>3, <1>5, <1>6, CoverFollows
<1> HIDE DEF w
<1>8. Followed(w) /\ Followed(r)
  BY <1>3, <1>6, <1>7 DEF Followed
<1>9. QED
  BY <1>4, <1>8

LEMMA UpdateFollows ==
  ASSUME TypeOK, NEW s, NEW b \in BOOLEAN, Followed(s)
  PROVE  Followed(update_playback(s, b))
<1> DEFINE t == s.current_track
           m == s.current_volume
           c == s.current_cover
           w == update_playback(s, b)
<1>1. /\ Following(w, t, b, m, c) /\ w.current_track = t
      /\ w.is_playing = b /\ w.current_volume = m /\ w.current_cover = c
  BY PlaybackFollows DEF Followed
<1> HIDE DEF w, t, m, c
<1>2. Followed(w)
  BY <1>1 DEF Followed
<1>3. QED
  BY <1>2 DEF w

\* The source and its connection are not shown.
LEMMA SourceIsNotShown ==
  ASSUME NEW s, NEW u, Followed(s), TaskOK(u), u.connections = s.connections,
         u.next_connection_id = s.next_connection_id,
         u.current_track = s.current_track, u.is_playing = s.is_playing,
         u.current_volume = s.current_volume,
         u.current_cover = s.current_cover
  PROVE  Followed(u)
BY FollowingIsAboutConnections DEF Followed

LEMMA PlayerEventFollows ==
  ASSUME TypeOK, NEW s, Followed(s), NEW ev \in PlayerEvent
  PROVE  Followed(handle_player_event(s, ev))
<1>1. /\ ev.e \in {"TrackChanged", "VolumeChanged", "Playing", "Paused",
                   "Seeked", "SessionDisconnected"}
      /\ TaskOK(s) /\ s.is_playing \in BOOLEAN
  BY TaskFields DEF PlayerEvent, Followed, Following
<1>2. CASE ev.e = "TrackChanged"
  <2> DEFINE x == SpotifyTrack(ev.track)
             t == s.current_track
             p == s.is_playing
             m == s.current_volume
             c == s.current_cover
             r == [s EXCEPT !.current_track = x]
             u == announce_track(r)
  <2>1. ev.track \in Tracks
    BY <1>2 DEF PlayerEvent
  <2>2. TaskOK(r)
    BY <1>1, <2>1, SpotifyTypes, ReplacePublished
  <2>3. /\ r.connections = s.connections /\ r.is_playing = p
        /\ r.next_connection_id = s.next_connection_id
        /\ r.current_track = x /\ r.current_volume = m
    BY <1>1, TaskFields DEF Fields
  <2>4. Following(s, t, p, m, c)
    BY DEF Followed
  <2>5. handle_player_event(s, ev) = load_cover(u, CoverUrl[ev.track])
    BY <1>2 DEF handle_player_event, SpotifyTrackChanged
  <2>6. CoverUrl[ev.track] \in Urls \cup {None}
    BY <2>1, ApiServerAssumption
  <2> HIDE DEF r, t, p, m, c, x
  <2>7. Following(r, t, p, m, c)
    BY <2>2, <2>3, <2>4, FollowingIsAboutConnections
  <2>8. /\ Following(u, x, p, m, NoCover) /\ u.current_track = x
        /\ u.is_playing = p /\ u.current_volume = m
    BY <2>3, <2>7, TrackFollows
  <2> HIDE DEF u
  <2>9. Following(u, u.current_track, u.is_playing, u.current_volume, NoCover)
    BY <2>8
  <2>10. QED
    BY <2>5, <2>6, <2>9, LoadCoverFollows
<1>3. CASE ev.e = "VolumeChanged"
  <2>1. ev.volume \in Volumes
    BY <1>3 DEF PlayerEvent
  <2>2. QED
    BY <1>3, <2>1, VolumeFollows DEF handle_player_event
<1>4. CASE ev.e = "Playing"
  <2> DEFINE r == [s EXCEPT !.active_source = "Spotify"]
  <2>1. TaskOK(r)
    BY <1>1, ReplacePublished
  <2>2. /\ r.connections = s.connections /\ r.is_playing = s.is_playing
        /\ r.next_connection_id = s.next_connection_id
        /\ r.current_track = s.current_track
        /\ r.current_volume = s.current_volume
        /\ r.current_cover = s.current_cover
    BY <1>1, TaskFields DEF Fields
  <2>3. handle_player_event(s, ev) = update_playback(r, TRUE)
    BY <1>4 DEF handle_player_event
  <2> HIDE DEF r
  <2>4. QED
    BY <2>1, <2>2, <2>3, SourceIsNotShown, UpdateFollows
<1>5. CASE ev.e = "Paused"
  BY <1>5, UpdateFollows DEF handle_player_event
<1>6. CASE ev.e = "Seeked"
  BY <1>1, <1>6, UpdateFollows DEF handle_player_event
<1>7. CASE ev.e = "SessionDisconnected"
  BY <1>7, ClearFollows DEF handle_player_event
<1>8. QED
  BY <1>1, <1>2, <1>3, <1>4, <1>5, <1>6, <1>7
LEMMA OnTheAirFollows ==
  ASSUME TypeOK, NEW s, Followed(s), NEW ev \in AirplayEvent,
         ev.e \notin {"SessionEnded", "PlaybackChanged"}
  PROVE  Followed(OnTheAirEvent(s, ev))
<1> DEFINE t == s.current_track
           p == s.is_playing
           m == s.current_volume
           c == s.current_cover
<1>1. /\ ev.e \in {"TrackChanged", "CoverChanged", "ProgressChanged",
                   "VolumeChanged"}
      /\ ev.c \in Senders
  BY DEF AirplayEvent
<1>2. /\ TaskOK(s) /\ Following(s, t, p, m, c) /\ p \in BOOLEAN
      /\ t \in TrackResponse
  BY TaskFields DEF Followed, Following
<1>3. CASE ev.e = "TrackChanged"
  <2> DEFINE x == [source |-> "airplay", item |-> ev.c, timed |-> ev.timed]
             cover == IF ev.cover THEN Sent(ev.c) ELSE NoCover
             r == [s EXCEPT !.current_cover = NoCover,
                            !.current_cover_url = None,
                            !.current_track = x]
             u == announce_track(r)
             w == announce_cover(u, cover)
  <2>1. x \in TrackResponse /\ cover \in Cover
    <3>1. ev.timed \in BOOLEAN
      BY <1>3 DEF AirplayEvent
    <3>2. QED
      BY <1>1, <3>1, SpotifyTypes DEF TrackResponse
  <2>2. OnTheAirEvent(s, ev) = IF cover = NoCover THEN u ELSE w
    BY <1>3 DEF OnTheAirEvent, AirplayTrackChanged
  <2> HIDE DEF x, cover
  <2>3. TaskOK(r)
    BY <1>2, <2>1, SpotifyTypes DEF TaskOK, QueuesFit, ApiServerTask
  <2>4. /\ r.connections = s.connections /\ r.is_playing = p
        /\ r.next_connection_id = s.next_connection_id
        /\ r.current_track = x /\ r.current_volume = m
        /\ r.current_cover = NoCover
    BY <1>2, TaskFields DEF Fields
  <2> HIDE DEF r, t, p, m, c
  <2>5. Following(r, t, p, m, c)
    BY <1>2, <2>3, <2>4, FollowingIsAboutConnections
  <2>6. /\ Following(u, x, p, m, NoCover) /\ u.current_track = x
        /\ u.is_playing = p /\ u.current_volume = m
        /\ u.current_cover = NoCover
    BY <2>4, <2>5, TrackFollows
  <2> HIDE DEF u
  <2>7. /\ Following(w, x, p, m, cover) /\ w.current_track = x
        /\ w.is_playing = p /\ w.current_volume = m /\ w.current_cover = cover
    BY <2>1, <2>6, CoverFollows
  <2> HIDE DEF w
  <2>8. Followed(u) /\ Followed(w)
    BY <2>6, <2>7 DEF Followed
  <2>9. QED
    BY <2>2, <2>8
<1>4. CASE ev.e = "CoverChanged"
  <2> DEFINE w == announce_cover(s, Sent(ev.c))
  <2>1. /\ Following(w, t, p, m, Sent(ev.c)) /\ w.current_track = t
        /\ w.is_playing = p /\ w.current_volume = m
        /\ w.current_cover = Sent(ev.c)
    BY <1>1, <1>2, SpotifyTypes, CoverFollows
  <2>2. OnTheAirEvent(s, ev) = IF ev.oversized THEN s ELSE w
    BY <1>4 DEF OnTheAirEvent
  <2> HIDE DEF w, t, p, m, c
  <2>3. Followed(w)
    BY <2>1 DEF Followed
  <2>4. QED
    BY <2>2, <2>3
<1>5. CASE ev.e = "ProgressChanged"
  <2> DEFINE x == [t EXCEPT !.timed = @ \/ ev.timed]
             r == [s EXCEPT !.current_track = x]
  <2>1. ev.timed \in BOOLEAN
    BY <1>5 DEF AirplayEvent
  <2>2. /\ x \in TrackResponse /\ x.source = t.source /\ x.item = t.item
        /\ t.timed = TRUE => x.timed = TRUE
    BY <1>2, <2>1 DEF TrackResponse
  <2>3. OnTheAirEvent(s, ev) = update_playback(r, p)
    BY <1>2, <1>5 DEF OnTheAirEvent, ProgressChanged, TrackResponse
  <2> HIDE DEF x
  <2>4. TaskOK(r)
    BY <1>2, <2>2, ReplacePublished
  <2>5. /\ r.connections = s.connections /\ r.is_playing = p
        /\ r.next_connection_id = s.next_connection_id
        /\ r.current_track = x /\ r.current_volume = m
        /\ r.current_cover = c
    BY <1>2, TaskFields DEF Fields
  <2> HIDE DEF r, t, p, m, c
  <2>6. Following(r, t, p, m, c)
    BY <1>2, <2>4, <2>5, FollowingIsAboutConnections
  <2>7. Following(r, x, p, m, c)
    BY <2>2, <2>6 DEF Following, Follow, Match
  <2>8. Followed(r)
    BY <2>5, <2>7 DEF Followed
  <2>9. QED
    BY <1>2, <2>3, <2>8, UpdateFollows
<1>6. CASE ev.e = "VolumeChanged"
  <2>1. ev.volume \in Volumes
    BY <1>6 DEF AirplayEvent
  <2>2. QED
    BY <1>6, <2>1, VolumeFollows DEF OnTheAirEvent
<1>7. QED
  BY <1>1, <1>3, <1>4, <1>5, <1>6

LEMMA AirplayEventFollows ==
  ASSUME TypeOK, NEW s, Followed(s), NEW ev \in AirplayEvent
  PROVE  Followed(handle_airplay_event(s, ev))
<1>1. /\ ev.e \in {"SessionEnded", "PlaybackChanged", "TrackChanged",
                   "CoverChanged", "ProgressChanged", "VolumeChanged"}
      /\ ev.c \in Senders /\ TaskOK(s)
  BY DEF AirplayEvent, Followed, Following
<1>2. CASE ev.e = "SessionEnded"
  <2> DEFINE r == [s EXCEPT !.airplay_connection = None]
  <2>1. TaskOK(r)
    BY <1>1, ReplacePublished
  <2>2. /\ r.connections = s.connections /\ r.is_playing = s.is_playing
        /\ r.next_connection_id = s.next_connection_id
        /\ r.current_track = s.current_track
        /\ r.current_volume = s.current_volume
        /\ r.current_cover = s.current_cover
    BY <1>1, TaskFields DEF Fields
  <2>3. handle_airplay_event(s, ev) \in {s, r, clear_now_playing(r)}
    BY <1>2 DEF handle_airplay_event, SessionEnded, airplay_is_on_the_air
  <2> HIDE DEF r
  <2>4. Followed(r)
    BY <2>1, <2>2, SourceIsNotShown
  <2>5. QED
    BY <2>3, <2>4, ClearFollows
<1>3. CASE ev.e = "PlaybackChanged"
  <2> DEFINE r == [s EXCEPT !.active_source = "Airplay",
                            !.airplay_connection = ev.c]
  <2>1. ev.is_playing \in BOOLEAN
    BY <1>3 DEF AirplayEvent
  <2>2. TaskOK(r)
    BY <1>1 DEF TaskOK, QueuesFit, ApiServerTask
  <2>3. /\ r.connections = s.connections /\ r.is_playing = s.is_playing
        /\ r.next_connection_id = s.next_connection_id
        /\ r.current_track = s.current_track
        /\ r.current_volume = s.current_volume
        /\ r.current_cover = s.current_cover
    BY <1>1, TaskFields DEF Fields
  <2>4. handle_airplay_event(s, ev)
          \in {s, update_playback(r, TRUE), update_playback(s, FALSE)}
    BY <1>3, <2>1 DEF handle_airplay_event, AirplayPlayback
  <2> HIDE DEF r
  <2>5. Followed(r)
    BY <2>2, <2>3, SourceIsNotShown
  <2>6. QED
    BY <2>4, <2>5, UpdateFollows
<1>4. CASE ev.e \notin {"SessionEnded", "PlaybackChanged"}
  BY <1>4, OnTheAirFollows DEF handle_airplay_event
<1>5. QED
  BY <1>2, <1>3, <1>4
-----------------------------------------------------------------------------
(* A line for one connection.                                              *)

LEMMA SendLineOthers ==
  ASSUME NEW s, TaskOK(s), NEW id \in Ids, NEW line \in Line
  PROVE  LET u == send_line(s, line, id)
         IN /\ u.next_connection_id = s.next_connection_id
            /\ \A j \in Ids \ {id} : u.connections[j] = s.connections[j]
            /\ u.current_track = s.current_track /\ u.is_playing = s.is_playing
            /\ u.current_volume = s.current_volume
            /\ u.current_cover = s.current_cover
<1>1. DOMAIN s = Fields /\ s.connections \in [Ids -> Connection]
  BY DEF TaskOK, ApiServerTask, Fields
<1>2. QED
  BY <1>1 DEF send_line, disconnect, Fields

\* The others have nothing to read but what they had.
LEMMA SendLineFollows ==
  ASSUME TypeOK, NEW s, TaskOK(s), Admitted(s), NEW id \in Ids,
         s.connections[id].open, NEW line \in Line,
         NEW t, NEW p, NEW m, NEW c,
         \A j \in Ids \ {id} :
           s.connections[j].subscribed /\ sockets[j].writer = "running"
             => Match(Read(view[j], s.connections[j].queue), t, p, m, c),
         s.connections[id].subscribed /\ sockets[id].writer = "running"
           => Match(Apply(Read(view[id], s.connections[id].queue), line),
                    t, p, m, c)
  PROVE  Following(send_line(s, line, id), t, p, m, c)
<1> DEFINE u == send_line(s, line, id)
<1>1. TaskOK(u) /\ view \in [Ids -> View] /\ view[id] \in View
  BY SendLineOK, TypeParts
<1>2. /\ u.next_connection_id = s.next_connection_id
      /\ \A j \in Ids \ {id} : u.connections[j] = s.connections[j]
  BY SendLineOthers
<1>3. u.connections[id].subscribed =>
        /\ u.connections[id].open /\ s.connections[id].subscribed
        /\ u.connections[id].queue = Append(s.connections[id].queue, line)
  BY SendLineTakes
<1> HIDE DEF u
<1>4. Admitted(u)
  BY <1>2, <1>3 DEF Admitted
<1>5. ASSUME u.connections[id].subscribed, sockets[id].writer = "running"
      PROVE  Match(Read(view[id], u.connections[id].queue), t, p, m, c)
  <2> DEFINE q == s.connections[id].queue
  <2>1. q \in Seq(Line)
    BY DEF TaskOK, ApiServerTask, Connection
  <2>2. u.connections[id].queue = Append(q, line)
    BY <1>3, <1>5
  <2>3. Match(Apply(Read(view[id], q), line), t, p, m, c)
    BY <1>3, <1>5
  <2> HIDE DEF q
  <2>4. QED
    BY <1>1, <2>1, <2>2, <2>3, ReadAppend
<1>6. Follow(u, t, p, m, c)
  BY <1>2, <1>5 DEF Follow
<1>7. Following(u, t, p, m, c)
  BY <1>1, <1>4, <1>6 DEF Following
<1>8. QED
  BY <1>7 DEF u

LEMMA SnapshotMatches ==
  ASSUME NEW v \in View, NEW s, TaskOK(s), NEW fresh \in BOOLEAN
  PROVE  Match(Apply(v, snapshot(s, fresh)), s.current_track, s.is_playing,
               s.current_volume, IF fresh THEN NoCover ELSE v.cover)
BY DEF Apply, snapshot, Match

LEMMA AnswerFollows ==
  ASSUME TypeOK, NEW s, Followed(s), NEW id \in Ids, s.connections[id].open,
         NEW line, \/ line = Answer
                   \/ s.connections[id].subscribed /\ line = snapshot(s, FALSE)
  PROVE  Followed(send_line(s, line, id))
<1> DEFINE t == s.current_track
           p == s.is_playing
           m == s.current_volume
           c == s.current_cover
           v == Read(view[id], s.connections[id].queue)
           u == send_line(s, line, id)
<1>1. TaskOK(s) /\ Admitted(s) /\ Follow(s, t, p, m, c)
  BY DEF Followed, Following
<1>2. line \in Line
  BY <1>1, LineTypes, SnapshotType DEF TaskOK
<1>3. v \in View
  <2>1. view[id] \in View /\ s.connections[id].queue \in Seq(Line)
    BY <1>1, TypeParts DEF TaskOK, ApiServerTask, Connection
  <2>2. QED
    BY <2>1, ReadType
<1>4. s.connections[id].subscribed /\ sockets[id].writer = "running"
        => Match(Apply(v, line), t, p, m, c)
  <2> SUFFICES ASSUME s.connections[id].subscribed,
                      sockets[id].writer = "running"
               PROVE  Match(Apply(v, line), t, p, m, c)
    OBVIOUS
  <2>1. Match(v, t, p, m, c)
    BY <1>1 DEF Follow
  <2> HIDE DEF v
  <2>2. CASE line = Answer
    BY <1>3, <2>1, <2>2, ApplyMatches
  <2>3. CASE line = snapshot(s, FALSE)
    <3>1. v.cover = c
      BY <2>1 DEF Match
    <3>2. QED
      BY <1>1, <1>3, <2>3, <3>1, SnapshotMatches
  <2>4. QED
    BY <2>2, <2>3
<1>5. \A j \in Ids \ {id} :
        s.connections[j].subscribed /\ sockets[j].writer = "running"
          => Match(Read(view[j], s.connections[j].queue), t, p, m, c)
  BY <1>1 DEF Follow
<1>6. /\ u.current_track = t /\ u.is_playing = p
      /\ u.current_volume = m /\ u.current_cover = c
  BY <1>1, <1>2, SendLineOthers
<1> HIDE DEF t, p, m, c
<1>7. Following(u, t, p, m, c)
  BY <1>1, <1>2, <1>4, <1>5, SendLineFollows
<1> HIDE DEF u
<1>8. Followed(u)
  BY <1>6, <1>7 DEF Followed
<1>9. QED
  BY <1>8 DEF u
\* A new subscriber gets the state and then the picture that is already here.
LEMMA SubscribeFollows ==
  ASSUME TypeOK, NEW s, Followed(s), NEW id \in Ids, s.connections[id].open,
         id < s.next_connection_id
  PROVE  Followed(subscribe(s, id))
<1> DEFINE t == s.current_track
           p == s.is_playing
           m == s.current_volume
           c == s.current_cover
           is_new == ~s.connections[id].subscribed
           x == [s.connections[id] EXCEPT !.subscribed = TRUE]
           r == [s EXCEPT !.connections[id] = x]
           snap == snapshot(s, is_new)
           q == s.connections[id].queue
           v == Read(view[id], q)
           u == send_line(r, snap, id)
           w == send_line(u, encode_cover(u), id)
<1>1. /\ TaskOK(s) /\ Admitted(s) /\ Follow(s, t, p, m, c)
      /\ s.connections \in [Ids -> Connection] /\ s \in ApiServerTask
      /\ Len(s.connections[id].queue) <= CONNECTION_QUEUE
      /\ DOMAIN s = Fields /\ c \in Cover
      /\ q \in Seq(Line) /\ view[id] \in View
  BY TypeParts
     DEF Followed, Following, TaskOK, QueuesFit, ApiServerTask, Fields,
         Connection
<1>2. v \in View
  BY <1>1, ReadType
<1>3. x \in Connection /\ x.queue = q /\ x.open /\ x.subscribed
  BY <1>1 DEF Connection
<1>4. [s EXCEPT !.connections[id].subscribed = TRUE] = r
  BY <1>1
<1>5. subscribe(s, id) = IF is_new /\ c # NoCover THEN w ELSE u
  BY <1>4 DEF subscribe
<1>6. snap \in Line
  BY <1>1, SnapshotType
<1>7. Match(Apply(v, snap), t, p, m, IF is_new THEN NoCover ELSE v.cover)
  BY <1>1, <1>2, SnapshotMatches
<1> HIDE DEF x, snap
<1>8. TaskOK(r)
  BY <1>1, <1>3, ReplaceConnection
<1>9. /\ r.connections[id] = x /\ r.connections[id].queue = q
      /\ r.connections[id].open /\ r.connections[id].subscribed
      /\ \A j \in Ids \ {id} : r.connections[j] = s.connections[j]
      /\ r.next_connection_id = s.next_connection_id
      /\ r.current_track = t /\ r.is_playing = p /\ r.current_volume = m
      /\ r.current_cover = c
  BY <1>1, <1>3 DEF Fields
<1> HIDE DEF r
<1>10. Admitted(r)
  BY <1>1, <1>9 DEF Admitted
<1>11. \A j \in Ids \ {id} :
         r.connections[j].subscribed /\ sockets[j].writer = "running"
           => Match(Read(view[j], r.connections[j].queue), t, p, m, c)
  BY <1>1, <1>9 DEF Follow
<1>12. /\ TaskOK(u) /\ u.next_connection_id = r.next_connection_id
       /\ \A j \in Ids \ {id} : u.connections[j] = r.connections[j]
       /\ u.current_track = t /\ u.is_playing = p /\ u.current_volume = m
       /\ u.current_cover = c
  BY <1>6, <1>8, <1>9, SendLineOK, SendLineOthers
<1>13. CASE is_new /\ c # NoCover
  <2>1. u.connections[id].subscribed =>
          u.connections[id].open /\ u.connections[id].queue = Append(q, snap)
    <3> HIDE DEF q
    <3>1. u.connections[id].subscribed =>
            /\ u.connections[id].open
            /\ u.connections[id].queue = Append(r.connections[id].queue, snap)
      BY <1>6, <1>8, <1>9, SendLineTakes
    <3>2. QED
      BY <1>9, <3>1
  <2> HIDE DEF u, t, p, m, c
  <2>2. Admitted(u)
    <3>1. \A j \in Ids \ {id} : u.connections[j].subscribed =>
            u.connections[j].open /\ j < u.next_connection_id
      BY <1>10, <1>12 DEF Admitted
    <3>2. u.connections[id].subscribed =>
            u.connections[id].open /\ id < u.next_connection_id
      BY <1>9, <1>12, <2>1
    <3>3. QED
      BY <3>1, <3>2 DEF Admitted
  <2>3. \A j \in Ids \ {id} :
          u.connections[j].subscribed /\ sockets[j].writer = "running"
            => Match(Read(view[j], u.connections[j].queue), t, p, m, c)
    BY <1>11, <1>12
  <2>4. CASE ~u.connections[id].open
    <3>1. w = u
      BY <2>4 DEF send_line
    <3>2. ~u.connections[id].subscribed
      BY <2>1, <2>4
    <3>3. Follow(u, t, p, m, c)
      BY <2>3, <3>2 DEF Follow
    <3>4. Followed(u)
      BY <1>12, <2>2, <3>3 DEF Followed, Following
    <3>5. QED
      BY <1>5, <1>13, <3>1, <3>4
  <2>5. CASE u.connections[id].open
    <3> DEFINE line == [event |-> "cover", cover |-> c]
    <3>1. encode_cover(u) = line /\ line \in Line
      BY <1>1, <1>12, LineTypes DEF encode_cover
    <3>2. u.connections[id].subscribed /\ sockets[id].writer = "running"
            => Match(Apply(Read(view[id], u.connections[id].queue), line),
                     t, p, m, c)
      <4> SUFFICES ASSUME u.connections[id].subscribed
                   PROVE  Match(Apply(Read(view[id], u.connections[id].queue),
                                      line), t, p, m, c)
        OBVIOUS
      <4> HIDE DEF v, q
      <4>1. Read(view[id], Append(q, snap)) = Apply(v, snap)
        BY <1>1, <1>6, ReadAppend DEF v
      <4>2. Match(Apply(v, snap), t, p, m, NoCover)
        BY <1>7, <1>13
      <4>3. Apply(v, snap) \in View
        BY <1>2, <1>6, ApplyType
      <4>4. Match(Apply(Apply(v, snap), line), t, p, m, c)
        BY <1>1, <4>2, <4>3, ApplyMatches
      <4>5. QED
        BY <2>1, <4>1, <4>4
    <3> HIDE DEF line
    <3>3. w = send_line(u, line, id)
      BY <3>1
    <3> HIDE DEF w
    <3>4. Following(w, t, p, m, c)
      BY <1>12, <2>2, <2>3, <2>5, <3>1, <3>2, <3>3, SendLineFollows
    <3>5. /\ w.current_track = t /\ w.is_playing = p
          /\ w.current_volume = m /\ w.current_cover = c
      BY <1>12, <3>1, <3>3, SendLineOthers
    <3>6. Followed(w)
      BY <3>4, <3>5 DEF Followed
    <3>7. QED
      BY <1>5, <1>13, <3>6
  <2>6. QED
    BY <2>4, <2>5
<1>14. CASE ~(is_new /\ c # NoCover)
  <2>1. r.connections[id].subscribed /\ sockets[id].writer = "running"
          => Match(Apply(Read(view[id], r.connections[id].queue), snap),
                   t, p, m, c)
    <3> SUFFICES ASSUME sockets[id].writer = "running"
                 PROVE  Match(Apply(v, snap), t, p, m, c)
      BY <1>9
    <3>1. CASE is_new
      BY <1>7, <1>14, <3>1
    <3>2. CASE ~is_new
      <4>1. Match(v, t, p, m, c)
        BY <1>1, <3>2 DEF Follow
      <4>2. v.cover = c
        BY <4>1 DEF Match
      <4>3. QED
        BY <1>7, <3>2, <4>2
    <3>3. QED
      BY <3>1, <3>2
  <2> HIDE DEF t, p, m, c
  <2>2. Following(u, t, p, m, c)
    BY <1>6, <1>8, <1>9, <1>10, <1>11, <2>1, SendLineFollows
  <2> HIDE DEF u
  <2>3. Followed(u)
    BY <1>12, <2>2 DEF Followed
  <2>4. QED
    BY <1>5, <1>14, <2>3
<1>15. QED
  BY <1>13, <1>14

\* A connection that stops following: nothing is owed to it.
LEMMA UnfollowFollows ==
  ASSUME NEW s, Followed(s), NEW id \in Ids, NEW b \in BOOLEAN, NEW u,
         u = [s EXCEPT !.connections[id] = Unfollowed(@, b)]
  PROVE  Followed(u)
<1> DEFINE t == s.current_track
           p == s.is_playing
           m == s.current_volume
           c == s.current_cover
           x == Unfollowed(s.connections[id], b)
<1>1. /\ TaskOK(s) /\ Admitted(s) /\ Follow(s, t, p, m, c)
      /\ s.connections \in [Ids -> Connection]
      /\ Len(s.connections[id].queue) <= CONNECTION_QUEUE
      /\ DOMAIN s = Fields
  BY DEF Followed, Following, TaskOK, QueuesFit, ApiServerTask, Fields
<1>2. u = [s EXCEPT !.connections[id] = x]
  BY <1>1
<1>3. x \in Connection /\ Len(x.queue) <= CONNECTION_QUEUE
  BY <1>1, ConnectionTypes
<1>4. x.subscribed = FALSE
  BY DEF Unfollowed
<1> HIDE DEF x
<1>5. TaskOK(u)
  BY <1>1, <1>2, <1>3, ReplaceConnection
<1>6. /\ u.connections[id] = x
      /\ \A j \in Ids \ {id} : u.connections[j] = s.connections[j]
      /\ u.next_connection_id = s.next_connection_id
      /\ u.current_track = t /\ u.is_playing = p /\ u.current_volume = m
      /\ u.current_cover = c
  BY <1>1, <1>2 DEF Fields
<1> HIDE DEF t, p, m, c
<1>7. Admitted(u)
  BY <1>1, <1>4, <1>6 DEF Admitted
<1>8. Follow(u, t, p, m, c)
  BY <1>1, <1>4, <1>6 DEF Follow
<1>9. QED
  BY <1>5, <1>6, <1>7, <1>8 DEF Followed, Following

LEMMA RequestFollows ==
  ASSUME TypeOK, NEW s, Followed(s), NEW id \in Ids,
         id < s.next_connection_id, NEW command \in Commands
  PROVE  Followed(handle_request(s, id, command))
<1> SUFFICES ASSUME s.connections[id].open
             PROVE  Followed(handle_request(s, id, command))
  BY DEF handle_request
<1>1. CASE command = "getvol"
  BY <1>1, AnswerFollows DEF handle_request
<1>2. CASE command = "status"
  <2> DEFINE line == IF s.connections[id].subscribed THEN snapshot(s, FALSE)
                     ELSE Answer
  <2>1. \/ line = Answer
        \/ s.connections[id].subscribed /\ line = snapshot(s, FALSE)
    OBVIOUS
  <2>2. handle_request(s, id, command) = send_line(s, line, id)
    BY <1>2 DEF handle_request
  <2> HIDE DEF line
  <2>3. QED
    BY <2>1, <2>2, AnswerFollows
<1>3. CASE command = "subscribe"
  BY <1>3, SubscribeFollows DEF handle_request
<1>4. CASE command = "unsubscribe"
  BY <1>4, UnfollowFollows DEF handle_request, unsubscribe
<1>5. QED
  BY <1>1, <1>2, <1>3, <1>4 DEF Commands
-----------------------------------------------------------------------------
(* Every step keeps the subscribers together with the server.              *)

\* A connection that was never accepted has no reader.
Accepted ==
  task.running => \A id \in Ids : sockets[id].reader # "none"
                                    => id < task.next_connection_id

Replicated == Followed(task) /\ Accepted

\* The server task's turn: what it leaves is followed with the pictures that
\* Becomes keeps.
LEMMA BecomesFollowed ==
  ASSUME NEW t, Followed(t), Becomes(t), TypeOK,
         \A id \in Ids : t.connections[id].subscribed
                           /\ sockets'[id].writer = "running"
                           => sockets[id].writer = "running"
  PROVE  Followed(task)'
<1>1. task' = t /\ view' = [id \in Ids |-> IF t.connections[id].subscribed
                                           THEN view[id] ELSE NoView]
  BY DEF Becomes
<1>2. TaskOK(task') /\ Admitted(task')
  BY <1>1 DEF Followed, Following
<1>3. ASSUME NEW id \in Ids, task'.connections[id].subscribed,
             sockets'[id].writer = "running"
      PROVE  Match(Read(view'[id], task'.connections[id].queue),
                   task'.current_track, task'.is_playing,
                   task'.current_volume, task'.current_cover)
  <2>1. /\ t.connections[id].subscribed /\ sockets[id].writer = "running"
        /\ view'[id] = view[id]
    BY <1>1, <1>3
  <2>2. Match(Read(view[id], t.connections[id].queue), t.current_track,
              t.is_playing, t.current_volume, t.current_cover)
    BY <2>1 DEF Followed, Following, Follow
  <2>3. QED
    BY <1>1, <2>1, <2>2
<1>4. QED
  BY <1>2, <1>3
     DEF Followed, Following, Follow, TaskOK, QueuesFit, Admitted

LEMMA InitReplicated == Init => Replicated
<1> SUFFICES ASSUME Init PROVE Replicated
  OBVIOUS
<1>1. TaskOK(task)
  BY InitTypes, TypeParts
<1>2. \A id \in Ids : task.connections[id].subscribed = FALSE
  BY DEF Init, InitialTask, NoConnection
<1>3. Followed(task)
  BY <1>1, <1>2 DEF Followed, Following, Admitted, Follow
<1>4. Accepted
  BY DEF Init, Accepted
<1>5. QED
  BY <1>3, <1>4 DEF Replicated

\* A writer at work: what was read and what is left make the same picture.
LEMMA WriteFollowed ==
  ASSUME TypeOK, TypeOK', Followed(task), NEW id \in Ids, Write(id)
  PROVE  Followed(task)'
<1> DEFINE q == task.connections[id].queue
<1>1. /\ TaskOK(task) /\ TaskOK(task') /\ DOMAIN task = Fields
      /\ task.connections \in [Ids -> Connection]
      /\ task.connections[id] \in Connection
      /\ q \in Seq(Line) /\ q # <<>> /\ view \in [Ids -> View]
      /\ DOMAIN task.connections[id] = {"open", "subscribed", "queue"}
  BY TypeParts
     DEF TypeOK, TaskOK, QueuesFit, ApiServerTask, Fields, Connection, Write
<1>2. /\ task'.connections[id].open = task.connections[id].open
      /\ task'.connections[id].subscribed = task.connections[id].subscribed
      /\ task'.connections[id].queue = Tail(q)
      /\ \A j \in Ids \ {id} : task'.connections[j] = task.connections[j]
      /\ task'.next_connection_id = task.next_connection_id
      /\ task'.current_track = task.current_track
      /\ task'.is_playing = task.is_playing
      /\ task'.current_volume = task.current_volume
      /\ task'.current_cover = task.current_cover
  BY <1>1 DEF Write, Fields
<1>3. sockets' = sockets
  BY DEF Write
<1>4. Admitted(task')
  <2>1. Admitted(task)
    BY DEF Followed, Following
  <2>2. QED
    BY <1>2, <2>1 DEF Admitted
<1>5. ASSUME NEW j \in Ids, task'.connections[j].subscribed,
             sockets'[j].writer = "running"
      PROVE  Match(Read(view'[j], task'.connections[j].queue),
                   task.current_track, task.is_playing,
                   task.current_volume, task.current_cover)
  <2>1. task.connections[j].subscribed
    BY <1>2, <1>5
  <2>2. Match(Read(view[j], task.connections[j].queue), task.current_track,
              task.is_playing, task.current_volume, task.current_cover)
    BY <1>3, <1>5, <2>1 DEF Followed, Following, Follow
  <2>3. Read(view'[j], task'.connections[j].queue)
          = Read(view[j], task.connections[j].queue)
    <3>1. CASE j = id
      <4>1. view'[id] = Apply(view[id], Head(q))
        BY <1>1, <2>1, <3>1 DEF Write
      <4>2. view[id] \in View /\ task'.connections[id].queue = Tail(q)
        BY <1>1, <1>2
      <4> HIDE DEF q
      <4>3. Read(Apply(view[id], Head(q)), Tail(q)) = Read(view[id], q)
        BY <1>1, <4>2, ReadTail
      <4>4. QED
        BY <3>1, <4>1, <4>2, <4>3 DEF q
    <3>2. CASE j # id
      <4>1. view'[j] = view[j] /\ task'.connections[j] = task.connections[j]
        BY <1>1, <1>2, <3>2 DEF Write
      <4>2. QED
        BY <4>1
    <3>3. QED
      BY <3>1, <3>2
  <2>4. QED
    BY <2>2, <2>3
<1>6. QED
  BY <1>1, <1>2, <1>4, <1>5
     DEF Followed, Following, Follow, TaskOK, QueuesFit, Admitted

LEMMA WriterFailsFollowed ==
  ASSUME TypeOK, TypeOK', Followed(task), NEW id \in Ids, WriterFails(id)
  PROVE  Followed(task)'
<1>1. /\ TaskOK(task) /\ TaskOK(task') /\ DOMAIN task = Fields
      /\ task.connections \in [Ids -> Connection] /\ sockets \in Sockets
      /\ DOMAIN task.connections[id] = {"open", "subscribed", "queue"}
  BY TypeParts DEF TypeOK, TaskOK, QueuesFit, ApiServerTask, Fields, Connection
<1>2. /\ task'.connections[id].open = task.connections[id].open
      /\ task'.connections[id].subscribed = task.connections[id].subscribed
      /\ \A j \in Ids \ {id} : task'.connections[j] = task.connections[j]
      /\ task'.next_connection_id = task.next_connection_id
      /\ task'.current_track = task.current_track
      /\ task'.is_playing = task.is_playing
      /\ task'.current_volume = task.current_volume
      /\ task'.current_cover = task.current_cover
  BY <1>1 DEF WriterFails, Fields
<1>3. /\ sockets'[id].writer # "running" /\ view' = view
      /\ \A j \in Ids \ {id} : sockets'[j] = sockets[j]
  BY <1>1 DEF WriterFails, Sockets
<1>4. Admitted(task')
  <2>1. Admitted(task)
    BY DEF Followed, Following
  <2>2. QED
    BY <1>2, <2>1 DEF Admitted
<1>5. ASSUME NEW j \in Ids, task'.connections[j].subscribed,
             sockets'[j].writer = "running"
      PROVE  Match(Read(view'[j], task'.connections[j].queue),
                   task.current_track, task.is_playing,
                   task.current_volume, task.current_cover)
  <2>1. /\ j # id /\ sockets[j].writer = "running" /\ view'[j] = view[j]
        /\ task'.connections[j] = task.connections[j]
    BY <1>2, <1>3, <1>5
  <2>2. QED
    BY <1>5, <2>1 DEF Followed, Following, Follow
<1>6. QED
  BY <1>1, <1>2, <1>4, <1>5
     DEF Followed, Following, Follow, TaskOK, QueuesFit, Admitted
\* No handler ends the task or accepts a connection.
Kept(s, u) ==
  /\ DOMAIN u = Fields /\ u.running = s.running
  /\ u.next_connection_id = s.next_connection_id

LEMMA PushKeeps ==
  ASSUME NEW s, DOMAIN s = Fields
  PROVE  /\ \A line : Kept(s, broadcast(s, line))
         /\ \A line, id : Kept(s, send_line(s, line, id))
         /\ Kept(s, announce_track(s))
         /\ \A b : Kept(s, update_playback(s, b))
         /\ \A v : Kept(s, announce_volume(s, v))
         /\ \A c : Kept(s, announce_cover(s, c))
<1>1. ASSUME NEW r, NEW line, DOMAIN r = Fields
      PROVE  Kept(r, broadcast(r, line))
  BY <1>1 DEF broadcast, Kept, Fields
<1>2. ASSUME NEW line, NEW id PROVE Kept(s, send_line(s, line, id))
  BY DEF send_line, disconnect, Kept, Fields
<1>3. Kept(s, announce_track(s))
  BY <1>1 DEF announce_track
<1>4. ASSUME NEW b PROVE Kept(s, update_playback(s, b))
  <2>1. Kept(s, [s EXCEPT !.is_playing = b])
    BY DEF Kept, Fields
  <2>2. QED
    BY <1>1, <2>1 DEF update_playback, Kept
<1>5. ASSUME NEW v PROVE Kept(s, announce_volume(s, v))
  <2>1. Kept(s, [s EXCEPT !.current_volume = v])
    BY DEF Kept, Fields
  <2>2. QED
    BY <1>1, <2>1 DEF announce_volume, Kept
<1>6. ASSUME NEW c PROVE Kept(s, announce_cover(s, c))
  <2>1. Kept(s, [s EXCEPT !.current_cover = c])
    BY DEF Kept, Fields
  <2>2. QED
    BY <1>1, <2>1 DEF announce_cover, Kept
<1>7. QED
  BY <1>1, <1>2, <1>3, <1>4, <1>5, <1>6

LEMMA KeptByBoth ==
  ASSUME NEW s, NEW t, NEW u, Kept(s, t), Kept(t, u)
  PROVE  Kept(s, u)
BY DEF Kept

LEMMA PushKeepsToo ==
  ASSUME NEW s, NEW r, Kept(s, r)
  PROVE  /\ \A line, id : Kept(s, send_line(r, line, id))
         /\ Kept(s, announce_track(r))
         /\ \A b : Kept(s, update_playback(r, b))
         /\ \A c : Kept(s, announce_cover(r, c))
<1>1. DOMAIN r = Fields
  BY DEF Kept
<1>2. /\ \A line, id : Kept(r, send_line(r, line, id))
      /\ Kept(r, announce_track(r))
      /\ \A b : Kept(r, update_playback(r, b))
      /\ \A c : Kept(r, announce_cover(r, c))
  BY <1>1, PushKeeps
<1>3. QED
  BY <1>2, KeptByBoth

LEMMA CoverHandlersKeep ==
  ASSUME NEW s, DOMAIN s = Fields
  PROVE  /\ Kept(s, clear_now_playing(s))
         /\ \A url : Kept(s, load_cover(s, url))
         /\ \A url : Kept(s, handle_cover(s, url))
<1>1. Kept(s, clear_now_playing(s))
  <2> DEFINE r == [s EXCEPT !.current_track = EmptyTrack,
                            !.current_cover = NoCover,
                            !.current_cover_url = None]
  <2>1. Kept(s, r)
    BY DEF Kept, Fields
  <2> HIDE DEF r
  <2>2. Kept(s, announce_track(r))
    BY <2>1, PushKeepsToo
  <2>3. QED
    BY <2>2, PushKeepsToo DEF clear_now_playing, r
<1>2. ASSUME NEW url PROVE Kept(s, load_cover(s, url))
  <2> DEFINE r == [s EXCEPT !.current_cover = NoCover,
                            !.current_cover_url = url]
  <2>1. Kept(s, r)
    BY DEF Kept, Fields
  <2> HIDE DEF r
  <2>2. Kept(s, announce_cover(r, Fetched(url)))
    BY <2>1, PushKeepsToo
  <2>3. QED
    BY <2>1, <2>2 DEF load_cover, r
<1>3. ASSUME NEW url PROVE Kept(s, handle_cover(s, url))
  <2> DEFINE r == [s EXCEPT !.covers = insert(@, url)]
  <2>1. Kept(s, r)
    BY DEF Kept, Fields
  <2> HIDE DEF r
  <2>2. Kept(s, announce_cover(r, Fetched(url)))
    BY <2>1, PushKeepsToo
  <2>3. QED
    BY <2>1, <2>2 DEF handle_cover, r
<1>4. QED
  BY <1>1, <1>2, <1>3

LEMMA PlayerEventKeeps ==
  ASSUME NEW s, DOMAIN s = Fields, NEW ev \in PlayerEvent
  PROVE  Kept(s, handle_player_event(s, ev))
<1>1. ev.e \in {"TrackChanged", "VolumeChanged", "Playing", "Paused", "Seeked",
                "SessionDisconnected"}
  BY DEF PlayerEvent
<1>2. Kept(s, s)
  BY DEF Kept
<1>3. CASE ev.e = "TrackChanged"
  <2> DEFINE r == [s EXCEPT !.current_track = SpotifyTrack(ev.track)]
  <2>1. Kept(s, r)
    BY DEF Kept, Fields
  <2>2. handle_player_event(s, ev)
          = load_cover(announce_track(r), CoverUrl[ev.track])
    BY <1>3 DEF handle_player_event, SpotifyTrackChanged
  <2> HIDE DEF r
  <2>3. Kept(s, announce_track(r))
    BY <2>1, PushKeepsToo
  <2>4. QED
    BY <2>2, <2>3, CoverHandlersKeep, KeptByBoth DEF Kept
<1>4. CASE ev.e = "Playing"
  <2> DEFINE r == [s EXCEPT !.active_source = "Spotify"]
  <2>1. Kept(s, r)
    BY DEF Kept, Fields
  <2> HIDE DEF r
  <2>2. Kept(s, update_playback(r, TRUE))
    BY <2>1, PushKeepsToo
  <2>3. QED
    BY <1>4, <2>2 DEF handle_player_event, r
<1>5. QED
  BY <1>1, <1>2, <1>3, <1>4, PushKeeps, CoverHandlersKeep
     DEF handle_player_event

LEMMA AirplayEventKeeps ==
  ASSUME NEW s, DOMAIN s = Fields, NEW ev \in AirplayEvent
  PROVE  Kept(s, handle_airplay_event(s, ev))
<1>1. ev.e \in {"SessionEnded", "PlaybackChanged", "TrackChanged",
                "CoverChanged", "ProgressChanged", "VolumeChanged"}
  BY DEF AirplayEvent
<1>2. Kept(s, s)
  BY DEF Kept
<1>3. CASE ev.e = "SessionEnded"
  <2> DEFINE r == [s EXCEPT !.airplay_connection = None]
  <2>1. Kept(s, r)
    BY DEF Kept, Fields
  <2>2. handle_airplay_event(s, ev) \in {s, r, clear_now_playing(r)}
    BY <1>3 DEF handle_airplay_event, SessionEnded, airplay_is_on_the_air
  <2> HIDE DEF r
  <2>3. Kept(s, clear_now_playing(r))
    BY <2>1, CoverHandlersKeep, KeptByBoth DEF Kept
  <2>4. QED
    BY <1>2, <2>1, <2>2, <2>3
<1>4. CASE ev.e = "PlaybackChanged"
  <2> DEFINE r == [s EXCEPT !.active_source = "Airplay",
                            !.airplay_connection = ev.c]
  <2>1. Kept(s, r)
    BY DEF Kept, Fields
  <2>2. ev.is_playing \in BOOLEAN
    BY <1>4 DEF AirplayEvent
  <2>3. handle_airplay_event(s, ev)
          \in {s, update_playback(r, TRUE), update_playback(s, FALSE)}
    BY <1>4, <2>2 DEF handle_airplay_event, AirplayPlayback
  <2> HIDE DEF r
  <2>4. Kept(s, update_playback(r, TRUE))
    BY <2>1, PushKeepsToo
  <2>5. QED
    BY <1>2, <2>3, <2>4, PushKeeps
<1>5. CASE ev.e \notin {"SessionEnded", "PlaybackChanged"}
  <2> SUFFICES Kept(s, OnTheAirEvent(s, ev))
    BY <1>2, <1>5 DEF handle_airplay_event
  <2>1. CASE ev.e = "TrackChanged"
    <3> DEFINE cover == IF ev.cover THEN Sent(ev.c) ELSE NoCover
               r == [s EXCEPT !.current_cover = NoCover,
                              !.current_cover_url = None,
                              !.current_track = [source |-> "airplay",
                                                 item |-> ev.c,
                                                 timed |-> ev.timed]]
               u == announce_track(r)
    <3>1. Kept(s, r)
      BY DEF Kept, Fields
    <3>2. OnTheAirEvent(s, ev) \in {u, announce_cover(u, cover)}
      BY <2>1 DEF OnTheAirEvent, AirplayTrackChanged
    <3> HIDE DEF r, cover
    <3>3. Kept(s, u)
      BY <3>1, PushKeepsToo
    <3> HIDE DEF u
    <3>4. Kept(s, announce_cover(u, cover))
      BY <3>3, PushKeepsToo
    <3>5. QED
      BY <3>2, <3>3, <3>4
  <2>2. CASE ev.e = "ProgressChanged"
    <3> DEFINE r == [s EXCEPT !.current_track.timed = @ \/ ev.timed]
    <3>1. Kept(s, r)
      BY DEF Kept, Fields
    <3>2. OnTheAirEvent(s, ev) = update_playback(r, s.is_playing)
      BY <2>2 DEF OnTheAirEvent, ProgressChanged
    <3> HIDE DEF r
    <3>3. QED
      BY <3>1, <3>2, PushKeepsToo
  <2>3. CASE ev.e \in {"CoverChanged", "VolumeChanged"}
    BY <1>2, <2>3, PushKeeps DEF OnTheAirEvent
  <2>4. QED
    BY <1>1, <1>5, <2>1, <2>2, <2>3
<1>6. QED
  BY <1>3, <1>4, <1>5

LEMMA RequestKeeps ==
  ASSUME NEW s, DOMAIN s = Fields, NEW id, NEW command \in Commands
  PROVE  Kept(s, handle_request(s, id, command))
<1>1. Kept(s, s)
  BY DEF Kept
<1>2. Kept(s, unsubscribe(s, id))
  BY DEF Kept, Fields, unsubscribe
<1>3. Kept(s, subscribe(s, id))
  <2> DEFINE r == [s EXCEPT !.connections[id].subscribed = TRUE]
             u == send_line(r, snapshot(s, ~s.connections[id].subscribed), id)
             w == send_line(u, encode_cover(u), id)
  <2>1. Kept(s, r)
    BY DEF Kept, Fields
  <2>2. subscribe(s, id) \in {u, w}
    BY DEF subscribe
  <2> HIDE DEF r
  <2>3. Kept(s, u)
    BY <2>1, PushKeepsToo
  <2> HIDE DEF u
  <2>4. Kept(s, w)
    BY <2>3, PushKeepsToo
  <2>5. QED
    BY <2>2, <2>3, <2>4
<1>4. QED
  BY <1>1, <1>2, <1>3, PushKeeps DEF handle_request, Commands

LEMMA StepReplicated ==
  ASSUME TypeOK, TypeOK', Replicated, [Next]_vars
  PROVE  Replicated'
<1>1. /\ Followed(task) /\ Accepted /\ TaskOK(task) /\ sockets \in Sockets
      /\ DOMAIN task = Fields
  BY TypeParts, TaskFields DEF Replicated
<1>2. ASSUME NEW t, Becomes(t), Followed(t), UNCHANGED sockets,
             t.next_connection_id = task.next_connection_id,
             t.running = task.running
      PROVE  Replicated'
  <2>1. Followed(task)'
    BY <1>2, BecomesFollowed
  <2>2. Accepted'
    BY <1>1, <1>2 DEF Becomes, Accepted
  <2>3. QED
    BY <2>1, <2>2 DEF Replicated
<1>3. CASE SetSession \/ SetAirplay \/ AirplayChannelCloses
  <2>1. PICK t \in {[task EXCEPT !.session = TRUE],
                    [task EXCEPT !.airplay_events = TRUE],
                    [task EXCEPT !.airplay_events = FALSE]} :
          Becomes(t) /\ UNCHANGED sockets
    BY <1>3 DEF SetSession, SetAirplay, AirplayChannelCloses
  <2>2. TaskOK(t)
    BY <1>1 DEF TaskOK, QueuesFit, ApiServerTask
  <2>3. /\ t.connections = task.connections /\ t.running = task.running
        /\ t.next_connection_id = task.next_connection_id
        /\ t.current_track = task.current_track
        /\ t.is_playing = task.is_playing
        /\ t.current_volume = task.current_volume
        /\ t.current_cover = task.current_cover
    BY <1>1 DEF Fields
  <2>4. Followed(t)
    BY <1>1, <2>2, <2>3, SourceIsNotShown
  <2>5. QED
    BY <1>2, <2>1, <2>3, <2>4
<1>4. CASE Accept
  <2> DEFINE id == task.next_connection_id
             c == [task.connections[id] EXCEPT !.open = TRUE]
             t == [task EXCEPT !.next_connection_id = id + 1,
                               !.connections[id].open = TRUE]
  <2>1. /\ id \in Ids /\ id \in Int /\ Becomes(t) /\ task.running
        /\ sockets' = [sockets EXCEPT ![id] = [reader |-> "reading",
                                               writer |-> "running"]]
    BY <1>1, <1>4, ApiServerAssumption
       DEF Accept, Ids, TaskOK, ApiServerTask
  <2>2. /\ task.connections \in [Ids -> Connection]
        /\ DOMAIN task.connections[id] = {"open", "subscribed", "queue"}
    BY <1>1, <2>1 DEF TaskOK, ApiServerTask, Connection
  <2>3. /\ t.connections[id] = c /\ t.next_connection_id = id + 1
        /\ \A j \in Ids \ {id} : t.connections[j] = task.connections[j]
        /\ t.current_track = task.current_track
        /\ t.is_playing = task.is_playing
        /\ t.current_volume = task.current_volume
        /\ t.current_cover = task.current_cover
    BY <1>1, <2>1, <2>2 DEF Fields
  <2>4. ~task.connections[id].subscribed
    BY <1>1, <2>1 DEF Followed, Following, Admitted
  <2>5. c.subscribed = task.connections[id].subscribed
    BY <2>2
  <2>6. TaskOK(t)
    BY <2>1 DEF TypeOK, TaskOK, QueuesFit, Becomes
  <2> HIDE DEF c, t
  <2>7. ~t.connections[id].subscribed
    BY <2>3, <2>4, <2>5
  <2>8. Admitted(t)
    <3>1. ASSUME NEW j \in Ids, t.connections[j].subscribed
          PROVE  t.connections[j].open /\ j < t.next_connection_id
      <4>1. j # id /\ t.connections[j] = task.connections[j]
        BY <2>3, <2>7, <3>1
      <4>2. task.connections[j].open /\ j < id
        BY <1>1, <3>1, <4>1 DEF Followed, Following, Admitted
      <4>3. j \in Int
        BY DEF Ids
      <4>4. QED
        BY <2>1, <2>3, <4>1, <4>2, <4>3
    <3>2. QED
      BY <3>1 DEF Admitted
  <2>9. Followed(t)
    <3>1. Follow(t, task.current_track, task.is_playing, task.current_volume,
                 task.current_cover)
      BY <1>1, <2>3, <2>7 DEF Followed, Following, Follow
    <3>2. QED
      BY <2>3, <2>6, <2>8, <3>1 DEF Followed, Following
  <2>10. \A j \in Ids : t.connections[j].subscribed
                          /\ sockets'[j].writer = "running"
                          => sockets[j].writer = "running"
    BY <1>1, <2>1, <2>7 DEF Sockets
  <2>11. Followed(task)'
    BY <2>1, <2>9, <2>10, BecomesFollowed
  <2>12. Accepted'
    <3>1. ASSUME NEW j \in Ids, sockets'[j].reader # "none"
          PROVE  j < id + 1
      <4>1. CASE j = id
        BY <2>1, <4>1
      <4>2. CASE j # id
        <5>1. sockets[j].reader # "none"
          BY <1>1, <2>1, <3>1, <4>2 DEF Sockets
        <5>2. j < id /\ j \in Int
          BY <1>1, <2>1, <5>1 DEF Accepted, Ids
        <5>3. QED
          BY <2>1, <5>2
      <4>3. QED
        BY <4>1, <4>2
    <3>2. task'.next_connection_id = id + 1
      BY <2>1, <2>3 DEF Becomes
    <3>3. QED
      BY <3>1, <3>2 DEF Accepted
  <2>13. QED
    BY <2>11, <2>12 DEF Replicated
<1>5. CASE Shutdown
  <2>1. /\ \A id \in Ids : task'.connections[id].subscribed = FALSE
        /\ task'.running = FALSE
    <3>1. DOMAIN InitialTask = Fields
      BY DEF InitialTask, Fields
    <3> DEFINE after == [id \in Ids |->
                           Unfollowed(task.connections[id], FALSE)]
    <3>2. task' = [InitialTask EXCEPT !.running = FALSE, !.connections = after]
      BY <1>5 DEF Shutdown, Becomes
    <3>3. \A id \in Ids : after[id].subscribed = FALSE
      BY DEF Unfollowed
    <3> HIDE DEF after
    <3>4. QED
      BY <3>1, <3>2, <3>3 DEF Fields
  <2>2. TaskOK(task')
    BY DEF TypeOK, TaskOK, QueuesFit
  <2>3. Followed(task)'
    BY <2>1, <2>2
       DEF Followed, Following, Admitted, Follow, TaskOK, QueuesFit
  <2>4. Accepted'
    BY <2>1 DEF Accepted
  <2>5. QED
    BY <2>3, <2>4 DEF Replicated
<1>6. ASSUME NEW ev \in PlayerEvent, PlayerEventArrives(ev)
      PROVE  Followed(task)' /\ UNCHANGED sockets
  BY <1>1, <1>6, PlayerEventFollows, BecomesFollowed DEF PlayerEventArrives
<1>7. ASSUME NEW ev \in AirplayEvent, AirplayEventArrives(ev)
      PROVE  Followed(task)' /\ UNCHANGED sockets
  BY <1>1, <1>7, AirplayEventFollows, BecomesFollowed DEF AirplayEventArrives
<1>8. ASSUME NEW url \in Urls, NEW ok \in BOOLEAN, FetchEnds(url, ok)
      PROVE  Followed(task)' /\ UNCHANGED sockets
  BY <1>1, <1>8, HandleCoverFollows, BecomesFollowed DEF FetchEnds
<1>9. ASSUME NEW id \in Ids, NEW command \in Commands, Request(id, command)
      PROVE  Followed(task)' /\ UNCHANGED sockets
  <2>1. id < task.next_connection_id
    BY <1>1, <1>9 DEF Request, Accepted
  <2>2. QED
    BY <1>1, <1>9, <2>1, RequestFollows, BecomesFollowed DEF Request
<1>10. ASSUME NEW id \in Ids, HandleClosed(id)
       PROVE  Followed(task)'
  <2>1. Followed(disconnect(task, id))
    BY <1>1, UnfollowFollows DEF disconnect
  <2>2. \A j \in Ids : sockets'[j].writer = sockets[j].writer
    BY <1>1, <1>10 DEF HandleClosed, Sockets
  <2>3. QED
    BY <1>10, <2>1, <2>2, BecomesFollowed DEF HandleClosed
<1>11. ASSUME NEW id \in Ids, HangUp(id) \/ ReaderStops(id)
                                \/ WriterShutdown(id)
       PROVE  Followed(task)'
  <2>1. /\ UNCHANGED <<task, view>>
        /\ \A j \in Ids : sockets'[j].writer = "running"
                            => sockets[j].writer = "running"
    BY <1>1, <1>11 DEF HangUp, ReaderStops, WriterShutdown, Sockets
  <2>2. QED
    BY <1>1, <2>1 DEF Followed, Following, Follow, Admitted, TaskOK, QueuesFit
<1>12. ASSUME NEW id \in Ids, Write(id) \/ WriterFails(id)
       PROVE  Followed(task)'
  BY <1>1, <1>12, WriteFollowed, WriterFailsFollowed
<1>13. ASSUME Kept(task, task'),
              \A id \in Ids : sockets'[id].reader # "none"
                                => sockets[id].reader # "none"
       PROVE  Accepted'
  BY <1>1, <1>13 DEF Accepted, Kept
<1>14. ASSUME NEW ev \in PlayerEvent, PlayerEventArrives(ev)
       PROVE  Kept(task, task')
  BY <1>1, <1>14, PlayerEventKeeps DEF PlayerEventArrives, Becomes
<1>15. ASSUME NEW ev \in AirplayEvent, AirplayEventArrives(ev)
       PROVE  Kept(task, task')
  BY <1>1, <1>15, AirplayEventKeeps DEF AirplayEventArrives, Becomes
<1>16. ASSUME NEW url \in Urls, NEW ok \in BOOLEAN, FetchEnds(url, ok)
       PROVE  Kept(task, task')
  <2>1. Kept(task, task)
    BY <1>1 DEF Kept
  <2>2. QED
    BY <1>1, <1>16, <2>1, CoverHandlersKeep DEF FetchEnds, Becomes
<1>17. ASSUME NEW id \in Ids, NEW command \in Commands, Request(id, command)
       PROVE  Kept(task, task')
  BY <1>1, <1>17, RequestKeeps DEF Request, Becomes
<1>18. ASSUME NEW id \in Ids,
              \/ HandleClosed(id) \/ HangUp(id) \/ ReaderStops(id)
              \/ WriterShutdown(id) \/ Write(id) \/ WriterFails(id)
       PROVE  /\ Kept(task, task')
              /\ \A j \in Ids : sockets'[j].reader # "none"
                                  => sockets[j].reader # "none"
  <2>1. Kept(task, task')
    BY <1>1, <1>18
       DEF HandleClosed, HangUp, ReaderStops, WriterShutdown, Write,
           WriterFails, Becomes, disconnect, Kept, Fields
  <2>2. \A j \in Ids : sockets'[j].reader # "none"
                         => sockets[j].reader # "none"
    BY <1>1, <1>18
       DEF HandleClosed, HangUp, ReaderStops, WriterShutdown, Write,
           WriterFails, Sockets
  <2>3. QED
    BY <2>1, <2>2
<1>19. ASSUME NEW ev \in PlayerEvent, PlayerEventArrives(ev) PROVE Replicated'
  BY <1>6, <1>13, <1>14, <1>19 DEF Replicated
<1>20. ASSUME NEW ev \in AirplayEvent, AirplayEventArrives(ev)
       PROVE  Replicated'
  BY <1>7, <1>13, <1>15, <1>20 DEF Replicated
<1>21. ASSUME NEW url \in Urls, NEW ok \in BOOLEAN, FetchEnds(url, ok)
       PROVE  Replicated'
  BY <1>8, <1>13, <1>16, <1>21 DEF Replicated
<1>22. ASSUME NEW id \in Ids, NEW command \in Commands, Request(id, command)
       PROVE  Replicated'
  BY <1>9, <1>13, <1>17, <1>22 DEF Replicated
<1>23. ASSUME NEW id \in Ids,
              \/ HandleClosed(id) \/ HangUp(id) \/ ReaderStops(id)
              \/ WriterShutdown(id) \/ Write(id) \/ WriterFails(id)
       PROVE  Replicated'
  BY <1>10, <1>11, <1>12, <1>13, <1>18, <1>23 DEF Replicated
<1>24. CASE UNCHANGED vars
  BY <1>1, <1>24
     DEF vars, Replicated, Accepted, Followed, Following, Follow, Admitted,
         TaskOK, QueuesFit
<1>25. QED
  BY <1>3, <1>4, <1>5, <1>19, <1>20, <1>21, <1>22, <1>23, <1>24 DEF Next

\* What every subscriber will have read is what is published.
THEOREM ReplicationHolds == Spec => []Replicated
<1>1. TypeOK /\ TypeOK' /\ Replicated /\ [Next]_vars => Replicated'
  BY StepReplicated
<1>2. QED
  BY <1>1, InitReplicated, TypesHold, PTL DEF Spec

\* broadcast, send_line and subscribe: whatever was pushed, dropped, asked for
\* in between or fetched late, a subscriber whose stream is up ends up with the
\* state the server task holds.
THEOREM ReplicasAgree == Spec => []ReplicaAgrees
<1>1. TypeOK /\ Replicated => ReplicaAgrees
  <2> SUFFICES ASSUME TypeOK, Replicated, NEW id \in Ids,
                      task.connections[id].subscribed,
                      sockets[id].writer = "running"
               PROVE  LET v == Replica(id)
                      IN /\ [v.track EXCEPT !.timed = task.current_track.timed]
                              = task.current_track
                         /\ v.track.timed => task.current_track.timed
                         /\ v.playing = task.is_playing
                         /\ v.volume = task.current_volume
                         /\ v.cover = task.current_cover
    BY DEF ReplicaAgrees
  <2> DEFINE v == Replica(id)
             t == task.current_track
  <2>1. /\ TaskOK(task) /\ t \in TrackResponse /\ view[id] \in View
        /\ task.connections[id].queue \in Seq(Line)
    BY TypeParts, TaskFields DEF TaskOK, ApiServerTask, Connection
  <2>2. v \in View
    BY <2>1, ReadType DEF Replica
  <2>3. Match(v, t, task.is_playing, task.current_volume, task.current_cover)
    BY DEF Replicated, Followed, Following, Follow, Replica
  <2> HIDE DEF v, t
  <2>4. v.track \in TrackResponse
    BY <2>2 DEF View
  <2>5. v.track.source = t.source /\ v.track.item = t.item
    BY <2>3 DEF Match
  <2>6. [v.track EXCEPT !.timed = t.timed] = t
    BY <2>1, <2>4, <2>5 DEF TrackResponse
  <2>7. v.track.timed => t.timed
    BY <2>1, <2>3, <2>4 DEF Match, TrackResponse
  <2>8. QED
    BY <2>3, <2>6, <2>7 DEF Match, v, t
<1>2. QED
  BY <1>1, TypesHold, ReplicationHolds, PTL

=============================================================================
