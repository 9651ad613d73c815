------------------------------- MODULE Player -------------------------------
(***************************************************************************)
(* The playback engine, playback/src/player.rs: the PlayerInternal future  *)
(* that a dedicated thread polls.  One round of its poll loop handles at   *)
(* most one command, then polls the loader of the requested track, the     *)
(* loader of the preloaded track, plays one packet, and suggests a         *)
(* preload; each of these five phases is an action.  Clients of the Player *)
(* handle may send any command at any time, a loader thread may finish at  *)
(* any time, and every call into the decoder or the audio sink may fail.   *)
(*                                                                         *)
(* The variable self is the PlayerInternal struct.  Its operations are     *)
(* operators from one value of the struct to the next, named as in the     *)
(* source, so that a handler that calls several of them is their           *)
(* composition and stays one atomic step, as it is on the player thread.   *)
(* A call that may fail takes its outcome from the io argument of the      *)
(* operator, which the action chooses.                                     *)
(*                                                                         *)
(* Positions are abstract: 0 is the start of a track and Duration its end. *)
(* Sample data, volume, normalisation and the wording of events are left   *)
(* out.                                                                    *)
(***************************************************************************)
EXTENDS Naturals

CONSTANTS Tracks,        \* the track URIs clients may load
          NoTrack,       \* stands for the absence of a track
          Explicit,      \* the tracks whose metadata says is_explicit
          Duration,      \* last position of every track
          PreloadMargin, \* PRELOAD_NEXT_TRACK_BEFORE_END_DURATION_MS
          MaxId,         \* bound: play request ids handed out by a behaviour
          MaxBacklog     \* bound: commands still queued when the handle is dropped

ASSUME PlayerAssumption ==
  /\ Tracks # {}
  /\ NoTrack \notin Tracks
  /\ Explicit \subseteq Tracks
  /\ Duration \in Nat
  /\ PreloadMargin \in Nat
  /\ MaxId \in Nat
  /\ MaxBacklog \in Nat

VARIABLES self,   \* the PlayerInternal struct
          pc,     \* the phase of the poll loop the player thread is in
          busy,   \* all_futures_completed_or_not_ready is false
          closed, \* the Player handle was dropped: the command channel ends
          backlog \* commands queued before that and not yet received

vars == <<self, pc, busy, closed, backlog>>

-----------------------------------------------------------------------------
(* The data. *)

Position == 0 .. Duration

\* A seek either fails or reports the position the decoder ended up at.
SeekFailed == Duration + 1
SeekResult == Position \cup {SeekFailed}

\* A position a client asks for may lie past the end of the track.
Requested == 0 .. Duration + 1

Id == 0 .. MaxId

\* The life of a load_track future: its thread runs, sends the loaded track or
\* drops the sender; a FusedFuture that returned its result is terminated.
Loader == {"none", "running", "ok", "failed", "terminated"}

\* PlayerState.  pos is stream_position_ms, or for a Loading state the position
\* the finished loader left the decoder at.
PlayerState ==
  [tag : {"Stopped", "Loading", "Paused", "Playing", "EndOfTrack", "Invalid"},
   track : Tracks \cup {NoTrack}, id : Id, start_playback : BOOLEAN,
   loader : Loader, pos : Position, suggested : BOOLEAN]

PlayerPreload ==
  [tag : {"None", "Loading", "Ready"}, track : Tracks \cup {NoTrack},
   loader : Loader, pos : Position]

SinkStatus == {"Running", "Closed", "TemporarilyClosed"}

\* What a consumer of the event channel knows: the last id announced by
\* PlayRequestIdChanged, and the last playback event with its id and track.
Listener ==
  [announced : Id,
   status : {"none", "Loading", "Playing", "Paused", "Stopped", "EndOfTrack",
             "Unavailable"},
   id : Id, track : Tracks \cup {NoTrack}]

\* refused records that the last load was given up on because its seek failed;
\* exit is the assertion that ended the process, if one did.
PlayerInternal ==
  [state : PlayerState, preload : PlayerPreload, sink_status : SinkStatus,
   generator : Id, gapless : BOOLEAN, seen : Listener, refused : BOOLEAN,
   exit : {"none", "sink_stop", "player_stop", "is_playing", "poll"}]

Stopped ==
  [tag |-> "Stopped", track |-> NoTrack, id |-> 0, start_playback |-> FALSE,
   loader |-> "none", pos |-> 0, suggested |-> FALSE]

Invalid == [Stopped EXCEPT !.tag = "Invalid"]

NoPreload ==
  [tag |-> "None", track |-> NoTrack, loader |-> "none", pos |-> 0]

Command ==
  [c : {"Load"}, track : Tracks, play : BOOLEAN, pos : Requested]
    \cup [c : {"Preload"}, track : Tracks]
    \cup [c : {"Seek"}, pos : Requested]
    \cup [c : {"Play", "Pause", "Stop", "Emit", "FilterExplicit"}]

-----------------------------------------------------------------------------
(* Events and the audio sink. *)

\* Every listener gets the event; only what it tells about playback is kept.
\* A failed preload is reported as Unavailable too, with the preloaded track.
send_event(s, ev, track, id) ==
  CASE ev = "PlayRequestIdChanged" -> [s EXCEPT !.seen.announced = id]
    [] ev \in {"Loading", "Playing", "Paused", "Stopped", "EndOfTrack"} ->
         [s EXCEPT !.seen.status = ev, !.seen.id = id, !.seen.track = track]
    [] ev = "Unavailable" /\ s.seen.status = "Loading" /\ s.seen.track = track ->
         [s EXCEPT !.seen.status = ev]
    [] OTHER -> s

\* Mutant: a temporarily closed sink is taken for a closed one.
MutantSinkStopped(s, to, io) ==
  IF s.sink_status # "Running" THEN s
  ELSE IF io.stop THEN [s EXCEPT !.sink_status = to]
                  ELSE [s EXCEPT !.exit = "sink_stop"]

\* ensure_sink_stopped: the sink goes to TemporarilyClosed or to Closed, as the
\* temporarily argument says; one that cannot be stopped ends the process.
ensure_sink_stopped(s, to, io) ==
  CASE s.sink_status = "Running" /\ io.stop -> [s EXCEPT !.sink_status = to]
    [] s.sink_status = "Running" /\ ~io.stop -> [s EXCEPT !.exit = "sink_stop"]
    [] s.sink_status = "TemporarilyClosed" /\ to = "Closed" ->
         [s EXCEPT !.sink_status = "Closed"]
    [] OTHER -> s

playing_to_paused(s) == [s EXCEPT !.state.tag = "Paused"]

paused_to_playing(s) == [s EXCEPT !.state.tag = "Playing"]

playing_to_end_of_track(s) == [s EXCEPT !.state.tag = "EndOfTrack"]

\* Mutant: pausing is not reported.
MutantPause(s, io) ==
  CASE s.state.tag = "Paused" -> ensure_sink_stopped(s, "Closed", io)
    [] s.state.tag = "Playing" ->
         ensure_sink_stopped(playing_to_paused(s), "Closed", io)
    [] s.state.tag = "Loading" -> [s EXCEPT !.state.start_playback = FALSE]
    [] OTHER -> s

handle_pause(s, io) ==
  CASE s.state.tag = "Paused" -> ensure_sink_stopped(s, "Closed", io)
    [] s.state.tag = "Playing" ->
         send_event(ensure_sink_stopped(playing_to_paused(s), "Closed", io),
                    "Paused", s.state.track, s.state.id)
    [] s.state.tag = "Loading" -> [s EXCEPT !.state.start_playback = FALSE]
    [] OTHER -> s

\* A sink that does not start pauses the player.
ensure_sink_running(s, io) ==
  CASE s.sink_status = "Running" -> s
    [] s.sink_status # "Running" /\ io.start ->
         [s EXCEPT !.sink_status = "Running"]
    [] OTHER -> handle_pause(s, io)

-----------------------------------------------------------------------------
(* Command handlers. *)

handle_play(s, io) ==
  CASE s.state.tag = "Paused" ->
         ensure_sink_running(
           send_event(paused_to_playing(s), "Playing", s.state.track,
                      s.state.id), io)
    [] s.state.tag = "Loading" -> [s EXCEPT !.state.start_playback = TRUE]
    [] OTHER -> s

\* Mutant: the state is reset before the event is made from it.
MutantStopEarly(s, io) ==
  IF s.state.tag \in {"Playing", "Paused", "EndOfTrack", "Loading"}
  THEN send_event([ensure_sink_stopped(s, "Closed", io) EXCEPT !.state = Stopped],
                  "Stopped", NoTrack, 0)
  ELSE s

\* Mutant: the state is not reset.
MutantStopKeeps(s, io) ==
  IF s.state.tag \in {"Playing", "Paused", "EndOfTrack", "Loading"}
  THEN send_event(ensure_sink_stopped(s, "Closed", io), "Stopped",
                  s.state.track, s.state.id)
  ELSE s

handle_player_stop(s, io) ==
  CASE s.state.tag \in {"Playing", "Paused", "EndOfTrack", "Loading"} ->
         [send_event(ensure_sink_stopped(s, "Closed", io), "Stopped",
                     s.state.track, s.state.id) EXCEPT !.state = Stopped]
    [] s.state.tag = "Invalid" -> [s EXCEPT !.exit = "player_stop"]
    [] OTHER -> s

\* start_playback enters Playing even when the sink failed to start; the pause
\* that the failure asks for acts on the state that is being replaced.
start_playback(s, track, id, pos, play, io) ==
  LET loaded(tag) == [tag |-> tag, track |-> track, id |-> id,
                      start_playback |-> FALSE, loader |-> "none",
                      pos |-> pos, suggested |-> FALSE]
  IN IF play
     THEN [send_event(ensure_sink_running(s, io), "Playing", track, id)
             EXCEPT !.state = loaded("Playing")]
     ELSE send_event([ensure_sink_stopped(s, "Closed", io)
                        EXCEPT !.state = loaded("Paused")],
                     "Paused", track, id)

\* A load that finds the track at hand seeks only if it is somewhere else.
Seeked(at, pos, io) == IF pos = at THEN at ELSE io.seek

\* Mutant: a load that is started over is announced under a new id.
MutantLoadBegins(s, id, play, io) ==
  LET t == send_event([s EXCEPT !.generator = @ + 1, !.refused = FALSE],
                      "PlayRequestIdChanged", NoTrack, s.generator)
      to == IF play THEN "TemporarilyClosed" ELSE "Closed"
  IN IF s.gapless THEN t ELSE ensure_sink_stopped(t, to, io)

\* The id is announced and the sink of a player with gaps is stopped before the
\* state is looked at.  The generator is advanced even when the id is given.
LoadBegins(s, id, play, io) ==
  LET t == send_event([s EXCEPT !.generator = @ + 1, !.refused = FALSE],
                      "PlayRequestIdChanged", NoTrack, id)
      to == IF play THEN "TemporarilyClosed" ELSE "Closed"
  IN IF s.gapless THEN t ELSE ensure_sink_stopped(t, to, io)

\* The four places a loaded or loading copy of the track may be found.
LoadRepeats(t, track, id, play, pos, io) ==
  LET at == Seeked(t.state.pos, pos, io)
  IN IF at = SeekFailed
     THEN [t EXCEPT !.state = Invalid, !.refused = TRUE]
     ELSE start_playback([t EXCEPT !.state = Invalid, !.preload = NoPreload],
                         track, id, at, play, io)

LoadCurrent(t, track, id, play, pos, io) ==
  LET at == Seeked(t.state.pos, pos, io)
  IN IF at = SeekFailed
     THEN [t EXCEPT !.refused = TRUE]
     ELSE start_playback([t EXCEPT !.state = Invalid, !.preload = NoPreload],
                         track, id, at, play, io)

LoadPreloaded(t, track, id, play, pos, io) ==
  LET at == Seeked(t.preload.pos, pos, io)
      u  == [t EXCEPT !.preload = NoPreload]
  IN IF at = SeekFailed
     THEN [u EXCEPT !.refused = TRUE]
     ELSE start_playback(u, track, id, at, play, io)

LoadFromScratch(t, track, id, play, pos) ==
  LET u       == send_event(t, "Loading", track, id)
      pending == /\ u.preload.tag = "Loading"
                 /\ u.preload.track = track
                 /\ pos = 0
  IN [u EXCEPT !.preload = NoPreload,
               !.state = [tag |-> "Loading", track |-> track, id |-> id,
                          start_playback |-> play,
                          loader |-> IF pending THEN u.preload.loader
                                                ELSE "running",
                          pos |-> IF pending THEN u.preload.pos ELSE 0,
                          suggested |-> FALSE]]

handle_command_load(s, track, id, play, pos, io) ==
  LET t == LoadBegins(s, id, play, io)
  IN CASE t.state.tag = "Invalid" -> t
       [] t.state.tag = "EndOfTrack" /\ t.state.track = track ->
            LoadRepeats(t, track, id, play, pos, io)
       [] t.state.tag \in {"Playing", "Paused"} /\ t.state.track = track ->
            LoadCurrent(t, track, id, play, pos, io)
       [] OTHER -> IF t.preload.tag = "Ready" /\ t.preload.track = track
                   THEN LoadPreloaded(t, track, id, play, pos, io)
                   ELSE LoadFromScratch(t, track, id, play, pos)

handle_command_preload(s, track) ==
  LET wanted ==
        /\ ~ (s.preload.tag # "None" /\ s.preload.track = track)
        /\ ~ (/\ s.state.tag \in {"Playing", "Paused", "EndOfTrack"}
              /\ s.state.track = track)
  IN CASE wanted -> [s EXCEPT !.preload = [tag |-> "Loading", track |-> track,
                                           loader |-> "running", pos |-> 0]]
       [] ~wanted /\ s.preload.track # track -> [s EXCEPT !.preload = NoPreload]
       [] OTHER -> s

\* Mutant: the position asked for is kept instead of the one reached.
MutantSeek(s, pos, io) ==
  IF s.state.tag \in {"Playing", "Paused"} /\ io.seek # SeekFailed
  THEN [s EXCEPT !.state.pos = pos]
  ELSE s

\* A seek while loading starts the load over under the same request id.
handle_command_seek(s, pos, io) ==
  CASE s.state.tag = "Loading" ->
         handle_command_load(s, s.state.track, s.state.id,
                             s.state.start_playback, pos, io)
    [] s.state.tag \in {"Playing", "Paused"} /\ io.seek # SeekFailed ->
         send_event([s EXCEPT !.state.pos = io.seek], "Seeked",
                    s.state.track, s.state.id)
    [] OTHER -> s

\* Switching the explicit-content filter on reports the end of an explicit
\* track but leaves it playing.
handle_filter_explicit(s) ==
  IF s.state.tag \in {"Playing", "Paused"} /\ s.state.track \in Explicit
  THEN send_event(s, "EndOfTrack", s.state.track, s.state.id)
  ELSE s

handle_command(s, cmd, io) ==
  CASE cmd.c = "Load" -> handle_command_load(s, cmd.track, s.generator,
                                             cmd.play, cmd.pos, io)
    [] cmd.c = "Preload" -> handle_command_preload(s, cmd.track)
    [] cmd.c = "Seek" -> handle_command_seek(s, cmd.pos, io)
    [] cmd.c = "Play" -> handle_play(s, io)
    [] cmd.c = "Pause" -> handle_pause(s, io)
    [] cmd.c = "Stop" -> handle_player_stop(s, io)
    [] cmd.c = "FilterExplicit" -> handle_filter_explicit(s)
    [] OTHER -> s

-----------------------------------------------------------------------------
(* The poll loop. *)

SinkIO == [start : BOOLEAN, stop : BOOLEAN]
CommandIO == [start : BOOLEAN, stop : BOOLEAN, seek : SeekResult]

\* exit(1) takes the process down whatever the rest of the handler would do.
Continue(s, phase) ==
  /\ self' = s
  /\ pc' = IF s.exit = "none" THEN phase ELSE "exited"

\* Bound: a command that may take an id is sent while there is one to take.
WithinBound(cmd) == cmd.c \in {"Load", "Seek"} => self.generator < MaxId

\* While the handle exists any command may be next in the queue; once it is
\* dropped the queue runs empty.
PollCommand(cmd, io) ==
  /\ pc \in {"command", "parked"}
  /\ closed => backlog > 0
  /\ WithinBound(cmd)
  /\ Continue(handle_command(self, cmd, io), "loader")
  /\ busy' = TRUE
  /\ backlog' = IF closed THEN backlog - 1 ELSE backlog
  /\ UNCHANGED closed

PollNoCommand ==
  /\ pc = "command"
  /\ ~closed
  /\ pc' = "loader"
  /\ UNCHANGED <<self, busy, closed, backlog>>

\* The command channel is closed and empty: the future completes.
PollShutdown ==
  /\ pc = "command"
  /\ closed
  /\ backlog = 0
  /\ pc' = "finished"
  /\ UNCHANGED <<self, busy, closed, backlog>>

\* A loader that failed leaves the state Loading with a terminated loader.
PollLoader(io) ==
  /\ pc = "loader"
  /\ LET st == self.state
         done == [self EXCEPT !.state.loader = "terminated"]
         s == CASE st.tag = "Loading" /\ st.loader = "ok" ->
                     start_playback(done, st.track, st.id, st.pos,
                                    st.start_playback, io)
                [] st.tag = "Loading" /\ st.loader = "failed" ->
                     send_event(done, "Unavailable", st.track, st.id)
                [] OTHER -> self
     IN Continue(s, "preload")
  /\ UNCHANGED <<busy, closed, backlog>>

PollPreload ==
  /\ pc = "preload"
  /\ LET pl == self.preload
         failed == [self EXCEPT !.preload = NoPreload]
         s == CASE pl.tag = "Loading" /\ pl.loader = "ok" ->
                     [self EXCEPT !.preload.tag = "Ready",
                                  !.preload.loader = "none"]
                [] pl.tag = "Loading" /\ pl.loader = "failed" ->
                     IF self.state.tag \in {"Playing", "Paused"}
                     THEN send_event(failed, "Unavailable", pl.track,
                                     self.state.id)
                     ELSE failed
                [] OTHER -> self
     IN Continue(s, "playback")
  /\ UNCHANGED <<busy, closed, backlog>>

\* What decoder.next_packet and the sink make of the next packet.  An error is
\* reported as EndOfTrack while the state stays Playing.
handle_packet(s, packet, io) ==
  CASE packet.kind = "samples" /\ io.write ->
         [s EXCEPT !.state.pos = packet.pos]
    [] packet.kind = "samples" /\ ~io.write ->
         handle_pause([s EXCEPT !.state.pos = packet.pos], io)
    [] packet.kind = "none" ->
         send_event(playing_to_end_of_track(s), "EndOfTrack",
                    s.state.track, s.state.id)
    [] packet.kind = "error" ->
         send_event(s, "EndOfTrack", s.state.track, s.state.id)

Packet == [kind : {"samples"}, pos : Position]
            \cup [kind : {"none", "error"}]
PacketIO == [start : BOOLEAN, stop : BOOLEAN, write : BOOLEAN]

\* is_playing asserts that the state is valid.
PollNotPlaying ==
  /\ pc = "playback"
  /\ self.state.tag # "Playing"
  /\ Continue(IF self.state.tag = "Invalid"
              THEN [self EXCEPT !.exit = "is_playing"] ELSE self, "suggest")
  /\ UNCHANGED <<busy, closed, backlog>>

\* The loop asserts that a playing player is still playing after its sink was
\* started.
PollPlayback(packet, io) ==
  /\ pc = "playback"
  /\ self.state.tag = "Playing"
  /\ LET s == ensure_sink_running(self, io)
     IN Continue(IF s.state.tag = "Playing" THEN handle_packet(s, packet, io)
                 ELSE [s EXCEPT !.exit = "poll"], "suggest")
  /\ UNCHANGED <<busy, closed, backlog>>

\* The end of the round: suggest a preload once the rest of the file is there
\* (available), then go round again unless there is nothing to do.
PollSuggest(available) ==
  /\ pc = "suggest"
  /\ LET st == self.state
         suggest == /\ st.tag \in {"Playing", "Paused"}
                    /\ ~st.suggested
                    /\ Duration < st.pos + PreloadMargin
                    /\ available
     IN self' = IF suggest
                THEN send_event([self EXCEPT !.state.suggested = TRUE],
                                "TimeToPreloadNextTrack", st.track, st.id)
                ELSE self
  /\ pc' = IF self.state.tag # "Playing" /\ ~busy THEN "parked" ELSE "command"
  /\ busy' = FALSE
  /\ UNCHANGED <<closed, backlog>>

\* Mutant: the loaders do not wake the player thread.
MutantWakeClosed ==
  /\ pc = "parked"
  /\ closed
  /\ pc' = "command"
  /\ UNCHANGED <<self, busy, closed, backlog>>

\* Mutant: the end of the command channel does not wake the player thread.
MutantWakeLoaded ==
  /\ pc = "parked"
  /\ \/ self.state.loader \in {"ok", "failed"}
     \/ self.preload.loader \in {"ok", "failed"}
  /\ pc' = "command"
  /\ UNCHANGED <<self, busy, closed, backlog>>

\* A parked future is polled again when the channel closes or a loader is done.
Wake ==
  /\ pc = "parked"
  /\ \/ closed
     \/ self.state.loader \in {"ok", "failed"}
     \/ self.preload.loader \in {"ok", "failed"}
  /\ pc' = "command"
  /\ UNCHANGED <<self, busy, closed, backlog>>

-----------------------------------------------------------------------------
(* The threads around the player. *)

Running == pc \notin {"finished", "exited"}

\* The thread of the requested track's loader ends (PlayerTrackLoader), with
\* the decoder at some position if the track could be loaded.
LoaderFinishes(result, pos) ==
  /\ Running
  /\ self.state.loader = "running"
  /\ self' = [self EXCEPT !.state.loader = result,
                           !.state.pos = IF result = "ok" THEN pos ELSE @]
  /\ UNCHANGED <<pc, busy, closed, backlog>>

\* The thread of the preloaded track's loader ends.
PreloaderFinishes(result, pos) ==
  /\ Running
  /\ self.preload.loader = "running"
  /\ self' = [self EXCEPT !.preload.loader = result,
                           !.preload.pos = IF result = "ok" THEN pos ELSE @]
  /\ UNCHANGED <<pc, busy, closed, backlog>>

\* The last Arc<Player> is dropped.
DropPlayer ==
  /\ Running
  /\ ~closed
  /\ closed' = TRUE
  /\ backlog' \in 0 .. MaxBacklog
  /\ UNCHANGED <<self, pc, busy>>

Init ==
  /\ \E g \in BOOLEAN :
       self = [state |-> Stopped, preload |-> NoPreload,
               sink_status |-> "Closed", generator |-> 0, gapless |-> g,
               seen |-> [announced |-> 0, status |-> "none", id |-> 0,
                         track |-> NoTrack],
               refused |-> FALSE, exit |-> "none"]
  /\ pc = "command"
  /\ busy = FALSE
  /\ closed = FALSE
  /\ backlog = 0

Commands == \E cmd \in Command, io \in CommandIO : PollCommand(cmd, io)

Poll ==
  \/ closed /\ Commands
  \/ PollNoCommand
  \/ PollShutdown
  \/ \E io \in SinkIO : PollLoader(io)
  \/ PollPreload
  \/ PollNotPlaying
  \/ \E packet \in Packet, io \in PacketIO : PollPlayback(packet, io)
  \/ \E available \in BOOLEAN : PollSuggest(available)
  \/ Wake

Loads ==
  \/ \E result \in {"ok", "failed"}, pos \in Position :
       LoaderFinishes(result, pos)
  \/ \E result \in {"ok", "failed"}, pos \in Position :
       PreloaderFinishes(result, pos)

Next ==
  \/ ~closed /\ Commands
  \/ Poll
  \/ Loads
  \/ DropPlayer

Spec == Init /\ [][Next]_vars

\* The player thread keeps polling its future when woken.  Nothing makes a
\* client send a command or drop the player, or a load thread end.
FairSpec == Spec /\ WF_vars(Poll)

-----------------------------------------------------------------------------
(* Properties. *)

HasTrack == self.state.tag \in {"Loading", "Paused", "Playing", "EndOfTrack"}

\* Every field of the struct has its type, and what a state carries goes with
\* its tag: a loader only while loading, a track and a fresh id unless stopped.
TypeOK ==
  /\ self \in PlayerInternal
  /\ pc \in {"command", "loader", "preload", "playback", "suggest", "parked",
             "finished", "exited"}
  /\ busy \in BOOLEAN
  /\ closed \in BOOLEAN
  /\ backlog \in 0 .. MaxBacklog
  /\ HasTrack <=> self.state.track \in Tracks
  /\ self.state.tag = "Loading" <=> self.state.loader # "none"
  /\ self.preload.tag = "None" <=> self.preload.track = NoTrack
  /\ self.preload.tag = "Loading" <=> self.preload.loader # "none"

\* The event stream tells the truth: after every handler, what the last
\* playback event said of the request, the track and the transport is what the
\* player is doing.  EndOfTrack stands in for a track the listener is told to
\* leave (decode error, explicit content) although it still plays.
ListenerAgrees ==
  (pc # "exited") =>
    /\ HasTrack => /\ self.seen.track = self.state.track
                   /\ self.seen.id = self.state.id
    /\ self.state.tag = "Playing" =>
         self.seen.status \in {"Playing", "EndOfTrack"}
    /\ self.state.tag = "Paused" =>
         self.seen.status \in {"Paused", "EndOfTrack"}
    /\ self.state.tag = "Loading" =>
         self.seen.status = IF self.state.loader = "terminated"
                            THEN "Unavailable" ELSE "Loading"
    /\ self.state.tag = "EndOfTrack" => self.seen.status = "EndOfTrack"
    /\ self.state.tag = "Stopped" => self.seen.status \in {"none", "Stopped"}

\* A player that is paused or stopped has given the audio device back, through
\* every order of loads, pauses, gapless hand-overs and failing sink calls.
DeviceReleased ==
  (pc # "exited") =>
    (self.state.tag \in {"Paused", "Stopped"} => self.sink_status = "Closed")

\* The id the listener was told to follow is the id of the state, and the state
\* is valid, except after a load whose seek failed (handle_command_load).
OnlyRefusedLoadsDiverge ==
  \/ self.refused
  \/ /\ HasTrack => self.seen.announced = self.state.id
     /\ self.state.tag # "Invalid"

\* spirc.rs takes an event whose id is not the announced one for an event of a
\* previous track.  Then the track at hand would have the announced id.
EventsOfCurrentTrackMatch == HasTrack => self.seen.announced = self.state.id

\* The poll loop asserts that ensure_sink_running leaves a playing player
\* playing, and exits the process otherwise.
SinkStartKeepsPlaying == self.exit # "poll"

\* The ids of the events a listener gets never go back, and neither does the id
\* it is told to follow, except to undo the announcement of a refused load when
\* a seek starts the load under way over.
IdsNeverGoBack ==
  [][/\ self'.seen.id >= self.seen.id
     /\ self'.seen.announced >= self.seen.announced \/ self.refused]_vars

\* The player implements the event protocol its listeners rely on.
P == INSTANCE PlaybackProtocol
       WITH status <- self.seen.status, id <- self.seen.id,
            track <- self.seen.track
Protocol == P!PSpec

\* A finished loader is consumed: the player never sleeps on the result of the
\* requested track, whatever commands keep coming, unless it is shut down.
LoadResolves ==
  (self.state.loader \in {"ok", "failed"}) ~>
    (self.state.loader \notin {"ok", "failed"} \/ ~Running)

\* Dropping the Player handle ends the player thread, which Player::drop joins.
ShutdownCompletes == closed ~> pc \in {"finished", "exited"}
=============================================================================
