------------------------------ MODULE Airplay ------------------------------
(***************************************************************************)
(* The AirPlay receiver (airplay/src): one task per RTSP connection        *)
(* (rtsp/connection.rs), the task that receives audio and the thread that  *)
(* plays it (legacy/mod.rs, sink.rs), the task that resolves and polls the *)
(* sender's DACP server (dacp.rs), and the end of their event channel in   *)
(* the control API (src/server.rs): who is on the air, and where a command *)
(* of a client goes.                                                       *)
(*                                                                         *)
(* Tasks run on several threads.  abort() only marks a task; it ends at an *)
(* await.  A poll task is at an await, or has its answer ("has") and runs  *)
(* to the next one, sending what has changed on the way, aborted or not.   *)
(* Titles are numbers; volumes are tenths of a decibel.                    *)
(***************************************************************************)
EXTENDS Integers, Sequences, SequencesExt, FiniteSets

CONSTANTS Conns,          \* connection numbers, 1 .. n
          MaxPolls,       \* bound: poll tasks started
          MaxTold,        \* bound: events in the channel
          MaxSamples,     \* bound: packets that wait for the sink
          AirplayScenes   \* the kinds of requests that occur together

ASSUME ConnsAssumption == Conns \subseteq Nat \ {0}
ASSUME PollsAssumption == MaxPolls \in Nat

VARIABLES conn,     \* per connection: serve_connection's locals
          rec,      \* per connection: receive_loop and its output thread
          poll,     \* the resolve_and_poll_dacp tasks
          events,   \* the channel of AirplayEvents
          gain,     \* the receiver's output gain
          api,      \* what the control API keeps of AirPlay
          kinds     \* the kinds of requests of this behaviour

airplayVars == <<conn, rec, poll, events, gain, api, kinds>>

Nobody == 0
Polls == 1 .. MaxPolls
Mute == -1440

Nothing == [is |-> "nothing", playing |-> "unknown", track |-> 0, volume |-> -1]
NoPoll == [c |-> Nobody, info |-> "none", at |-> "none", has |-> Nothing,
           aborted |-> FALSE, playing |-> "unknown", track |-> 0, volume |-> -1,
           late |-> FALSE]

AirplayInit ==
  /\ conn = [c \in Conns |-> [st |-> "none", audio |-> FALSE, socket |-> TRUE,
                              task |-> 0, info |-> "none"]]
  /\ rec = [c \in Conns |-> [st |-> "none", aborted |-> FALSE,
                             out |-> "none", queue |-> 0]]
  /\ poll = [p \in Polls |-> NoPoll]
  /\ events = <<>>
  /\ gain = 0
  /\ api = [source |-> "Spotify", onAir |-> Nobody, peer |-> Nobody,
            dacp |-> Nobody, playing |-> FALSE, volume |-> 0, sent |-> <<>>]
  /\ kinds \in AirplayScenes

Event(e, c) == [e |-> e, c |-> c, playing |-> "no", value |-> 0]
Playing(c, is) == [Event("PlaybackChanged", c) EXCEPT !.playing = is]
Volume(c, percent) == [Event("VolumeChanged", c) EXCEPT !.value = percent]
Room(n) == Len(events) + n <= MaxTold
Tell(es) == Room(Len(es)) /\ events' = events \o es

-----------------------------------------------------------------------------
(* Volumes                                                                 *)

DbFromPercent(percent) == IF percent = 0 THEN Mute ELSE 3 * percent - 300

\* Rounded to the nearest; db is at most 0.
PercentFromDb(db) ==
  IF db <= -300 THEN 0 ELSE (2 * (db + 300) + 3) \div 6

-----------------------------------------------------------------------------
(* RTSP requests                                                           *)

\* Active-Remote and DACP-ID; one scene changes them.
Headers == IF "headers" \in kinds THEN {"a", "b"} ELSE {"a"}

RtspRequests ==
  [m : {"ANNOUNCE"}, keys : SUBSET {"rsaaeskey", "fpaeskey", "aesiv"},
   valid : BOOLEAN]
    \cup [m : {"RECORD", "TEARDOWN"}]
    \cup [m : {"SETUP"}, ports : SUBSET {"control_port", "timing_port"},
          info : {"none", "half"} \cup Headers]
    \cup [m : {"SET_PARAMETER"}, body : {"volume", "progress", "metadata",
                                         "image", "empty"}, db : {-300, 0}]
    \cup [m : {"OPTIONS"}]

Kind(r) ==
  CASE r.m \in {"ANNOUNCE", "RECORD"} -> "audio"
    [] r.m = "SETUP" -> "dacp"
    [] r.m = "SET_PARAMETER" -> "push"
    [] OTHER -> "end"

\* handle_set_parameter: of a text, the volume wins; an empty body says
\* nothing.
HandleSetParameter(r) ==
  CASE r.body = "volume" -> "SetVolume"
    [] r.body = "progress" -> "ProgressReported"
    [] r.body = "metadata" -> "MetadataReported"
    [] r.body = "image" -> "CoverReported"
    [] OTHER -> "none"

\* handle_legacy_setup: both ports are needed, and both headers.
HandleSetup(r) ==
  IF r.ports = {"control_port", "timing_port"} /\ r.info \in Headers
  THEN "DacpInfoCaptured" ELSE "none"

\* What serve_connection is to do after the response.
HandleRequest(s, r) ==
  CASE r.m = "RECORD" -> IF s.audio THEN "StartRecording" ELSE "none"
    [] r.m = "TEARDOWN" -> "StopRecording"
    [] r.m = "SETUP" -> HandleSetup(r)
    [] r.m = "SET_PARAMETER" -> HandleSetParameter(r)
    [] OTHER -> "none"

\* legacy::handle_announce: no key at all, or an RSA key with its vector.
Negotiated(r) ==
  r.keys = {} \/ (r.keys = {"rsaaeskey", "aesiv"} /\ r.valid)

HandleAnnounce(s, r) ==
  IF r.m = "ANNOUNCE" /\ Negotiated(r) THEN [s EXCEPT !.audio = TRUE] ELSE s

-----------------------------------------------------------------------------
(* serve_connection                                                        *)

\* The accept loop numbers the connection; the task begins with its address.
Accept(c) ==
  /\ c = 1 \/ "second" \in kinds
  /\ conn[c].st = "none" /\ \A d \in Conns : d < c => conn[d].st # "none"
  /\ conn' = [conn EXCEPT ![c].st = "open"]
  /\ Tell(<<Event("SessionStarted", c)>>)
  /\ UNCHANGED <<rec, poll, gain, api, kinds>>

Aborted(ps, p) == IF p = 0 THEN ps ELSE [ps EXCEPT ![p].aborted = TRUE]

StartAlwaysTells(c, s) ==
  /\ conn' = [conn EXCEPT ![c] = [s EXCEPT !.socket = FALSE,
                                           !.audio = @ /\ ~s.socket]]
  /\ rec' = IF s.socket THEN [rec EXCEPT ![c].st = "running"] ELSE rec
  /\ Tell(<<Playing(c, "yes")>>)
  /\ UNCHANGED <<poll, gain>>

\* The data socket goes to the first recording and never comes back; without
\* it the announced audio stays.
StartRecording(c, s) ==
  /\ conn' = [conn EXCEPT ![c] = [s EXCEPT !.socket = FALSE,
                                           !.audio = @ /\ ~s.socket]]
  /\ IF s.socket
     THEN /\ rec' = [rec EXCEPT ![c].st = "running"]
          /\ Tell(<<Playing(c, "yes")>>)
     ELSE UNCHANGED <<rec, events>>
  /\ UNCHANGED <<poll, gain>>

StopRecording(c, s) ==
  /\ conn' = [conn EXCEPT ![c] = [s EXCEPT !.task = 0]]
  /\ rec' = [rec EXCEPT ![c].aborted = @ \/ rec[c].st = "running"]
  /\ poll' = Aborted(poll, s.task)
  /\ Tell(<<Playing(c, "no"), Event("SessionEnded", c)>>)
  /\ UNCHANGED gain

SetVolume(c, s, db) ==
  /\ conn' = [conn EXCEPT ![c] = s]
  /\ gain' = db
  /\ Tell(<<Volume(c, PercentFromDb(db))>>)
  /\ UNCHANGED <<rec, poll>>

Finished(p) == poll[p].at = "finished"

\* spawn of resolve_and_poll_dacp, with the next number.
StartPoll(ps, c, s, info) ==
  \E q \in Polls :
    /\ poll[q].at = "none" /\ \A p \in Polls : p < q => poll[p].at # "none"
    /\ poll' = [ps EXCEPT ![q] = [NoPoll EXCEPT !.c = c, !.info = info,
                                               !.at = "resolve"]]
    /\ conn' = [conn EXCEPT ![c] = [s EXCEPT !.info = info, !.task = q]]
    /\ UNCHANGED <<rec, events, gain>>

RestartPoll(c, s, info) == StartPoll(poll, c, s, info)

\* The same headers while the task runs say nothing new.
DacpInfoCaptured(c, s, info) ==
  IF s.info = info /\ s.task # 0 /\ ~Finished(s.task)
  THEN /\ conn' = [conn EXCEPT ![c] = s]
       /\ UNCHANGED <<poll, rec, events, gain>>
  ELSE StartPoll(Aborted(poll, s.task), c, s, info)

Pushed(action) ==
  CASE action = "MetadataReported" -> "TrackChanged"
    [] action = "CoverReported" -> "CoverChanged"
    [] action = "ProgressReported" -> "ProgressChanged"

\* One turn of the loop: a request is read, answered and acted on.
Request(c) ==
  \E r \in RtspRequests :
    LET s == HandleAnnounce(conn[c], r)
        action == HandleRequest(s, r)
    IN /\ conn[c].st = "open" /\ Kind(r) \in kinds
       /\ CASE action = "StartRecording" -> StartRecording(c, s)
            [] action = "StopRecording" -> StopRecording(c, s)
            [] action = "SetVolume" -> SetVolume(c, s, r.db)
            [] action = "DacpInfoCaptured" -> DacpInfoCaptured(c, s, r.info)
            [] action = "none" -> /\ conn' = [conn EXCEPT ![c] = s]
                                  /\ UNCHANGED <<rec, poll, events, gain>>
            [] OTHER -> /\ conn' = [conn EXCEPT ![c] = s]
                        /\ Tell(<<Event(Pushed(action), c)>>)
                        /\ UNCHANGED <<rec, poll, gain>>
       /\ UNCHANGED <<api, kinds>>

\* read_request finds the peer gone, or bytes that are no request.
NoRequest(c) == conn[c].st = "open" /\ "end" \in kinds

ConnectionEndsSilently(c) ==
  /\ NoRequest(c)
  /\ conn' = [conn EXCEPT ![c].st = "ending"]
  /\ UNCHANGED <<rec, poll, events, gain, api, kinds>>

\* The locals are dropped, also when the response cannot be sent: the guard
\* that tells first, the poll's handle after it.  Nothing stops the recording.
ConnectionEnds(c) ==
  /\ NoRequest(c)
  /\ conn' = [conn EXCEPT ![c].st = "ending"]
  /\ Tell(<<Event("SessionEnded", c)>>)
  /\ UNCHANGED <<rec, poll, gain, api, kinds>>

DropPoll(c) ==
  /\ conn[c].st = "ending"
  /\ conn' = [conn EXCEPT ![c].st = "closed", ![c].task = 0]
  /\ poll' = Aborted(poll, conn[c].task)
  /\ UNCHANGED <<rec, events, gain, api, kinds>>

-----------------------------------------------------------------------------
(* receive_loop and the output thread                                      *)

\* The first packet that can be decoded opens the output.
ReceivePacket(c) ==
  /\ "sound" \in kinds /\ rec[c].st = "running" /\ rec[c].queue < MaxSamples
  /\ rec' = [rec EXCEPT ![c].queue = IF rec[c].out = "failed" THEN @ ELSE @ + 1,
                        ![c].out = IF @ = "none" THEN "spawned" ELSE @]
  /\ UNCHANGED <<conn, poll, events, gain, api, kinds>>

\* No decoder for the format, an error of the socket, or the abort.
ReceiveLoopEnds(c) ==
  /\ "sound" \in kinds /\ rec[c].st = "running"
  /\ rec' = [rec EXCEPT ![c].st = "ended"]
  /\ UNCHANGED <<conn, poll, events, gain, api, kinds>>

\* A sink that does not start ends the thread; when the sender's half is
\* gone and its samples are played, the sink is stopped.
Output(c) ==
  /\ \/ /\ rec[c].out = "spawned" /\ rec[c].queue > 0
        /\ \/ rec' = [rec EXCEPT ![c].out = "started", ![c].queue = @ - 1]
           \/ rec' = [rec EXCEPT ![c].out = "failed", ![c].queue = 0]
     \/ /\ rec[c].out = "started" /\ rec[c].queue > 0
        /\ rec' = [rec EXCEPT ![c].queue = @ - 1]
     \/ /\ rec[c].out = "started" /\ rec[c].queue = 0 /\ rec[c].st = "ended"
        /\ rec' = [rec EXCEPT ![c].out = "stopped"]
  /\ UNCHANGED <<conn, poll, events, gain, api, kinds>>

-----------------------------------------------------------------------------
(* resolve_and_poll_dacp                                                   *)

\* get: the answer of the sender's server, by status, by how the end of its
\* body is marked, and whether all of it came before the deadline.
DacpAnswers ==
  [status : {"200", "204", "400", "500"}, whole : BOOLEAN,
   framing : {"chunked", "length", "close"}]

\* A chunked body that is not whole is taken for none, another for its part.
Body(a) ==
  IF a.status = "204" \/ (a.framing = "chunked" /\ ~a.whole) THEN "nothing"
  ELSE IF a.whole THEN "all" ELSE "part"

\* poll_status: 400 is a server without metadata.  A part of a body may lack
\* any of its items.
PollStatus(a, playing, track) ==
  IF a.status \in {"204", "500"} THEN Nothing
  ELSE IF a.status = "400" \/ Body(a) = "nothing"
  THEN [Nothing EXCEPT !.is = "status"]
  ELSE [Nothing EXCEPT !.is = "status", !.playing = playing, !.track = track]

FetchArtwork(a) == a.status = "200" /\ Body(a) # "nothing"

\* get_volume: only a percentage counts.
GetVolume(a, volume) ==
  IF a.status = "200" /\ Body(a) = "all" /\ volume \in 0 .. 100
  THEN volume ELSE -1

\* The titles and volumes a sender reports; one scene looks into them.
Titles == IF "details" \in kinds THEN 0 .. 2 ELSE {0}
Levels == IF "details" \in kinds THEN {0, 50, 101} ELSE {101}

\* The answer of an await, for a task that is not aborted.
PollAnswered(p) ==
  /\ poll[p].at \in {"resolve", "status", "artwork", "volume", "sleep"}
  /\ poll[p].has = Nothing /\ ~poll[p].aborted
  /\ \/ /\ poll[p].at = "resolve"
        /\ poll' \in {[poll EXCEPT ![p].has.is = "port"],
                      [poll EXCEPT ![p].at = "finished"]}
     \/ /\ poll[p].at = "status"
        /\ \/ poll' = [poll EXCEPT ![p].at = "sleep"]
           \/ \E a \in DacpAnswers, t \in Titles, is \in {"unknown", "yes", "no"} :
                LET st == PollStatus(a, is, t)
                IN poll' = IF st = Nothing THEN [poll EXCEPT ![p].at = "sleep"]
                           ELSE [poll EXCEPT ![p].has = st]
     \/ /\ poll[p].at = "artwork"
        /\ \E a \in DacpAnswers :
             poll' = [poll EXCEPT ![p].has.is = IF FetchArtwork(a) THEN "cover"
                                                ELSE "no cover"]
     \/ /\ poll[p].at = "volume"
        /\ \E a \in DacpAnswers, w \in Levels :
             poll' = [poll EXCEPT ![p].has.is = "volume",
                                  ![p].has.volume = GetVolume(a, w)]
     \/ /\ poll[p].at = "sleep"
        /\ poll' = [poll EXCEPT ![p].at = "status"]
  /\ UNCHANGED <<conn, rec, events, gain, api, kinds>>

\* The connection has told SessionEnded for the last time.
EndTold(c) == conn[c].st \in {"ending", "closed"}

\* From one await to the next; a poll is late that tells of playing after the
\* connection's SessionEnded.
PollRuns(p) ==
  LET t == poll[p]
      goes(at) == [t EXCEPT !.at = at, !.has = Nothing]
      fresh == t.has.track # 0 /\ t.has.track # t.track
      same == t.has.playing = "unknown" \/ t.has.playing = t.playing
      late == ~same /\ t.has.playing = "yes" /\ EndTold(t.c)
      told(x) == poll' = [poll EXCEPT ![p] = x]
  IN /\ t.has # Nothing
     /\ CASE t.at = "resolve" -> /\ told(goes("status"))
                                 /\ Tell(<<Event("DacpAvailable", t.c)>>)
          [] t.at = "status" ->
               /\ told([goes(IF fresh THEN "artwork" ELSE "volume") EXCEPT
                          !.playing = IF same THEN @ ELSE t.has.playing,
                          !.track = IF fresh THEN t.has.track ELSE @,
                          !.late = @ \/ late])
               /\ IF same THEN UNCHANGED events
                  ELSE Tell(<<Playing(t.c, t.has.playing)>>)
          [] t.at = "artwork" -> /\ told(goes("volume"))
                                 /\ Tell(<<Event("TrackChanged", t.c)>>)
          [] t.at = "volume" ->
               IF t.has.volume \in {-1, t.volume}
               THEN told(goes("sleep")) /\ UNCHANGED events
               ELSE /\ told([goes("sleep") EXCEPT !.volume = t.has.volume])
                    /\ Tell(<<Volume(t.c, t.has.volume)>>)
     /\ UNCHANGED <<conn, rec, gain, api, kinds>>

PollCancelled(p) ==
  /\ poll[p].aborted /\ poll[p].has = Nothing /\ ~Finished(p)
  /\ poll' = [poll EXCEPT ![p].at = "finished"]
  /\ UNCHANGED <<conn, rec, events, gain, api, kinds>>

-----------------------------------------------------------------------------
(* The control API                                                         *)

IsOnTheAir(c) == api.source = "Airplay" /\ api.onAir = c

\* handle_airplay_event, of which the published track is left out.
HandleAirplayEvent(ev) ==
  CASE ev.e = "SessionStarted" -> [api EXCEPT !.peer = ev.c]
    [] ev.e = "DacpAvailable" -> [api EXCEPT !.dacp = ev.c]
    [] ev.e = "PlaybackChanged" /\ ev.playing = "yes" ->
         [api EXCEPT !.source = "Airplay", !.onAir = ev.c, !.playing = TRUE]
    [] ev.e = "SessionEnded" /\ api.onAir = ev.c ->
         [api EXCEPT !.onAir = Nobody,
                     !.playing = @ /\ ~IsOnTheAir(ev.c)]
    [] /\ ev.e = "PlaybackChanged" /\ ev.playing # "yes"
       /\ IsOnTheAir(ev.c) -> [api EXCEPT !.playing = FALSE]
    [] ev.e = "VolumeChanged" /\ IsOnTheAir(ev.c) ->
         [api EXCEPT !.volume = ev.value]
    [] OTHER -> api

EventArrives ==
  /\ events # <<>>
  /\ events' = Tail(events)
  /\ api' = HandleAirplayEvent(Head(events))
  /\ UNCHANGED <<conn, rec, poll, gain, kinds>>

\* PlayerEvent::Playing gives the source back.
SpotifyPlays ==
  /\ "spotify" \in kinds
  /\ api' = [api EXCEPT !.source = "Spotify", !.playing = TRUE]
  /\ UNCHANGED <<conn, rec, poll, events, gain, kinds>>

\* control and forward_to_helper: the endpoint that was resolved last, else
\* the machine that connected last.
Route ==
  IF api.source = "Spotify" THEN <<"spirc", Nobody>>
  ELSE IF api.dacp # Nobody THEN <<"dacp", api.dacp>>
  ELSE <<"helper", api.peer>>

Control ==
  /\ "command" \in kinds /\ api.sent = <<>>
  /\ api' = [api EXCEPT !.sent = Route]
  /\ UNCHANGED <<conn, rec, poll, events, gain, kinds>>

\* set_volume: an endpoint is asked to; else the receiver's own gain is set.
ApiSetVolume ==
  /\ "command" \in kinds /\ api.source = "Airplay"
  /\ \E percent \in {0, 50} :
       gain' = IF api.dacp # Nobody THEN gain ELSE DbFromPercent(percent)
  /\ UNCHANGED <<conn, rec, poll, events, api, kinds>>

AirplayNext ==
  \/ \E c \in Conns : \/ Accept(c) \/ Request(c) \/ ConnectionEnds(c)
                      \/ DropPoll(c) \/ ReceivePacket(c) \/ ReceiveLoopEnds(c)
                      \/ Output(c)
  \/ \E p \in Polls : PollAnswered(p) \/ PollRuns(p) \/ PollCancelled(p)
  \/ EventArrives \/ SpotifyPlays \/ Control \/ ApiSetVolume

AirplaySpec == AirplayInit /\ [][AirplayNext]_airplayVars

-----------------------------------------------------------------------------
(* Properties                                                              *)

Live(p) == poll[p].at \notin {"none", "finished"} /\ ~poll[p].aborted

\* However often a sender repeats or changes its Active-Remote and DACP-ID
\* headers, stops and goes on, one task polls it, the one the connection
\* holds; and none outlives the connection ("doesn't leave the DACP poll loop
\* running forever").
OnePollEach ==
  \A c \in Conns :
    /\ \A p \in Polls : Live(p) /\ poll[p].c = c => conn[c].task = p
    /\ conn[c].st = "closed" => conn[c].task = 0

\* A connection has reported its end and nothing it may still do is a reason
\* to hear of it again.
Over(c) ==
  /\ conn[c].st = "closed"
  /\ \A p \in Polls : poll[p].c = c => Finished(p)
  /\ ~\E i \in DOMAIN events : events[i].c = c

\* A session that is over does not stay on the air as playing, also one that
\* was polled, unless its poll had the last word: it is aborted only after
\* SessionEnded is told, and at its next await.
EndedLeavesTheAir ==
  \A c \in Conns : Over(c) /\ IsOnTheAir(c) /\ api.playing =>
    \E p \in Polls : poll[p].c = c /\ poll[p].late

\* A sender that was not polled, shown as playing with no news of it on the
\* way, is one whose receive loop was started and not stopped: no RECORD
\* without a socket or a stream, no TEARDOWN and no closed connection goes
\* unseen.  What does go unseen is a receive loop that has returned by itself
\* ("ended"), as it does at a read error or when the decoder does not start:
\* nobody waits for it, and the sender stays on the air until it hangs up.
OnlyReceiveErrorsGoUnseen ==
  \A c \in Conns :
    /\ IsOnTheAir(c) /\ api.playing
    /\ \A p \in Polls : poll[p].c # c
    /\ ~\E i \in DOMAIN events : events[i].c = c
    => rec[c].st \in {"running", "ended"} /\ ~rec[c].aborted
=============================================================================
