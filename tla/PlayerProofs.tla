---------------------------- MODULE PlayerProofs ----------------------------
(***************************************************************************)
(* Proofs about the playback engine, for all tracks, durations and bounds. *)
(* The operations of PlayerInternal are operators from struct to struct,   *)
(* so what a step preserves is a lemma about each operator; the proof that *)
(* Next preserves the invariant composes them.                             *)
(***************************************************************************)
EXTENDS Player, TLAPS

\* The parts of TypeOK that speak of the struct, for any value of it.
StateOK(st) ==
  /\ st.tag \in {"Loading", "Paused", "Playing", "EndOfTrack"}
       <=> st.track \in Tracks
  /\ st.tag = "Loading" <=> st.loader # "none"

Good(s) ==
  /\ s \in PlayerInternal
  /\ StateOK(s.state)
  /\ s.preload.tag = "None" <=> s.preload.track = NoTrack
  /\ s.preload.tag = "Loading" <=> s.preload.loader # "none"

\* A live player that is paused or stopped has closed its sink.
Released(s) ==
  (s.exit = "none" /\ s.state.tag \in {"Paused", "Stopped"})
    => s.sink_status = "Closed"

\* The inductive invariant: an exit is also a fact about the struct.
IInv ==
  /\ TypeOK
  /\ Released(self)
  /\ pc = "exited" <=> self.exit # "none"

-----------------------------------------------------------------------------
(* Constants of the struct's types. *)

LEMMA ConstantTypes ==
  /\ Stopped \in PlayerState /\ StateOK(Stopped)
  /\ Invalid \in PlayerState /\ StateOK(Invalid)
  /\ NoPreload \in PlayerPreload
  /\ NoPreload.tag = "None" /\ NoPreload.track = NoTrack
  /\ NoPreload.loader = "none"
  /\ Stopped.tag = "Stopped" /\ Invalid.tag = "Invalid"
<1>1. 0 \in Position /\ 0 \in Id /\ NoTrack \notin Tracks
  BY PlayerAssumption, SMT DEF Position, Id, PlayerAssumption
<1>2. Stopped \in PlayerState /\ StateOK(Stopped) /\ Stopped.tag = "Stopped"
  BY <1>1 DEF Stopped, PlayerState, StateOK, Loader
<1>3. Invalid \in PlayerState /\ StateOK(Invalid) /\ Invalid.tag = "Invalid"
  BY <1>1 DEF Stopped, Invalid, PlayerState, StateOK, Loader
<1>4. /\ NoPreload \in PlayerPreload
      /\ NoPreload.tag = "None" /\ NoPreload.track = NoTrack
      /\ NoPreload.loader = "none"
  BY <1>1 DEF NoPreload, PlayerPreload, Loader
<1>5. QED
  BY <1>2, <1>3, <1>4

-----------------------------------------------------------------------------
(* Events and the sink. *)

\* An event changes nothing but what the listener has seen.
LEMMA SendEvent ==
  ASSUME NEW s, Good(s), NEW ev, NEW track \in Tracks \cup {NoTrack},
         NEW id \in Id
  PROVE  LET t == send_event(s, ev, track, id)
         IN /\ Good(t)
            /\ t.state = s.state
            /\ t.preload = s.preload
            /\ t.sink_status = s.sink_status
            /\ t.exit = s.exit
            /\ t.generator = s.generator
            /\ t.gapless = s.gapless
<1>1. CASE ev = "PlayRequestIdChanged"
  BY <1>1 DEF send_event, Good, PlayerInternal, Listener
<1>2. CASE ev \in {"Loading", "Playing", "Paused", "Stopped", "EndOfTrack"}
  BY <1>2 DEF send_event, Good, PlayerInternal, Listener
<1>3. CASE ev = "Unavailable" /\ s.seen.status = "Loading" /\ s.seen.track = track
  BY <1>3 DEF send_event, Good, PlayerInternal, Listener
<1>4. CASE /\ ev \notin {"PlayRequestIdChanged", "Loading", "Playing", "Paused",
                        "Stopped", "EndOfTrack"}
           /\ ~ (ev = "Unavailable" /\ s.seen.status = "Loading" /\ s.seen.track = track)
  BY <1>4 DEF send_event, Good
<1>5. QED
  BY <1>1, <1>2, <1>3, <1>4

\* The three ways the sink operations change the struct: not, the status of the
\* sink only, or the exit only.
LEMMA SinkStopped ==
  ASSUME NEW s, Good(s), NEW to \in {"TemporarilyClosed", "Closed"}, NEW io, io.stop \in BOOLEAN
  PROVE  LET t == ensure_sink_stopped(s, to, io)
         IN /\ Good(t)
            /\ t.state = s.state
            /\ t.preload = s.preload
            /\ t.generator = s.generator
            /\ t.gapless = s.gapless
            /\ s.exit = "none" \/ t.exit # "none"
            /\ (t.exit = "none" /\ to = "Closed") => t.sink_status = "Closed"
            /\ s.sink_status = "Closed" => t.sink_status = "Closed"
<1>1. s.sink_status \in {"Running", "Closed", "TemporarilyClosed"}
  BY DEF Good, PlayerInternal, SinkStatus
<1>2. CASE s.sink_status = "Running" /\ io.stop
  BY <1>2 DEF ensure_sink_stopped, Good, PlayerInternal, SinkStatus
<1>3. CASE s.sink_status = "Running" /\ ~io.stop
  BY <1>3 DEF ensure_sink_stopped, Good, PlayerInternal, SinkStatus
<1>4. CASE s.sink_status = "TemporarilyClosed" /\ to = "Closed"
  BY <1>4 DEF ensure_sink_stopped, Good, PlayerInternal, SinkStatus
<1>5. CASE s.sink_status = "TemporarilyClosed" /\ to # "Closed"
  BY <1>5 DEF ensure_sink_stopped, Good
<1>6. CASE s.sink_status = "Closed"
  BY <1>6 DEF ensure_sink_stopped, Good
<1>7. QED
  BY <1>1, <1>2, <1>3, <1>4, <1>5, <1>6

\* Replacing the state by a well-formed one, or the preload by none.
LEMMA WithState ==
  ASSUME NEW s, Good(s), NEW st \in PlayerState, StateOK(st)
  PROVE  LET t == [s EXCEPT !.state = st]
         IN /\ Good(t)
            /\ t.state = st
            /\ t.preload = s.preload
            /\ t.sink_status = s.sink_status
            /\ t.exit = s.exit
            /\ t.generator = s.generator
            /\ t.gapless = s.gapless
BY DEF Good, PlayerInternal

LEMMA WithoutPreload ==
  ASSUME NEW s, Good(s)
  PROVE  LET t == [s EXCEPT !.preload = NoPreload]
         IN /\ Good(t)
            /\ t.state = s.state
            /\ t.preload = NoPreload
            /\ t.sink_status = s.sink_status
            /\ t.exit = s.exit
            /\ t.generator = s.generator
            /\ t.gapless = s.gapless
BY ConstantTypes DEF Good, PlayerInternal

\* What a well-formed struct says about its state.
LEMMA StateFacts ==
  ASSUME NEW s, Good(s)
  PROVE  /\ s.state \in PlayerState /\ StateOK(s.state)
         /\ s.state = [tag |-> s.state.tag, track |-> s.state.track,
                       id |-> s.state.id,
                       start_playback |-> s.state.start_playback,
                       loader |-> s.state.loader, pos |-> s.state.pos,
                       suggested |-> s.state.suggested]
         /\ s.state.track \in Tracks \cup {NoTrack}
         /\ s.state.id \in Id
         /\ s.state.start_playback \in BOOLEAN
         /\ s.state.loader \in Loader
         /\ s.state.pos \in Position
         /\ s.state.tag \in {"Stopped", "Loading", "Paused", "Playing",
                            "EndOfTrack", "Invalid"}
BY DEF Good, PlayerInternal, PlayerState

\* Updates of single fields of the state.
LEMMA Retagged ==
  ASSUME NEW s, Good(s), s.state.tag \in {"Paused", "Playing", "EndOfTrack"},
         NEW tag \in {"Paused", "Playing", "EndOfTrack"}
  PROVE  LET t == [s EXCEPT !.state.tag = tag]
         IN /\ Good(t)
            /\ t.state.tag = tag
            /\ t.state.track = s.state.track
            /\ t.state.id = s.state.id
            /\ t.preload = s.preload
            /\ t.sink_status = s.sink_status
            /\ t.exit = s.exit
            /\ t.generator = s.generator
            /\ t.gapless = s.gapless
BY DEF Good, StateOK, PlayerInternal, PlayerState

LEMMA Moved ==
  ASSUME NEW s, Good(s), NEW pos \in Position
  PROVE  LET t == [s EXCEPT !.state.pos = pos]
         IN /\ Good(t)
            /\ t.state.tag = s.state.tag
            /\ t.state.track = s.state.track
            /\ t.state.id = s.state.id
            /\ t.sink_status = s.sink_status
            /\ t.exit = s.exit
BY DEF Good, StateOK, PlayerInternal, PlayerState

LEMMA WillStart ==
  ASSUME NEW s, Good(s), NEW play \in BOOLEAN
  PROVE  LET t == [s EXCEPT !.state.start_playback = play]
         IN /\ Good(t)
            /\ t.state.tag = s.state.tag
            /\ t.preload = s.preload
            /\ t.sink_status = s.sink_status
            /\ t.exit = s.exit
            /\ t.generator = s.generator
            /\ t.gapless = s.gapless
BY DEF Good, StateOK, PlayerInternal, PlayerState

-----------------------------------------------------------------------------
(* The operations. *)

LEMMA HandlePause ==
  ASSUME NEW s, Good(s), NEW io, io.stop \in BOOLEAN
  PROVE  LET t == handle_pause(s, io)
         IN /\ Good(t)
            /\ Released(s) => Released(t)
            /\ s.exit = "none" \/ t.exit # "none"
            /\ t.preload = s.preload
            /\ t.generator = s.generator
            /\ t.gapless = s.gapless
<1>1. CASE s.state.tag = "Paused"
  BY <1>1, SinkStopped DEF handle_pause, Released
<1>2. CASE s.state.tag = "Playing"
  <2> DEFINE p == playing_to_paused(s)
             q == ensure_sink_stopped(p, "Closed", io)
  <2>1. /\ Good(p) /\ p.exit = s.exit /\ p.preload = s.preload
        /\ p.generator = s.generator /\ p.gapless = s.gapless
        /\ p.state.tag = "Paused"
    BY <1>2, Retagged DEF playing_to_paused
  <2>2. /\ Good(q) /\ q.state.tag = "Paused" /\ q.preload = s.preload
        /\ q.generator = s.generator /\ q.gapless = s.gapless
        /\ s.exit = "none" \/ q.exit # "none"
        /\ q.exit = "none" => q.sink_status = "Closed"
    BY <2>1, SinkStopped
  <2>3. handle_pause(s, io) = send_event(q, "Paused", s.state.track, s.state.id)
    BY <1>2 DEF handle_pause
  <2>4. s.state.track \in Tracks \cup {NoTrack} /\ s.state.id \in Id
    BY StateFacts
  <2> HIDE DEF p, q
  <2>5. QED
    BY <2>2, <2>3, <2>4, SendEvent DEF Released
<1>3. CASE s.state.tag = "Loading"
  BY <1>3, WillStart DEF handle_pause, Released
<1>4. CASE s.state.tag \notin {"Paused", "Playing", "Loading"}
  BY <1>4 DEF handle_pause
<1>5. QED
  BY <1>1, <1>2, <1>3, <1>4

\* A sink that does not start pauses: nothing that was released is taken.
LEMMA SinkRunning ==
  ASSUME NEW s, Good(s), NEW io, io.stop \in BOOLEAN, io.start \in BOOLEAN
  PROVE  LET t == ensure_sink_running(s, io)
         IN /\ Good(t)
            /\ s.state.tag \notin {"Paused", "Stopped"} => Released(t)
            /\ s.exit = "none" \/ t.exit # "none"
            /\ t.preload = s.preload
            /\ t.generator = s.generator
            /\ t.gapless = s.gapless
<1>1. s.sink_status \in {"Running", "Closed", "TemporarilyClosed"}
  BY DEF Good, PlayerInternal, SinkStatus
<1>2. CASE s.sink_status = "Running"
  BY <1>2 DEF ensure_sink_running, Released
<1>3. CASE s.sink_status # "Running" /\ io.start
  BY <1>3 DEF ensure_sink_running, Released, Good, PlayerInternal, SinkStatus
<1>4. CASE s.sink_status # "Running" /\ ~io.start
  <2>1. ensure_sink_running(s, io) = handle_pause(s, io)
    BY <1>4 DEF ensure_sink_running
  <2>2. s.state.tag \notin {"Paused", "Stopped"} => Released(s)
    BY DEF Released
  <2>3. QED
    BY <2>1, <2>2, HandlePause
<1>5. QED
  BY <1>1, <1>2, <1>3, <1>4

LEMMA HandlePlay ==
  ASSUME NEW s, Good(s), Released(s), NEW io, io.stop \in BOOLEAN,
         io.start \in BOOLEAN
  PROVE  Good(handle_play(s, io)) /\ Released(handle_play(s, io))
<1>1. CASE s.state.tag = "Paused"
  <2> DEFINE p == paused_to_playing(s)
             q == send_event(p, "Playing", s.state.track, s.state.id)
  <2>1. Good(p) /\ p.state.tag = "Playing"
    BY <1>1, Retagged DEF paused_to_playing
  <2>2. s.state.track \in Tracks \cup {NoTrack} /\ s.state.id \in Id
    BY StateFacts
  <2>3. Good(q) /\ q.state.tag = "Playing"
    BY <2>1, <2>2, SendEvent
  <2>4. handle_play(s, io) = ensure_sink_running(q, io)
    BY <1>1 DEF handle_play
  <2> HIDE DEF p, q
  <2>5. QED
    BY <2>3, <2>4, SinkRunning
<1>2. CASE s.state.tag = "Loading"
  BY <1>2, WillStart DEF handle_play, Released
<1>3. CASE s.state.tag \notin {"Paused", "Loading"}
  BY <1>3 DEF handle_play
<1>4. QED
  BY <1>1, <1>2, <1>3

LEMMA HandlePlayerStop ==
  ASSUME NEW s, Good(s), Released(s), NEW io, io.stop \in BOOLEAN
  PROVE  Good(handle_player_stop(s, io)) /\ Released(handle_player_stop(s, io))
<1>1. CASE s.state.tag \in {"Playing", "Paused", "EndOfTrack", "Loading"}
  <2> DEFINE p == ensure_sink_stopped(s, "Closed", io)
             q == send_event(p, "Stopped", s.state.track, s.state.id)
  <2>1. Good(p) /\ (p.exit = "none" => p.sink_status = "Closed")
    BY SinkStopped
  <2>2. s.state.track \in Tracks \cup {NoTrack} /\ s.state.id \in Id
    BY StateFacts
  <2>3. Good(q) /\ (q.exit = "none" => q.sink_status = "Closed")
    BY <2>1, <2>2, SendEvent
  <2>4. handle_player_stop(s, io) = [q EXCEPT !.state = Stopped]
    BY <1>1 DEF handle_player_stop
  <2> HIDE DEF p, q
  <2>5. QED
    BY <2>3, <2>4, WithState, ConstantTypes DEF Released
<1>2. CASE s.state.tag = "Invalid"
  BY <1>2 DEF handle_player_stop, Good, PlayerInternal, Released
<1>3. CASE s.state.tag \notin {"Playing", "Paused", "EndOfTrack", "Loading",
                               "Invalid"}
  BY <1>3 DEF handle_player_stop
<1>4. QED
  BY <1>1, <1>2, <1>3

\* A loaded track plays, or is paused with the sink closed, whatever was before.
LEMMA StartPlayback ==
  ASSUME NEW s, Good(s), NEW track \in Tracks, NEW id \in Id,
         NEW pos \in Position, NEW play \in BOOLEAN,
         NEW io, io.stop \in BOOLEAN, io.start \in BOOLEAN
  PROVE  LET t == start_playback(s, track, id, pos, play, io)
         IN Good(t) /\ Released(t)
<1> DEFINE loaded(tag) == [tag |-> tag, track |-> track, id |-> id,
                           start_playback |-> FALSE, loader |-> "none",
                           pos |-> pos, suggested |-> FALSE]
<1>1. /\ loaded("Playing") \in PlayerState /\ StateOK(loaded("Playing"))
      /\ loaded("Paused") \in PlayerState /\ StateOK(loaded("Paused"))
      /\ loaded("Playing").tag = "Playing" /\ loaded("Paused").tag = "Paused"
  BY DEF PlayerState, StateOK, Loader
<1>2. CASE play
  <2> DEFINE p == ensure_sink_running(s, io)
             q == send_event(p, "Playing", track, id)
  <2>1. Good(p)
    BY SinkRunning
  <2>2. Good(q)
    BY <2>1, SendEvent
  <2>3. start_playback(s, track, id, pos, play, io)
          = [q EXCEPT !.state = loaded("Playing")]
    BY <1>2 DEF start_playback
  <2> HIDE DEF p, q, loaded
  <2>4. QED
    BY <1>1, <2>2, <2>3, WithState DEF Released
<1>3. CASE ~play
  <2> DEFINE p == ensure_sink_stopped(s, "Closed", io)
             q == [p EXCEPT !.state = loaded("Paused")]
  <2>1. Good(p) /\ (p.exit = "none" => p.sink_status = "Closed")
    BY SinkStopped
  <2>2. start_playback(s, track, id, pos, play, io)
          = send_event(q, "Paused", track, id)
    BY <1>3 DEF start_playback
  <2> HIDE DEF p, loaded
  <2>3. Good(q) /\ (q.exit = "none" => q.sink_status = "Closed")
    BY <1>1, <2>1, WithState
  <2> HIDE DEF q
  <2>4. QED
    BY <2>2, <2>3, SendEvent DEF Released
<1>4. QED
  BY <1>2, <1>3

-----------------------------------------------------------------------------
(* Loads. *)

\* The outcomes a handler may be given.
IO(io) ==
  /\ io.start \in BOOLEAN
  /\ io.stop \in BOOLEAN
  /\ io.seek \in SeekResult

LEMMA SeekedType ==
  ASSUME NEW at \in Position, NEW pos, NEW io, IO(io),
         Seeked(at, pos, io) # SeekFailed
  PROVE  Seeked(at, pos, io) \in Position
BY DEF Seeked, IO, SeekResult

LEMMA LoadBegin ==
  ASSUME NEW s, Good(s), Released(s), s.generator < MaxId, NEW id \in Id,
         NEW play \in BOOLEAN, NEW io, IO(io)
  PROVE  LET t == LoadBegins(s, id, play, io)
         IN /\ Good(t)
            /\ Released(t)
            /\ t.state = s.state
            /\ t.preload = s.preload
<1> DEFINE g == [s EXCEPT !.generator = @ + 1, !.refused = FALSE]
           t == send_event(g, "PlayRequestIdChanged", NoTrack, id)
           to == IF play THEN "TemporarilyClosed" ELSE "Closed"
<1>1. s.generator + 1 \in Id
  BY PlayerAssumption, SMT DEF PlayerAssumption, Good, PlayerInternal, Id
<1>2. /\ Good(g) /\ Released(g)
      /\ g.state = s.state /\ g.preload = s.preload
  BY <1>1 DEF Good, PlayerInternal, Released
<1> HIDE DEF g
<1>3. /\ Good(t) /\ Released(t)
      /\ t.state = s.state /\ t.preload = s.preload
  BY <1>2, SendEvent DEF Released
<1>4. LoadBegins(s, id, play, io)
        = IF s.gapless THEN t ELSE ensure_sink_stopped(t, to, io)
  BY DEF LoadBegins, g
<1> HIDE DEF t
<1>5. CASE s.gapless
  BY <1>3, <1>4, <1>5
<1>6. CASE ~s.gapless
  <2>1. to \in {"TemporarilyClosed", "Closed"}
    OBVIOUS
  <2>2. LoadBegins(s, id, play, io) = ensure_sink_stopped(t, to, io)
    BY <1>4, <1>6
  <2> HIDE DEF to
  <2>3. QED
    BY <1>3, <2>1, <2>2, SinkStopped DEF Released, IO
<1>7. QED
  BY <1>5, <1>6

LEMMA Refused ==
  ASSUME NEW s, Good(s)
  PROVE  LET t == [s EXCEPT !.refused = TRUE]
         IN /\ Good(t)
            /\ Released(s) => Released(t)
            /\ t.state = s.state
BY DEF Good, PlayerInternal, Released

LEMMA RepeatLoad ==
  ASSUME NEW t, Good(t), NEW track \in Tracks, NEW id \in Id,
         NEW play \in BOOLEAN, NEW pos, NEW io, IO(io)
  PROVE  LET u == LoadRepeats(t, track, id, play, pos, io)
         IN Good(u) /\ Released(u)
<1> DEFINE at == Seeked(t.state.pos, pos, io)
           i  == [t EXCEPT !.state = Invalid]
           n  == [t EXCEPT !.state = Invalid, !.preload = NoPreload]
<1>1. Good(i) /\ i.state.tag = "Invalid"
  BY WithState, ConstantTypes
<1>2. n = [i EXCEPT !.preload = NoPreload]
  BY DEF Good, PlayerInternal
<1>3. Good(n)
  BY <1>1, <1>2, WithoutPreload
<1>4. t.state.pos \in Position
  BY StateFacts
<1>5. CASE at = SeekFailed
  <2>1. LoadRepeats(t, track, id, play, pos, io) = [i EXCEPT !.refused = TRUE]
    BY <1>5 DEF LoadRepeats, Good, PlayerInternal
  <2> HIDE DEF i
  <2>2. QED
    BY <1>1, <2>1, Refused DEF Released
<1>6. CASE at # SeekFailed
  <2>1. at \in Position
    BY <1>4, <1>6, SeekedType
  <2>2. LoadRepeats(t, track, id, play, pos, io)
          = start_playback(n, track, id, at, play, io)
    BY <1>6 DEF LoadRepeats
  <2> HIDE DEF n, at
  <2>3. QED
    BY <1>3, <2>1, <2>2, StartPlayback DEF IO
<1>7. QED
  BY <1>5, <1>6

LEMMA CurrentLoad ==
  ASSUME NEW t, Good(t), Released(t), NEW track \in Tracks, NEW id \in Id,
         NEW play \in BOOLEAN, NEW pos, NEW io, IO(io)
  PROVE  LET u == LoadCurrent(t, track, id, play, pos, io)
         IN Good(u) /\ Released(u)
<1> DEFINE at == Seeked(t.state.pos, pos, io)
           i  == [t EXCEPT !.state = Invalid]
           n  == [t EXCEPT !.state = Invalid, !.preload = NoPreload]
<1>1. Good(i)
  BY WithState, ConstantTypes
<1>2. n = [i EXCEPT !.preload = NoPreload]
  BY DEF Good, PlayerInternal
<1>3. Good(n)
  BY <1>1, <1>2, WithoutPreload
<1>4. t.state.pos \in Position
  BY StateFacts
<1>5. CASE at = SeekFailed
  <2>1. LoadCurrent(t, track, id, play, pos, io) = [t EXCEPT !.refused = TRUE]
    BY <1>5 DEF LoadCurrent
  <2>2. QED
    BY <2>1, Refused
<1>6. CASE at # SeekFailed
  <2>1. at \in Position
    BY <1>4, <1>6, SeekedType
  <2>2. LoadCurrent(t, track, id, play, pos, io)
          = start_playback(n, track, id, at, play, io)
    BY <1>6 DEF LoadCurrent
  <2> HIDE DEF n, at
  <2>3. QED
    BY <1>3, <2>1, <2>2, StartPlayback DEF IO
<1>7. QED
  BY <1>5, <1>6

LEMMA PreloadedLoad ==
  ASSUME NEW t, Good(t), Released(t), NEW track \in Tracks, NEW id \in Id,
         NEW play \in BOOLEAN, NEW pos, NEW io, IO(io)
  PROVE  LET u == LoadPreloaded(t, track, id, play, pos, io)
         IN Good(u) /\ Released(u)
<1> DEFINE at == Seeked(t.preload.pos, pos, io)
           n  == [t EXCEPT !.preload = NoPreload]
<1>1. Good(n) /\ Released(n)
  BY WithoutPreload DEF Released
<1>2. t.preload.pos \in Position
  BY DEF Good, PlayerInternal, PlayerPreload
<1>3. CASE at = SeekFailed
  <2>1. LoadPreloaded(t, track, id, play, pos, io) = [n EXCEPT !.refused = TRUE]
    BY <1>3 DEF LoadPreloaded
  <2> HIDE DEF n
  <2>2. QED
    BY <1>1, <2>1, Refused
<1>4. CASE at # SeekFailed
  <2>1. at \in Position
    BY <1>2, <1>4, SeekedType
  <2>2. LoadPreloaded(t, track, id, play, pos, io)
          = start_playback(n, track, id, at, play, io)
    BY <1>4 DEF LoadPreloaded
  <2> HIDE DEF n, at
  <2>3. QED
    BY <1>1, <2>1, <2>2, StartPlayback DEF IO
<1>5. QED
  BY <1>3, <1>4

LEMMA ScratchLoad ==
  ASSUME NEW t, Good(t), NEW track \in Tracks, NEW id \in Id,
         NEW play \in BOOLEAN, NEW pos
  PROVE  LET u == LoadFromScratch(t, track, id, play, pos)
         IN Good(u) /\ Released(u)
<1> DEFINE u == send_event(t, "Loading", track, id)
           pending == /\ u.preload.tag = "Loading"
                      /\ u.preload.track = track
                      /\ pos = 0
           loader == IF pending THEN u.preload.loader ELSE "running"
           at == IF pending THEN u.preload.pos ELSE 0
           st == [tag |-> "Loading", track |-> track, id |-> id,
                  start_playback |-> play, loader |-> loader, pos |-> at,
                  suggested |-> FALSE]
           n == [u EXCEPT !.preload = NoPreload]
<1>1. Good(u)
  BY SendEvent
<1>2. LoadFromScratch(t, track, id, play, pos)
        = [u EXCEPT !.preload = NoPreload, !.state = st]
  BY DEF LoadFromScratch
<1> HIDE DEF u
<1>3. 0 \in Position
  BY PlayerAssumption, SMT DEF PlayerAssumption, Position
<1>4. loader \in Loader /\ loader # "none" /\ at \in Position
  BY <1>1, <1>3 DEF Good, PlayerInternal, PlayerPreload, Loader
<1> HIDE DEF loader, at
<1>5. st \in PlayerState /\ StateOK(st) /\ st.tag = "Loading"
  BY <1>4 DEF PlayerState, StateOK
<1>6. Good(n)
  BY <1>1, WithoutPreload
<1>7. LoadFromScratch(t, track, id, play, pos) = [n EXCEPT !.state = st]
  BY <1>1, <1>2 DEF Good, PlayerInternal
<1> HIDE DEF st, n
<1>8. QED
  BY <1>5, <1>6, <1>7, WithState DEF Released

LEMMA HandleCommandLoad ==
  ASSUME NEW s, Good(s), Released(s), s.generator < MaxId, NEW track \in Tracks,
         NEW id \in Id, NEW play \in BOOLEAN, NEW pos, NEW io, IO(io)
  PROVE  LET u == handle_command_load(s, track, id, play, pos, io)
         IN Good(u) /\ Released(u)
<1> DEFINE t == LoadBegins(s, id, play, io)
           u == handle_command_load(s, track, id, play, pos, io)
<1>1. Good(t) /\ Released(t)
  BY LoadBegin
<1>2. \/ u = t
      \/ u = LoadRepeats(t, track, id, play, pos, io)
      \/ u = LoadCurrent(t, track, id, play, pos, io)
      \/ u = LoadPreloaded(t, track, id, play, pos, io)
      \/ u = LoadFromScratch(t, track, id, play, pos)
  BY DEF handle_command_load
<1> HIDE DEF t, u
<1>3. Good(u) /\ Released(u)
  BY <1>1, <1>2, RepeatLoad, CurrentLoad, PreloadedLoad, ScratchLoad
<1>4. QED
  BY <1>3 DEF u

-----------------------------------------------------------------------------
(* The other commands. *)

LEMMA HandleCommandPreload ==
  ASSUME NEW s, Good(s), Released(s), NEW track \in Tracks
  PROVE  LET u == handle_command_preload(s, track)
         IN Good(u) /\ Released(u)
<1> DEFINE pl == [tag |-> "Loading", track |-> track, loader |-> "running",
                  pos |-> 0]
           p == [s EXCEPT !.preload = pl]
           n == [s EXCEPT !.preload = NoPreload]
           u == handle_command_preload(s, track)
<1>1. 0 \in Position /\ track # NoTrack
  BY PlayerAssumption, SMT DEF PlayerAssumption, Position
<1>2. pl \in PlayerPreload
  BY <1>1 DEF PlayerPreload, Loader
<1>3. Good(p) /\ Released(p)
  BY <1>1, <1>2 DEF Good, PlayerInternal, Released
<1>4. Good(n) /\ Released(n)
  BY WithoutPreload DEF Released
<1>5. u = p \/ u = n \/ u = s
  BY DEF handle_command_preload
<1>6. QED
  BY <1>3, <1>4, <1>5

LEMMA HandleCommandSeek ==
  ASSUME NEW s, Good(s), Released(s), s.generator < MaxId, NEW pos,
         NEW io, IO(io)
  PROVE  LET u == handle_command_seek(s, pos, io)
         IN Good(u) /\ Released(u)
<1>1. CASE s.state.tag = "Loading"
  <2>1. handle_command_seek(s, pos, io)
          = handle_command_load(s, s.state.track, s.state.id,
                                s.state.start_playback, pos, io)
    BY <1>1 DEF handle_command_seek
  <2>2. /\ s.state.track \in Tracks /\ s.state.id \in Id
        /\ s.state.start_playback \in BOOLEAN
    BY <1>1, StateFacts DEF StateOK
  <2>3. QED
    BY <2>1, <2>2, HandleCommandLoad
<1>2. CASE s.state.tag \in {"Playing", "Paused"} /\ io.seek # SeekFailed
  <2> DEFINE m == [s EXCEPT !.state.pos = io.seek]
  <2>1. io.seek \in Position
    BY <1>2 DEF IO, SeekResult
  <2>2. Good(m) /\ Released(m)
    BY <2>1, Moved DEF Released
  <2>3. handle_command_seek(s, pos, io)
          = send_event(m, "Seeked", s.state.track, s.state.id)
    BY <1>2 DEF handle_command_seek
  <2>4. s.state.track \in Tracks \cup {NoTrack} /\ s.state.id \in Id
    BY StateFacts
  <2> HIDE DEF m
  <2>5. QED
    BY <2>2, <2>3, <2>4, SendEvent DEF Released
<1>3. CASE /\ s.state.tag # "Loading"
           /\ ~ (s.state.tag \in {"Playing", "Paused"} /\ io.seek # SeekFailed)
  BY <1>3 DEF handle_command_seek
<1>4. QED
  BY <1>1, <1>2, <1>3

LEMMA HandleFilterExplicit ==
  ASSUME NEW s, Good(s), Released(s)
  PROVE  Good(handle_filter_explicit(s)) /\ Released(handle_filter_explicit(s))
<1>1. s.state.track \in Tracks \cup {NoTrack} /\ s.state.id \in Id
  BY StateFacts
<1>2. \/ handle_filter_explicit(s) = s
      \/ handle_filter_explicit(s)
           = send_event(s, "EndOfTrack", s.state.track, s.state.id)
  BY DEF handle_filter_explicit
<1>3. QED
  BY <1>1, <1>2, SendEvent DEF Released

LEMMA HandleCommand ==
  ASSUME NEW s, Good(s), Released(s), NEW cmd \in Command,
         cmd.c \in {"Load", "Seek"} => s.generator < MaxId,
         NEW io \in CommandIO
  PROVE  Good(handle_command(s, cmd, io)) /\ Released(handle_command(s, cmd, io))
<1> DEFINE u == handle_command(s, cmd, io)
<1>1. IO(io)
  BY DEF CommandIO, IO
<1>2. s.generator \in Id
  BY DEF Good, PlayerInternal
<1>3. CASE cmd.c = "Load"
  <2>1. cmd.track \in Tracks /\ cmd.play \in BOOLEAN
    BY <1>3 DEF Command
  <2>2. u = handle_command_load(s, cmd.track, s.generator, cmd.play, cmd.pos, io)
    BY <1>3 DEF handle_command
  <2>3. QED
    BY <1>1, <1>2, <1>3, <2>1, <2>2, HandleCommandLoad
<1>4. CASE cmd.c = "Preload"
  <2>1. cmd.track \in Tracks
    BY <1>4 DEF Command
  <2>2. u = handle_command_preload(s, cmd.track)
    BY <1>4 DEF handle_command
  <2>3. QED
    BY <2>1, <2>2, HandleCommandPreload
<1>5. CASE cmd.c = "Seek"
  <2>1. u = handle_command_seek(s, cmd.pos, io)
    BY <1>5 DEF handle_command
  <2>2. QED
    BY <1>1, <1>5, <2>1, HandleCommandSeek
<1>6. CASE cmd.c = "Play"
  BY <1>1, <1>6, HandlePlay DEF handle_command, IO
<1>7. CASE cmd.c = "Pause"
  BY <1>1, <1>7, HandlePause DEF handle_command, IO
<1>8. CASE cmd.c = "Stop"
  BY <1>1, <1>8, HandlePlayerStop DEF handle_command, IO
<1>9. CASE cmd.c = "FilterExplicit"
  BY <1>9, HandleFilterExplicit DEF handle_command
<1>10. CASE cmd.c \notin {"Load", "Preload", "Seek", "Play", "Pause", "Stop",
                          "FilterExplicit"}
  BY <1>10 DEF handle_command
<1>11. QED
  BY <1>3, <1>4, <1>5, <1>6, <1>7, <1>8, <1>9, <1>10

LEMMA HandlePacket ==
  ASSUME NEW s, Good(s), s.state.tag = "Playing", NEW packet \in Packet,
         NEW io \in PacketIO
  PROVE  Good(handle_packet(s, packet, io)) /\ Released(handle_packet(s, packet, io))
<1> DEFINE u == handle_packet(s, packet, io)
           m == [s EXCEPT !.state.pos = packet.pos]
<1>1. io.start \in BOOLEAN /\ io.stop \in BOOLEAN /\ io.write \in BOOLEAN
  BY DEF PacketIO
<1>2. s.state.track \in Tracks \cup {NoTrack} /\ s.state.id \in Id
  BY StateFacts
<1>3. CASE packet.kind = "samples"
  <2>1. packet.pos \in Position
    BY <1>3 DEF Packet
  <2>2. Good(m) /\ m.state.tag = "Playing" /\ Released(m)
    BY <2>1, Moved DEF Released
  <2>3. u = m \/ u = handle_pause(m, io)
    BY <1>1, <1>3 DEF handle_packet
  <2> HIDE DEF m, u
  <2>4. Good(u) /\ Released(u)
    BY <1>1, <2>2, <2>3, HandlePause
  <2>5. QED
    BY <2>4 DEF u
<1>4. CASE packet.kind = "none"
  <2> DEFINE e == playing_to_end_of_track(s)
  <2>1. Good(e) /\ e.state.tag = "EndOfTrack"
    BY Retagged DEF playing_to_end_of_track
  <2>2. u = send_event(e, "EndOfTrack", s.state.track, s.state.id)
    BY <1>4 DEF handle_packet
  <2> HIDE DEF e
  <2>3. QED
    BY <1>2, <2>1, <2>2, SendEvent DEF Released
<1>5. CASE packet.kind = "error"
  <2>1. u = send_event(s, "EndOfTrack", s.state.track, s.state.id)
    BY <1>5 DEF handle_packet
  <2>2. QED
    BY <1>2, <2>1, SendEvent DEF Released
<1>6. packet.kind \in {"samples", "none", "error"}
  BY DEF Packet
<1>7. QED
  BY <1>3, <1>4, <1>5, <1>6

-----------------------------------------------------------------------------
(* The invariant. *)

\* TypeOK speaks of the struct as Good does.
LEMMA InvariantSplit ==
  IInv <=> /\ Good(self) /\ Released(self)
           /\ pc = "exited" <=> self.exit # "none"
           /\ pc \in {"command", "loader", "preload", "playback", "suggest",
                      "parked", "finished", "exited"}
           /\ busy \in BOOLEAN
           /\ closed \in BOOLEAN
           /\ backlog \in 0 .. MaxBacklog
BY DEF IInv, TypeOK, Good, StateOK, HasTrack

LEMMA InitInvariant == Init => IInv
<1> SUFFICES ASSUME Init PROVE IInv
  OBVIOUS
<1>1. 0 \in Id /\ 0 \in 0 .. MaxBacklog
  BY PlayerAssumption, SMT DEF PlayerAssumption, Id
<1>2. PICK g \in BOOLEAN :
        self = [state |-> Stopped, preload |-> NoPreload,
                sink_status |-> "Closed", generator |-> 0, gapless |-> g,
                seen |-> [announced |-> 0, status |-> "none", id |-> 0,
                          track |-> NoTrack],
                refused |-> FALSE, exit |-> "none"]
  BY DEF Init
<1>3. Good(self) /\ Released(self) /\ self.exit = "none"
  BY <1>1, <1>2, ConstantTypes
  DEF Good, PlayerInternal, Listener, SinkStatus, Released
<1>4. QED
  BY <1>1, <1>3, InvariantSplit DEF Init

\* A phase that leaves the struct well-formed preserves the invariant.
LEMMA ContinueInvariant ==
  ASSUME NEW s, Good(s), Released(s),
         NEW phase \in {"command", "loader", "preload", "playback", "suggest",
                        "parked"},
         Continue(s, phase), busy' \in BOOLEAN, closed' \in BOOLEAN,
         backlog' \in 0 .. MaxBacklog
  PROVE  IInv'
<1>1. /\ Good(self)' /\ Released(self)'
      /\ pc' = "exited" <=> self'.exit # "none"
      /\ pc' \in {"command", "loader", "preload", "playback", "suggest",
                  "parked", "finished", "exited"}
  BY DEF Continue, Good, StateOK, Released
<1>2. QED
  BY <1>1 DEF IInv, TypeOK, Good, StateOK, HasTrack

\* Every step preserves the invariant: one step of the proof per action.
LEMMA NextInvariant == IInv /\ [Next]_vars => IInv'
<1> SUFFICES ASSUME IInv, [Next]_vars PROVE IInv'
  OBVIOUS
<1> USE PlayerAssumption
<1>0. /\ Good(self) /\ Released(self)
      /\ pc = "exited" <=> self.exit # "none"
      /\ pc \in {"command", "loader", "preload", "playback", "suggest",
                 "parked", "finished", "exited"}
      /\ busy \in BOOLEAN
      /\ closed \in BOOLEAN
      /\ backlog \in 0 .. MaxBacklog
  BY InvariantSplit
<1>1. ASSUME NEW cmd \in Command, NEW io \in CommandIO, PollCommand(cmd, io)
      PROVE  IInv'
  <2> DEFINE u == handle_command(self, cmd, io)
  <2>1. Good(u) /\ Released(u)
    BY <1>0, <1>1, HandleCommand DEF PollCommand, WithinBound
  <2>2. /\ Continue(u, "loader") /\ busy' = TRUE /\ closed' = closed
        /\ backlog' \in 0 .. MaxBacklog
    BY <1>0, <1>1 DEF PollCommand, PlayerAssumption
  <2> HIDE DEF u
  <2>3. QED
    BY <1>0, <2>1, <2>2, ContinueInvariant
<1>2. CASE PollNoCommand
  BY <1>0, <1>2 DEF PollNoCommand, IInv, TypeOK, HasTrack, Released
<1>3. CASE PollShutdown
  BY <1>0, <1>3 DEF PollShutdown, IInv, TypeOK, HasTrack, Released
<1>4. ASSUME NEW io \in SinkIO, PollLoader(io)
      PROVE  IInv'
  <2> DEFINE st == self.state
             done == [self EXCEPT !.state.loader = "terminated"]
             played == start_playback(done, st.track, st.id, st.pos,
                                      st.start_playback, io)
             failed == send_event(done, "Unavailable", st.track, st.id)
  <2>1. /\ st.track \in Tracks \cup {NoTrack} /\ st.id \in Id
        /\ st.pos \in Position /\ st.start_playback \in BOOLEAN
        /\ st.tag = "Loading" => st.track \in Tracks
        /\ io.start \in BOOLEAN /\ io.stop \in BOOLEAN
    BY <1>0, StateFacts DEF StateOK, SinkIO
  <2>2. \E s \in {played, failed, self} :
          /\ Continue(s, "preload")
          /\ s # self => st.tag = "Loading"
    BY <1>4 DEF PollLoader
  <2>3. st.tag = "Loading" =>
          Good(done) /\ done.state.tag = "Loading" /\ Released(done)
    BY <1>0 DEF Good, StateOK, PlayerInternal, PlayerState, Loader, Released
  <2> HIDE DEF done
  <2>4. st.tag = "Loading" =>
          Good(played) /\ Released(played) /\ Good(failed) /\ Released(failed)
    BY <2>1, <2>3, StartPlayback, SendEvent DEF Released
  <2>5. busy' = busy /\ closed' = closed /\ backlog' = backlog
    BY <1>4 DEF PollLoader
  <2> HIDE DEF played, failed, st
  <2>6. QED
    BY <1>0, <2>2, <2>4, <2>5, ContinueInvariant
<1>5. CASE PollPreload
  <2> DEFINE pl == self.preload
             ready == [self EXCEPT !.preload.tag = "Ready",
                                   !.preload.loader = "none"]
             none == [self EXCEPT !.preload = NoPreload]
             failed == send_event(none, "Unavailable", pl.track, self.state.id)
  <2>1. \E s \in {ready, failed, none, self} :
          /\ Continue(s, "playback")
          /\ s = ready => pl.tag = "Loading" \/ s = self
    BY <1>5 DEF PollPreload
  <2>2. pl.tag = "Loading" => Good(ready) /\ Released(ready)
    BY <1>0 DEF Good, PlayerInternal, PlayerPreload, Loader, Released
  <2>3. Good(none) /\ Released(none)
    BY <1>0, WithoutPreload DEF Released
  <2>4. pl.track \in Tracks \cup {NoTrack} /\ self.state.id \in Id
    BY <1>0, StateFacts DEF Good, PlayerInternal, PlayerPreload
  <2> HIDE DEF none
  <2>5. Good(failed) /\ Released(failed)
    BY <2>3, <2>4, SendEvent DEF Released
  <2>6. busy' = busy /\ closed' = closed /\ backlog' = backlog
    BY <1>5 DEF PollPreload
  <2> HIDE DEF ready, failed, pl
  <2>7. QED
    BY <1>0, <2>1, <2>2, <2>3, <2>5, <2>6, ContinueInvariant
<1>5b. CASE PollNotPlaying
  <2> DEFINE invalid == [self EXCEPT !.exit = "is_playing"]
  <2>1. Good(invalid) /\ Released(invalid)
    BY <1>0 DEF Good, PlayerInternal, Released
  <2>2. Continue(invalid, "suggest") \/ Continue(self, "suggest")
    BY <1>5b DEF PollNotPlaying
  <2>3. busy' = busy /\ closed' = closed /\ backlog' = backlog
    BY <1>5b DEF PollNotPlaying
  <2> HIDE DEF invalid
  <2>4. QED
    BY <1>0, <2>1, <2>2, <2>3, ContinueInvariant
<1>6. ASSUME NEW packet \in Packet, NEW io \in PacketIO, PollPlayback(packet, io)
      PROVE  IInv'
  <2> DEFINE s == ensure_sink_running(self, io)
             stopped == [s EXCEPT !.exit = "poll"]
             played == handle_packet(s, packet, io)
  <2>1. \/ Continue(stopped, "suggest")
        \/ s.state.tag = "Playing" /\ Continue(played, "suggest")
    BY <1>6 DEF PollPlayback
  <2>2. io.start \in BOOLEAN /\ io.stop \in BOOLEAN
    BY DEF PacketIO
  <2>3. Good(s)
    BY <1>0, <2>2, SinkRunning
  <2> HIDE DEF s
  <2>4. Good(stopped) /\ Released(stopped)
    BY <2>3 DEF Good, PlayerInternal, Released
  <2>5. s.state.tag = "Playing" => Good(played) /\ Released(played)
    BY <2>3, HandlePacket
  <2>6. busy' = busy /\ closed' = closed /\ backlog' = backlog
    BY <1>6 DEF PollPlayback
  <2> HIDE DEF stopped, played
  <2>7. QED
    BY <1>0, <2>1, <2>4, <2>5, <2>6, ContinueInvariant
<1>7. ASSUME NEW available \in BOOLEAN, PollSuggest(available)
      PROVE  IInv'
  <2> DEFINE m == [self EXCEPT !.state.suggested = TRUE]
             t == send_event(m, "TimeToPreloadNextTrack", self.state.track,
                             self.state.id)
             next == IF self.state.tag # "Playing" /\ ~busy
                     THEN "parked" ELSE "command"
  <2>1. self' = t \/ self' = self
    BY <1>7 DEF PollSuggest
  <2>2. Good(m) /\ Released(m) /\ m.exit = self.exit
    BY <1>0 DEF Good, StateOK, PlayerInternal, PlayerState, Released
  <2>3. self.state.track \in Tracks \cup {NoTrack} /\ self.state.id \in Id
    BY <1>0, StateFacts
  <2> HIDE DEF m
  <2>4. Good(t) /\ Released(t) /\ t.exit = self.exit
    BY <2>2, <2>3, SendEvent DEF Released
  <2>5. self.exit = "none"
    BY <1>0, <1>7 DEF PollSuggest
  <2>6. pc' = next /\ next \in {"parked", "command"}
    BY <1>7 DEF PollSuggest
  <2>7. busy' = FALSE /\ closed' = closed /\ backlog' = backlog
    BY <1>7 DEF PollSuggest
  <2> HIDE DEF t, next
  <2>8. Continue(self', next)
    BY <2>1, <2>4, <2>5, <2>6 DEF Continue
  <2>9. QED
    BY <1>0, <2>1, <2>4, <2>6, <2>7, <2>8, ContinueInvariant
<1>8. CASE Wake
  BY <1>0, <1>8 DEF Wake, IInv, TypeOK, HasTrack, Released
<1>9. ASSUME NEW result \in {"ok", "failed"}, NEW pos \in Position,
             LoaderFinishes(result, pos)
      PROVE  IInv'
  BY <1>0, <1>9
  DEF LoaderFinishes, Running, IInv, TypeOK, HasTrack, Good, StateOK, PlayerInternal,
      PlayerState, Loader, Released
<1>10. ASSUME NEW result \in {"ok", "failed"}, NEW pos \in Position,
              PreloaderFinishes(result, pos)
       PROVE  IInv'
  BY <1>0, <1>10
  DEF PreloaderFinishes, Running, IInv, TypeOK, HasTrack, Good, StateOK,
      PlayerInternal, PlayerPreload, Loader, Released
<1>11. CASE DropPlayer
  BY <1>0, <1>11 DEF DropPlayer, IInv, TypeOK, HasTrack, Released
<1>12. CASE UNCHANGED vars
  BY <1>0, <1>12 DEF vars, IInv, TypeOK, HasTrack, Released
<1>13. QED
  BY <1>1, <1>2, <1>3, <1>4, <1>5, <1>5b, <1>6, <1>7, <1>8, <1>9, <1>10, <1>11, <1>12
  DEF Next, Poll, Commands, Loads

-----------------------------------------------------------------------------
(* The theorems. *)

\* The invariant holds of every reachable state, for any number of tracks, any
\* duration and any bounds.
THEOREM Invariant == Spec => []IInv
<1>1. QED
  BY InitInvariant, NextInvariant, PTL DEF Spec

\* Type correctness of the playback engine: what the PlayerState and
\* PlayerPreload enums of player.rs carry always goes with their variant.
THEOREM TypeCorrect == Spec => []TypeOK
<1>1. IInv => TypeOK
  BY DEF IInv
<1>2. QED
  BY <1>1, Invariant, PTL

\* A paused or stopped player has given the audio device back: after any mix of
\* loads, pauses, gapless hand-overs and failing sink calls (ensure_sink_stopped,
\* start_playback, handle_pause).
THEOREM DeviceIsReleased == Spec => []DeviceReleased
<1>1. IInv => DeviceReleased
  BY DEF IInv, TypeOK, Released, DeviceReleased
<1>2. QED
  BY <1>1, Invariant, PTL

-----------------------------------------------------------------------------
(***************************************************************************)
(* What the listener is told.  The first part of the proof says what every *)
(* operator does to what the listener has seen; the second that a handler, *)
(* from a struct that tells the truth, tells the truth again and takes the *)
(* protocol at most one step further.                                      *)
(***************************************************************************)

Active == {"Loading", "Paused", "Playing", "EndOfTrack"}

\* ListenerAgrees, for any state of the player and any listener.
Agrees(st, seen) ==
  /\ st.tag \in Active => seen.track = st.track /\ seen.id = st.id
  /\ st.tag = "Playing" => seen.status \in {"Playing", "EndOfTrack"}
  /\ st.tag = "Paused" => seen.status \in {"Paused", "EndOfTrack"}
  /\ (st.tag = "Loading" /\ st.loader # "terminated") =>
       seen.status = "Loading"
  /\ (st.tag = "Loading" /\ st.loader = "terminated") =>
       seen.status = "Unavailable"
  /\ st.tag = "EndOfTrack" => seen.status = "EndOfTrack"
  /\ st.tag = "Stopped" => seen.status \in {"none", "Stopped"}

\* The next id is higher than every id the listener knows of, but for the first
\* one, which is the id a listener starts from.
Counted(s) ==
  /\ s.seen.announced <= s.generator
  /\ s.seen.id <= s.generator
  /\ s.seen.status # "none" => s.seen.id < s.generator

\* OnlyRefusedLoadsDiverge, for any value of the struct.
Follows(s) ==
  /\ s.state.tag \in Active => s.seen.announced = s.state.id
  /\ s.state.tag # "Invalid"

Truthful(s) ==
  /\ Agrees(s.state, s.seen)
  /\ Counted(s)
  /\ s.refused = TRUE \/ Follows(s)
  /\ s.preload.loader # "terminated"

\* One step of PlaybackProtocol, between what two listeners have seen, or none.
Says(a, b) ==
  \/ /\ b.status \in {"Loading", "Playing", "Paused"}
     /\ b.track \in Tracks
     /\ IF a.status = "none" THEN b.id >= a.id ELSE b.id > a.id
  \/ /\ b.id = a.id
     /\ b.track = a.track
     /\ \/ b.status = a.status
        \/ /\ a.status \in {"Loading", "Unavailable"}
           /\ b.status \in {"Loading", "Playing", "Paused"}
        \/ /\ a.status \in {"Playing", "Paused", "EndOfTrack"}
           /\ b.status \in {"Playing", "Paused"}
        \/ a.status \in {"Playing", "Paused"} /\ b.status = "EndOfTrack"
        \/ a.status = "Loading" /\ b.status = "Unavailable"
        \/ a.status \notin {"none", "Stopped"} /\ b.status = "Stopped"

\* What a handler may do to what the listener knows.
Told(s, t) ==
  /\ Truthful(t)
  /\ Says(s.seen, t.seen)
  /\ t.seen.id >= s.seen.id
  /\ t.seen.announced >= s.seen.announced \/ s.refused = TRUE

\* What an operator that tells nothing leaves alone.
Quiet(s, t) ==
  /\ t.seen = s.seen
  /\ t.generator = s.generator
  /\ t.refused = s.refused
  /\ t.preload = s.preload

LEMMA Numbers ==
  ASSUME NEW s, Good(s)
  PROVE  /\ s.generator \in Nat /\ s.seen.id \in Nat
         /\ s.seen.announced \in Nat /\ s.state.id \in Nat
         /\ s.refused \in BOOLEAN
         /\ s.seen.status \in {"none", "Loading", "Playing", "Paused",
                               "Stopped", "EndOfTrack", "Unavailable"}
<1>1. /\ s.generator \in Id /\ s.seen.id \in Id /\ s.seen.announced \in Id
      /\ s.state.id \in Id /\ s.refused \in BOOLEAN
      /\ s.seen.status \in {"none", "Loading", "Playing", "Paused",
                            "Stopped", "EndOfTrack", "Unavailable"}
  BY DEF Good, PlayerInternal, PlayerState, Listener
<1>2. \A i \in Id : i \in Nat
  BY PlayerAssumption, SMT DEF PlayerAssumption, Id
<1>3. QED
  BY <1>1, <1>2

\* A playback event is what the listener has then seen.
LEMMA SendPlayback ==
  ASSUME NEW s, Good(s), NEW track, NEW id,
         NEW ev \in {"Loading", "Playing", "Paused", "Stopped", "EndOfTrack"}
  PROVE  LET t == send_event(s, ev, track, id)
         IN /\ t.state = s.state
            /\ t.seen.status = ev /\ t.seen.track = track /\ t.seen.id = id
            /\ t.seen.announced = s.seen.announced
            /\ t.generator = s.generator
            /\ t.refused = s.refused
            /\ t.preload = s.preload
BY DEF send_event, Good, PlayerInternal, Listener

LEMMA StoppedQuietly ==
  ASSUME NEW s, Good(s), NEW to, NEW io, io.stop \in BOOLEAN
  PROVE  LET t == ensure_sink_stopped(s, to, io)
         IN Quiet(s, t) /\ t.state = s.state
<1>1. \/ ensure_sink_stopped(s, to, io) = s
      \/ ensure_sink_stopped(s, to, io) = [s EXCEPT !.sink_status = to]
      \/ ensure_sink_stopped(s, to, io) = [s EXCEPT !.exit = "sink_stop"]
      \/ ensure_sink_stopped(s, to, io) = [s EXCEPT !.sink_status = "Closed"]
  <2>1. CASE s.sink_status = "Running" /\ io.stop
    BY <2>1 DEF ensure_sink_stopped
  <2>2. CASE s.sink_status = "Running" /\ ~io.stop
    BY <2>2 DEF ensure_sink_stopped
  <2>3. CASE s.sink_status = "TemporarilyClosed" /\ to = "Closed"
    BY <2>3 DEF ensure_sink_stopped
  <2>4. CASE /\ s.sink_status # "Running"
             /\ ~ (s.sink_status = "TemporarilyClosed" /\ to = "Closed")
    BY <2>4 DEF ensure_sink_stopped
  <2>5. QED
    BY <2>1, <2>2, <2>3, <2>4
<1>2. QED
  BY <1>1 DEF Quiet, Good, PlayerInternal

\* Replacing the state tells nothing.
LEMMA ReplacedQuietly ==
  ASSUME NEW s, Good(s), NEW st
  PROVE  LET t == [s EXCEPT !.state = st]
         IN Quiet(s, t) /\ t.state = st
BY DEF Quiet, Good, PlayerInternal

\* Pausing tells of a track that was playing, and of nothing else.
LEMMA PauseTells ==
  ASSUME NEW s, Good(s), NEW io, io.stop \in BOOLEAN
  PROVE  LET t == handle_pause(s, io)
         IN /\ t.seen.announced = s.seen.announced
            /\ t.generator = s.generator
            /\ t.refused = s.refused
            /\ t.preload = s.preload
            /\ t.state.track = s.state.track /\ t.state.id = s.state.id
            /\ t.state.loader = s.state.loader
            /\ s.state.tag # "Playing" =>
                 t.seen = s.seen /\ t.state.tag = s.state.tag
            /\ s.state.tag = "Playing" =>
                 /\ t.state.tag = "Paused"
                 /\ t.seen.status = "Paused"
                 /\ t.seen.track = s.state.track
                 /\ t.seen.id = s.state.id
<1>1. CASE s.state.tag = "Paused"
  BY <1>1, StoppedQuietly DEF handle_pause, Quiet
<1>2. CASE s.state.tag = "Playing"
  <2> DEFINE p == playing_to_paused(s)
             q == ensure_sink_stopped(p, "Closed", io)
  <2>1. Good(p)
    BY <1>2, Retagged DEF playing_to_paused
  <2>2. /\ Quiet(s, p) /\ p.state.tag = "Paused"
        /\ p.state.track = s.state.track /\ p.state.id = s.state.id
        /\ p.state.loader = s.state.loader
    BY DEF playing_to_paused, Quiet, Good, PlayerInternal, PlayerState
  <2> HIDE DEF p
  <2>3. Good(q) /\ Quiet(p, q) /\ q.state = p.state
    BY <2>1, SinkStopped, StoppedQuietly
  <2>4. handle_pause(s, io) = send_event(q, "Paused", s.state.track, s.state.id)
    BY <1>2 DEF handle_pause, p
  <2> HIDE DEF q
  <2>5. QED
    BY <1>2, <2>2, <2>3, <2>4, SendPlayback DEF Quiet
<1>3. CASE s.state.tag = "Loading"
  <2> DEFINE p == [s EXCEPT !.state.start_playback = FALSE]
  <2>1. handle_pause(s, io) = p
    BY <1>3 DEF handle_pause
  <2>2. /\ Quiet(s, p) /\ p.state.tag = s.state.tag
        /\ p.state.track = s.state.track /\ p.state.id = s.state.id
        /\ p.state.loader = s.state.loader
    BY DEF Quiet, Good, PlayerInternal, PlayerState
  <2> HIDE DEF p
  <2>3. QED
    BY <1>3, <2>1, <2>2 DEF Quiet
<1>4. CASE s.state.tag \notin {"Paused", "Playing", "Loading"}
  BY <1>4 DEF handle_pause
<1>5. QED
  BY <1>1, <1>2, <1>3, <1>4

\* Starting the sink tells nothing, or pauses.
LEMMA SinkRunningTells ==
  ASSUME NEW s, Good(s), NEW io, io.stop \in BOOLEAN, io.start \in BOOLEAN
  PROVE  LET t == ensure_sink_running(s, io)
         IN \/ Quiet(s, t) /\ t.state = s.state
            \/ t = handle_pause(s, io)
<1>1. CASE s.sink_status = "Running"
  BY <1>1 DEF ensure_sink_running, Quiet
<1>2. CASE s.sink_status # "Running" /\ io.start
  BY <1>2 DEF ensure_sink_running, Quiet, Good, PlayerInternal
<1>3. CASE s.sink_status # "Running" /\ ~io.start
  BY <1>3 DEF ensure_sink_running
<1>4. QED
  BY <1>1, <1>2, <1>3

\* A track that is started is what the listener has then seen, whatever the
\* sink and the track before it made of it.
LEMMA StartTells ==
  ASSUME NEW s, Good(s), NEW track \in Tracks, NEW id \in Id,
         NEW pos \in Position, NEW play \in BOOLEAN,
         NEW io, io.stop \in BOOLEAN, io.start \in BOOLEAN
  PROVE  LET t == start_playback(s, track, id, pos, play, io)
         IN /\ t.state.tag \in {"Playing", "Paused"}
            /\ t.state.track = track /\ t.state.id = id
            /\ t.seen.status = t.state.tag
            /\ t.seen.track = track /\ t.seen.id = id
            /\ t.seen.announced = s.seen.announced
            /\ t.generator = s.generator
            /\ t.refused = s.refused
            /\ t.preload = s.preload
<1> DEFINE loaded(tag) == [tag |-> tag, track |-> track, id |-> id,
                           start_playback |-> FALSE, loader |-> "none",
                           pos |-> pos, suggested |-> FALSE]
<1>1. /\ loaded("Playing") \in PlayerState /\ StateOK(loaded("Playing"))
      /\ loaded("Paused") \in PlayerState /\ StateOK(loaded("Paused"))
      /\ loaded("Playing").tag = "Playing" /\ loaded("Paused").tag = "Paused"
      /\ loaded("Playing").track = track /\ loaded("Paused").track = track
      /\ loaded("Playing").id = id /\ loaded("Paused").id = id
  BY DEF PlayerState, StateOK, Loader
<1>2. CASE play
  <2> DEFINE p == ensure_sink_running(s, io)
             q == send_event(p, "Playing", track, id)
             r == [q EXCEPT !.state = loaded("Playing")]
  <2>1. Good(p)
    BY SinkRunning
  <2>2. /\ p.seen.announced = s.seen.announced
        /\ p.generator = s.generator
        /\ p.refused = s.refused
        /\ p.preload = s.preload
    BY SinkRunningTells, PauseTells DEF Quiet
  <2>3. start_playback(s, track, id, pos, play, io) = r
    BY <1>2 DEF start_playback
  <2> HIDE DEF p
  <2>4. Good(q)
    BY <2>1, SendEvent
  <2>5. /\ q.seen.status = "Playing" /\ q.seen.track = track
        /\ q.seen.id = id /\ q.seen.announced = p.seen.announced
        /\ q.generator = p.generator
        /\ q.refused = p.refused /\ q.preload = p.preload
    BY <2>1, SendPlayback
  <2> HIDE DEF q, loaded
  <2>6. Quiet(q, r) /\ r.state = loaded("Playing")
    BY <2>4, ReplacedQuietly
  <2> HIDE DEF r
  <2>7. QED
    BY <1>1, <2>2, <2>3, <2>5, <2>6 DEF Quiet
<1>3. CASE ~play
  <2> DEFINE p == ensure_sink_stopped(s, "Closed", io)
             q == [p EXCEPT !.state = loaded("Paused")]
             r == send_event(q, "Paused", track, id)
  <2>1. Good(p) /\ Quiet(s, p)
    BY SinkStopped, StoppedQuietly
  <2>2. start_playback(s, track, id, pos, play, io) = r
    BY <1>3 DEF start_playback
  <2> HIDE DEF p, loaded
  <2>3. Good(q) /\ Quiet(p, q) /\ q.state = loaded("Paused")
    BY <1>1, <2>1, WithState, ReplacedQuietly
  <2> HIDE DEF q
  <2>4. /\ r.state = q.state
        /\ r.seen.status = "Paused" /\ r.seen.track = track
        /\ r.seen.id = id /\ r.seen.announced = q.seen.announced
        /\ r.generator = q.generator
        /\ r.refused = q.refused /\ r.preload = q.preload
    BY <2>3, SendPlayback
  <2> HIDE DEF r
  <2>5. QED
    BY <1>1, <2>1, <2>2, <2>3, <2>4 DEF Quiet
<1>4. QED
  BY <1>2, <1>3

-----------------------------------------------------------------------------
(* What a load tells, from the struct t that its announcement left. *)

\* A load that is taken up is what the listener has then seen ...
TakenUp(t, u, track, id) ==
  /\ u.state.tag \in {"Loading", "Playing", "Paused"}
  /\ u.state.track = track /\ u.state.id = id
  /\ u.state.loader # "terminated"
  /\ u.seen.status = u.state.tag
  /\ u.seen.track = track /\ u.seen.id = id
  /\ u.seen.announced = t.seen.announced
  /\ u.generator = t.generator
  /\ u.preload.loader # "terminated"

\* ... and one that is refused is not heard of.
TurnedDown(t, u) ==
  /\ u.refused = TRUE
  /\ u.seen = t.seen
  /\ u.generator = t.generator
  /\ u.state = t.state \/ u.state.tag = "Invalid"
  /\ u.preload.loader # "terminated"

LEMMA BeginTells ==
  ASSUME NEW s, Good(s), s.generator < MaxId, NEW id \in Id,
         NEW play \in BOOLEAN, NEW io, IO(io)
  PROVE  LET t == LoadBegins(s, id, play, io)
         IN /\ t.state = s.state
            /\ t.seen.status = s.seen.status
            /\ t.seen.track = s.seen.track /\ t.seen.id = s.seen.id
            /\ t.seen.announced = id
            /\ t.generator = s.generator + 1
            /\ t.preload = s.preload
<1> DEFINE g == [s EXCEPT !.generator = @ + 1, !.refused = FALSE]
           e == send_event(g, "PlayRequestIdChanged", NoTrack, id)
           to == IF play THEN "TemporarilyClosed" ELSE "Closed"
<1>1. s.generator + 1 \in Id
  BY PlayerAssumption, SMT DEF PlayerAssumption, Good, PlayerInternal, Id
<1>2. /\ Good(g)
      /\ g.state = s.state /\ g.preload = s.preload /\ g.seen = s.seen
      /\ g.generator = s.generator + 1
  BY <1>1 DEF Good, PlayerInternal
<1>3. LoadBegins(s, id, play, io)
        = IF s.gapless THEN e ELSE ensure_sink_stopped(e, to, io)
  BY DEF LoadBegins
<1> HIDE DEF g
<1>4. /\ Good(e)
      /\ e.state = g.state /\ e.preload = g.preload
      /\ e.generator = g.generator
  BY <1>2, SendEvent
<1>5. /\ e.seen.status = g.seen.status
      /\ e.seen.track = g.seen.track /\ e.seen.id = g.seen.id
      /\ e.seen.announced = id
  BY <1>2 DEF send_event, Good, PlayerInternal, Listener
<1> HIDE DEF e, to
<1>6. CASE s.gapless
  BY <1>2, <1>3, <1>4, <1>5, <1>6
<1>7. CASE ~s.gapless
  BY <1>2, <1>3, <1>4, <1>5, <1>7, StoppedQuietly DEF Quiet, IO
<1>8. QED
  BY <1>6, <1>7

\* Setting the refusal aside changes nothing that is told.
LEMMA RefusedQuietly ==
  ASSUME NEW t, Good(t), t.preload.loader # "terminated"
  PROVE  TurnedDown(t, [t EXCEPT !.refused = TRUE])
BY DEF TurnedDown, Good, PlayerInternal

\* Dropping the preload tells nothing either.
LEMMA DroppedQuietly ==
  ASSUME NEW t, Good(t)
  PROVE  LET n == [t EXCEPT !.preload = NoPreload]
         IN /\ n.seen = t.seen /\ n.generator = t.generator
            /\ n.state = t.state /\ n.preload.loader # "terminated"
            /\ n.refused = t.refused
BY ConstantTypes DEF Good, PlayerInternal

LEMMA StartTakesUp ==
  ASSUME NEW s, Good(s), NEW track \in Tracks, NEW id \in Id,
         NEW pos \in Position, NEW play \in BOOLEAN, NEW io, IO(io),
         s.preload.loader # "terminated"
  PROVE  TakenUp(s, start_playback(s, track, id, pos, play, io), track, id)
<1> DEFINE u == start_playback(s, track, id, pos, play, io)
<1>1. io.stop \in BOOLEAN /\ io.start \in BOOLEAN
  BY DEF IO
<1>2. /\ u.state.tag \in {"Playing", "Paused"}
      /\ u.state.track = track /\ u.state.id = id
      /\ u.seen.status = u.state.tag
      /\ u.seen.track = track /\ u.seen.id = id
      /\ u.seen.announced = s.seen.announced
      /\ u.generator = s.generator
      /\ u.preload = s.preload
  BY <1>1, StartTells
<1>3. u.state.loader = "none"
  <2>1. Good(u)
    BY <1>1, StartPlayback
  <2> HIDE DEF u
  <2>2. QED
    BY <1>2, <2>1 DEF Good, StateOK
<1> HIDE DEF u
<1>4. TakenUp(s, u, track, id)
  BY <1>2, <1>3 DEF TakenUp
<1>5. QED
  BY <1>4 DEF u

LEMMA RepeatTells ==
  ASSUME NEW t, Good(t), NEW track \in Tracks, NEW id \in Id,
         NEW play \in BOOLEAN, NEW pos, NEW io, IO(io),
         t.preload.loader # "terminated"
  PROVE  LET u == LoadRepeats(t, track, id, play, pos, io)
         IN TakenUp(t, u, track, id) \/ TurnedDown(t, u)
<1> DEFINE at == Seeked(t.state.pos, pos, io)
           i  == [t EXCEPT !.state = Invalid]
           n  == [i EXCEPT !.preload = NoPreload]
           u  == LoadRepeats(t, track, id, play, pos, io)
<1>1. Good(i) /\ Quiet(t, i) /\ i.state.tag = "Invalid"
  BY WithState, ReplacedQuietly, ConstantTypes
<1>2. t.state.pos \in Position
  BY StateFacts
<1>3. CASE at = SeekFailed
  <2>1. u = [i EXCEPT !.refused = TRUE]
    BY <1>3 DEF LoadRepeats, Good, PlayerInternal
  <2> HIDE DEF i, u
  <2>2. TurnedDown(i, u)
    BY <1>1, <2>1, RefusedQuietly DEF Quiet
  <2>3. TurnedDown(t, u)
    BY <1>1, <2>2 DEF TurnedDown, Quiet
  <2>4. QED
    BY <2>3 DEF u
<1>4. CASE at # SeekFailed
  <2>1. at \in Position
    BY <1>2, <1>4, SeekedType
  <2>2. u = start_playback(n, track, id, at, play, io)
    BY <1>4 DEF LoadRepeats, Good, PlayerInternal
  <2> HIDE DEF i, at, u
  <2>3. /\ Good(n) /\ n.seen = t.seen /\ n.generator = t.generator
        /\ n.preload.loader # "terminated"
    BY <1>1, WithoutPreload, DroppedQuietly DEF Quiet
  <2> HIDE DEF n
  <2>4. TakenUp(n, u, track, id)
    BY <2>1, <2>2, <2>3, StartTakesUp
  <2>5. TakenUp(t, u, track, id)
    BY <2>3, <2>4 DEF TakenUp
  <2>6. QED
    BY <2>5 DEF u
<1>5. QED
  BY <1>3, <1>4

LEMMA CurrentTells ==
  ASSUME NEW t, Good(t), NEW track \in Tracks, NEW id \in Id,
         NEW play \in BOOLEAN, NEW pos, NEW io, IO(io),
         t.preload.loader # "terminated"
  PROVE  LET u == LoadCurrent(t, track, id, play, pos, io)
         IN TakenUp(t, u, track, id) \/ TurnedDown(t, u)
<1> DEFINE at == Seeked(t.state.pos, pos, io)
           i  == [t EXCEPT !.state = Invalid]
           n  == [i EXCEPT !.preload = NoPreload]
           u  == LoadCurrent(t, track, id, play, pos, io)
<1>1. Good(i) /\ Quiet(t, i)
  BY WithState, ReplacedQuietly, ConstantTypes
<1>2. t.state.pos \in Position
  BY StateFacts
<1>3. CASE at = SeekFailed
  <2>1. u = [t EXCEPT !.refused = TRUE]
    BY <1>3 DEF LoadCurrent
  <2>2. QED
    BY <2>1, RefusedQuietly
<1>4. CASE at # SeekFailed
  <2>1. at \in Position
    BY <1>2, <1>4, SeekedType
  <2>2. u = start_playback(n, track, id, at, play, io)
    BY <1>4 DEF LoadCurrent, Good, PlayerInternal
  <2> HIDE DEF i, at, u
  <2>3. /\ Good(n) /\ n.seen = t.seen /\ n.generator = t.generator
        /\ n.preload.loader # "terminated"
    BY <1>1, WithoutPreload, DroppedQuietly DEF Quiet
  <2> HIDE DEF n
  <2>4. TakenUp(n, u, track, id)
    BY <2>1, <2>2, <2>3, StartTakesUp
  <2>5. TakenUp(t, u, track, id)
    BY <2>3, <2>4 DEF TakenUp
  <2>6. QED
    BY <2>5 DEF u
<1>5. QED
  BY <1>3, <1>4

LEMMA PreloadedTells ==
  ASSUME NEW t, Good(t), NEW track \in Tracks, NEW id \in Id,
         NEW play \in BOOLEAN, NEW pos, NEW io, IO(io)
  PROVE  LET u == LoadPreloaded(t, track, id, play, pos, io)
         IN TakenUp(t, u, track, id) \/ TurnedDown(t, u)
<1> DEFINE at == Seeked(t.preload.pos, pos, io)
           n  == [t EXCEPT !.preload = NoPreload]
           u  == LoadPreloaded(t, track, id, play, pos, io)
<1>1. /\ Good(n) /\ n.seen = t.seen /\ n.generator = t.generator
      /\ n.state = t.state /\ n.preload.loader # "terminated"
  BY WithoutPreload, DroppedQuietly
<1>2. t.preload.pos \in Position
  BY DEF Good, PlayerInternal, PlayerPreload
<1>3. CASE at = SeekFailed
  <2>1. u = [n EXCEPT !.refused = TRUE]
    BY <1>3 DEF LoadPreloaded
  <2> HIDE DEF n, u
  <2>2. TurnedDown(n, u)
    BY <1>1, <2>1, RefusedQuietly
  <2>3. TurnedDown(t, u)
    BY <1>1, <2>2 DEF TurnedDown
  <2>4. QED
    BY <2>3 DEF u
<1>4. CASE at # SeekFailed
  <2>1. at \in Position
    BY <1>2, <1>4, SeekedType
  <2>2. u = start_playback(n, track, id, at, play, io)
    BY <1>4 DEF LoadPreloaded
  <2> HIDE DEF n, at, u
  <2>3. TakenUp(n, u, track, id)
    BY <1>1, <2>1, <2>2, StartTakesUp
  <2>4. TakenUp(t, u, track, id)
    BY <1>1, <2>3 DEF TakenUp
  <2>5. QED
    BY <2>4 DEF u
<1>5. QED
  BY <1>3, <1>4

LEMMA ScratchTells ==
  ASSUME NEW t, Good(t), NEW track \in Tracks, NEW id \in Id,
         NEW play \in BOOLEAN, NEW pos, t.preload.loader # "terminated"
  PROVE  TakenUp(t, LoadFromScratch(t, track, id, play, pos), track, id)
<1> DEFINE e == send_event(t, "Loading", track, id)
           pending == /\ e.preload.tag = "Loading"
                      /\ e.preload.track = track
                      /\ pos = 0
           loader == IF pending THEN e.preload.loader ELSE "running"
           at == IF pending THEN e.preload.pos ELSE 0
           st == [tag |-> "Loading", track |-> track, id |-> id,
                  start_playback |-> play, loader |-> loader, pos |-> at,
                  suggested |-> FALSE]
           n == [e EXCEPT !.preload = NoPreload]
           u == LoadFromScratch(t, track, id, play, pos)
<1>1. Good(e)
  BY SendEvent
<1>2. /\ e.seen.status = "Loading" /\ e.seen.track = track
      /\ e.seen.id = id /\ e.seen.announced = t.seen.announced
      /\ e.generator = t.generator /\ e.preload = t.preload
  BY SendPlayback
<1>3. u = [e EXCEPT !.preload = NoPreload, !.state = st]
  BY DEF LoadFromScratch
<1> HIDE DEF e, u
<1>4. loader # "terminated"
  BY <1>2
<1> HIDE DEF loader, at
<1>5. /\ st.tag = "Loading" /\ st.track = track /\ st.id = id
      /\ st.loader # "terminated"
  BY <1>4
<1>6. u = [n EXCEPT !.state = st]
  BY <1>1, <1>3 DEF Good, PlayerInternal
<1> HIDE DEF st
<1>7. /\ Good(n) /\ n.seen = e.seen /\ n.generator = e.generator
      /\ n.preload.loader # "terminated"
  BY <1>1, WithoutPreload, DroppedQuietly
<1> HIDE DEF n
<1>8. Quiet(n, u) /\ u.state = st
  BY <1>6, <1>7, ReplacedQuietly
<1>9. TakenUp(t, u, track, id)
  BY <1>2, <1>5, <1>7, <1>8 DEF TakenUp, Quiet
<1>10. QED
  BY <1>9 DEF u

-----------------------------------------------------------------------------
(* Every handler tells the truth again. *)

\* A handler that tells nothing, of a state that looks the same to a listener.
LEMMA SilenceTold ==
  ASSUME NEW s, Good(s), Truthful(s), NEW t,
         t.seen = s.seen, t.generator = s.generator, t.refused = s.refused,
         t.preload.loader # "terminated",
         t.state.tag = s.state.tag, t.state.track = s.state.track,
         t.state.id = s.state.id,
         t.state.loader = "terminated" <=> s.state.loader = "terminated"
  PROVE  Told(s, t)
<1>1. s.seen.id \in Nat /\ s.seen.announced \in Nat
  BY Numbers
<1>2. Agrees(t.state, t.seen)
  BY DEF Truthful, Agrees
<1>3. Counted(t) /\ (t.refused = TRUE \/ Follows(t))
  BY DEF Truthful, Counted, Follows
<1>4. Says(s.seen, t.seen)
  BY DEF Says
<1>5. QED
  BY <1>1, <1>2, <1>3, <1>4 DEF Told, Truthful

\* An event about the request at hand, of a step that PlaybackProtocol has.
LEMMA EventTold ==
  ASSUME NEW s, Good(s), Truthful(s), NEW t,
         s.state.tag \in Active, t.state.tag \in Active,
         t.seen.track = s.state.track, t.seen.id = s.state.id,
         t.seen.announced = s.seen.announced,
         t.generator = s.generator, t.refused = s.refused,
         t.preload.loader # "terminated",
         t.state.track = s.state.track, t.state.id = s.state.id,
         Agrees(t.state, t.seen),
         Says(s.seen, t.seen)
  PROVE  Told(s, t)
<1>1. /\ s.seen.id \in Nat /\ s.seen.announced \in Nat
      /\ s.generator \in Nat
  BY Numbers
<1>2. s.seen.id = s.state.id /\ s.seen.status # "none"
  BY DEF Truthful, Agrees, Active
<1>3. Counted(t)
  BY <1>1, <1>2 DEF Truthful, Counted
<1>4. t.refused = TRUE \/ Follows(t)
  BY DEF Truthful, Follows, Active
<1>5. QED
  BY <1>1, <1>2, <1>3, <1>4 DEF Told, Truthful

\* A load is told under a new id, or under the id of the load it starts over.
LEMMA LoadTold ==
  ASSUME NEW s, Good(s), Truthful(s), s.state.tag # "Invalid",
         s.generator < MaxId, NEW track \in Tracks, NEW id \in Id,
         NEW play \in BOOLEAN, NEW pos, NEW io, IO(io), Released(s),
         \/ id = s.generator
         \/ /\ s.state.tag = "Loading"
            /\ id = s.state.id
            /\ track = s.state.track
  PROVE  Told(s, handle_command_load(s, track, id, play, pos, io))
<1> DEFINE t == LoadBegins(s, id, play, io)
           u == handle_command_load(s, track, id, play, pos, io)
<1>1. Good(t)
  BY LoadBegin
<1>2. /\ t.state = s.state
      /\ t.seen.status = s.seen.status
      /\ t.seen.track = s.seen.track /\ t.seen.id = s.seen.id
      /\ t.seen.announced = id
      /\ t.generator = s.generator + 1
      /\ t.preload = s.preload
  BY BeginTells
<1>3. \/ t.state.tag = "Invalid"
      \/ u = LoadRepeats(t, track, id, play, pos, io)
      \/ u = LoadCurrent(t, track, id, play, pos, io)
      \/ u = LoadPreloaded(t, track, id, play, pos, io)
      \/ u = LoadFromScratch(t, track, id, play, pos)
  BY DEF handle_command_load
<1> HIDE DEF t, u
<1>4. t.preload.loader # "terminated"
  BY <1>2 DEF Truthful
<1>5. TakenUp(t, u, track, id) \/ TurnedDown(t, u)
  BY <1>1, <1>2, <1>3, <1>4, RepeatTells, CurrentTells, PreloadedTells,
     ScratchTells
<1>6. /\ s.generator \in Nat /\ s.seen.id \in Nat
      /\ s.seen.announced \in Nat /\ s.state.id \in Nat
  BY Numbers
<1>7. id <= s.generator /\ s.seen.id <= id
  <2>1. s.state.tag = "Loading" => s.seen.id = s.state.id
    BY DEF Truthful, Agrees, Active
  <2>2. s.seen.id <= s.generator
    BY DEF Truthful, Counted
  <2>3. QED
    BY <1>6, <2>1, <2>2
<1>8. id >= s.seen.announced \/ s.refused = TRUE
  <2>1. s.seen.announced <= s.generator
    BY DEF Truthful, Counted
  <2>2. \/ s.refused = TRUE
        \/ s.state.tag = "Loading" => s.seen.announced = s.state.id
    BY DEF Truthful, Follows, Active
  <2>3. QED
    BY <1>6, <2>1, <2>2
<1>9. CASE TakenUp(t, u, track, id)
  <2>1. Agrees(u.state, u.seen)
    BY <1>9 DEF TakenUp, Agrees, Active
  <2>2. Counted(u)
    BY <1>2, <1>6, <1>7, <1>9 DEF TakenUp, Counted
  <2>3. Follows(u)
    BY <1>2, <1>9 DEF TakenUp, Follows
  <2>4. Says(s.seen, u.seen)
    <3>1. CASE id = s.generator
      <4>1. IF s.seen.status = "none" THEN id >= s.seen.id ELSE id > s.seen.id
        BY <1>6, <1>7, <3>1 DEF Truthful, Counted
      <4>2. QED
        BY <1>9, <4>1 DEF TakenUp, Says
    <3>2. CASE /\ s.state.tag = "Loading" /\ id = s.state.id
               /\ track = s.state.track
      <4>1. /\ s.seen.track = track /\ s.seen.id = id
            /\ s.seen.status \in {"Loading", "Unavailable"}
        BY <3>2 DEF Truthful, Agrees, Active
      <4>2. QED
        BY <1>9, <4>1 DEF TakenUp, Says
    <3>3. QED
      BY <3>1, <3>2
  <2>5. Told(s, u)
    BY <1>2, <1>6, <1>7, <1>8, <1>9, <2>1, <2>2, <2>3, <2>4
    DEF TakenUp, Told, Truthful
  <2>6. QED
    BY <2>5 DEF u
<1>10. CASE TurnedDown(t, u)
  <2>1. Agrees(u.state, u.seen)
    <3>1. CASE u.state = t.state
      BY <1>2, <1>10, <3>1 DEF TurnedDown, Truthful, Agrees
    <3>2. CASE u.state.tag = "Invalid"
      BY <3>2 DEF Agrees, Active
    <3>3. QED
      BY <1>10, <3>1, <3>2 DEF TurnedDown
  <2>2. Counted(u)
    BY <1>2, <1>6, <1>7, <1>10 DEF TurnedDown, Truthful, Counted
  <2>3. Says(s.seen, u.seen)
    BY <1>2, <1>10 DEF TurnedDown, Says
  <2>4. Told(s, u)
    BY <1>2, <1>6, <1>8, <1>10, <2>1, <2>2, <2>3
    DEF TurnedDown, Told, Truthful
  <2>5. QED
    BY <2>4 DEF u
<1>11. QED
  BY <1>5, <1>9, <1>10

LEMMA PauseTold ==
  ASSUME NEW s, Good(s), Truthful(s), NEW io, io.stop \in BOOLEAN
  PROVE  Told(s, handle_pause(s, io))
<1> DEFINE t == handle_pause(s, io)
<1>1. /\ t.seen.announced = s.seen.announced
      /\ t.generator = s.generator
      /\ t.refused = s.refused
      /\ t.preload = s.preload
      /\ t.state.track = s.state.track /\ t.state.id = s.state.id
      /\ t.state.loader = s.state.loader
      /\ s.state.tag # "Playing" =>
           t.seen = s.seen /\ t.state.tag = s.state.tag
      /\ s.state.tag = "Playing" =>
           /\ t.state.tag = "Paused"
           /\ t.seen.status = "Paused"
           /\ t.seen.track = s.state.track
           /\ t.seen.id = s.state.id
  BY PauseTells
<1> HIDE DEF t
<1>2. t.preload.loader # "terminated"
  BY <1>1 DEF Truthful
<1>3. CASE s.state.tag # "Playing"
  <2>1. Told(s, t)
    BY <1>1, <1>2, <1>3, SilenceTold
  <2>2. QED
    BY <2>1 DEF t
<1>4. CASE s.state.tag = "Playing"
  <2>1. /\ s.seen.track = s.state.track /\ s.seen.id = s.state.id
        /\ s.seen.status \in {"Playing", "EndOfTrack"}
    BY <1>4 DEF Truthful, Agrees, Active
  <2>2. Agrees(t.state, t.seen)
    BY <1>1, <1>4 DEF Agrees
  <2>3. Says(s.seen, t.seen)
    BY <1>1, <1>4, <2>1 DEF Says
  <2>4. s.state.tag \in Active /\ t.state.tag \in Active
    BY <1>1, <1>4 DEF Active
  <2>5. Told(s, t)
    BY <1>1, <1>2, <1>4, <2>2, <2>3, <2>4, EventTold
  <2>6. QED
    BY <2>5 DEF t
<1>5. QED
  BY <1>3, <1>4

LEMMA PlayTold ==
  ASSUME NEW s, Good(s), Truthful(s), NEW io, io.stop \in BOOLEAN,
         io.start \in BOOLEAN
  PROVE  Told(s, handle_play(s, io))
<1>1. CASE s.state.tag = "Paused"
  <2> DEFINE p == paused_to_playing(s)
             q == send_event(p, "Playing", s.state.track, s.state.id)
             t == ensure_sink_running(q, io)
  <2>1. handle_play(s, io) = t
    BY <1>1 DEF handle_play
  <2>2. Good(p)
    BY <1>1, Retagged DEF paused_to_playing
  <2>3. /\ Quiet(s, p) /\ p.state.tag = "Playing"
        /\ p.state.track = s.state.track /\ p.state.id = s.state.id
    BY DEF paused_to_playing, Quiet, Good, PlayerInternal, PlayerState
  <2>4. s.state.track \in Tracks \cup {NoTrack} /\ s.state.id \in Id
    BY StateFacts
  <2> HIDE DEF p
  <2>5. Good(q)
    BY <2>2, <2>4, SendEvent
  <2>6. /\ q.state = p.state
        /\ q.seen.status = "Playing"
        /\ q.seen.track = s.state.track /\ q.seen.id = s.state.id
        /\ q.seen.announced = p.seen.announced
        /\ q.generator = p.generator
        /\ q.refused = p.refused
        /\ q.preload = p.preload
    BY <2>2, SendPlayback
  <2> HIDE DEF q
  <2>7. \/ Quiet(q, t) /\ t.state = q.state
        \/ t = handle_pause(q, io)
    BY <2>5, SinkRunningTells
  <2> HIDE DEF t
  <2>8. /\ t.state.tag \in {"Playing", "Paused"}
        /\ t.seen.status = t.state.tag
        /\ t.seen.track = s.state.track /\ t.seen.id = s.state.id
        /\ t.seen.announced = s.seen.announced
        /\ t.generator = s.generator
        /\ t.refused = s.refused
        /\ t.preload = s.preload
        /\ t.state.track = s.state.track /\ t.state.id = s.state.id
    <3>1. CASE Quiet(q, t) /\ t.state = q.state
      BY <2>3, <2>6, <3>1 DEF Quiet
    <3>2. CASE t = handle_pause(q, io)
      BY <2>3, <2>5, <2>6, <3>2, PauseTells DEF Quiet
    <3>3. QED
      BY <2>7, <3>1, <3>2
  <2>9. /\ s.seen.track = s.state.track /\ s.seen.id = s.state.id
        /\ s.seen.status \in {"Paused", "EndOfTrack"}
    BY <1>1 DEF Truthful, Agrees, Active
  <2>10. Agrees(t.state, t.seen) /\ Says(s.seen, t.seen)
    BY <2>8, <2>9 DEF Agrees, Says
  <2>11. s.state.tag \in Active /\ t.state.tag \in Active
    BY <1>1, <2>8 DEF Active
  <2>12. t.preload.loader # "terminated"
    BY <2>8 DEF Truthful
  <2>13. QED
    BY <2>1, <2>8, <2>10, <2>11, <2>12, EventTold
<1>2. CASE s.state.tag = "Loading"
  <2> DEFINE t == [s EXCEPT !.state.start_playback = TRUE]
  <2>1. handle_play(s, io) = t
    BY <1>2 DEF handle_play
  <2>2. /\ Quiet(s, t) /\ t.state.tag = s.state.tag
        /\ t.state.track = s.state.track /\ t.state.id = s.state.id
        /\ t.state.loader = s.state.loader
    BY DEF Quiet, Good, PlayerInternal, PlayerState
  <2> HIDE DEF t
  <2>3. QED
    BY <2>1, <2>2, SilenceTold DEF Quiet, Truthful
<1>3. CASE s.state.tag \notin {"Paused", "Loading"}
  BY <1>3, SilenceTold DEF handle_play, Truthful
<1>4. QED
  BY <1>1, <1>2, <1>3

LEMMA StopTold ==
  ASSUME NEW s, Good(s), Truthful(s), s.state.tag # "Invalid", NEW io,
         io.stop \in BOOLEAN
  PROVE  Told(s, handle_player_stop(s, io))
<1>1. CASE s.state.tag \in Active
  <2> DEFINE p == ensure_sink_stopped(s, "Closed", io)
             q == send_event(p, "Stopped", s.state.track, s.state.id)
             t == [q EXCEPT !.state = Stopped]
  <2>1. handle_player_stop(s, io) = t
    BY <1>1 DEF handle_player_stop, Active
  <2>2. Good(p) /\ Quiet(s, p)
    BY SinkStopped, StoppedQuietly
  <2>3. s.state.track \in Tracks \cup {NoTrack} /\ s.state.id \in Id
    BY StateFacts
  <2> HIDE DEF p
  <2>4. Good(q)
    BY <2>2, <2>3, SendEvent
  <2>5. /\ q.seen.status = "Stopped"
        /\ q.seen.track = s.state.track /\ q.seen.id = s.state.id
        /\ q.seen.announced = p.seen.announced
        /\ q.generator = p.generator
        /\ q.refused = p.refused
        /\ q.preload = p.preload
    BY <2>2, SendPlayback
  <2> HIDE DEF q
  <2>6. Quiet(q, t) /\ t.state.tag = "Stopped"
    BY <2>4, ReplacedQuietly, ConstantTypes
  <2> HIDE DEF t
  <2>7. /\ t.seen.status = "Stopped"
        /\ t.seen.track = s.state.track /\ t.seen.id = s.state.id
        /\ t.seen.announced = s.seen.announced
        /\ t.generator = s.generator
        /\ t.preload = s.preload
    BY <2>2, <2>5, <2>6 DEF Quiet
  <2>8. /\ s.seen.track = s.state.track /\ s.seen.id = s.state.id
        /\ s.seen.status \notin {"none", "Stopped"}
    BY <1>1 DEF Truthful, Agrees, Active
  <2>9. Agrees(t.state, t.seen) /\ Says(s.seen, t.seen)
    BY <2>6, <2>7, <2>8 DEF Agrees, Says, Active
  <2>10. Follows(t)
    BY <2>6 DEF Follows, Active
  <2>11. s.seen.id \in Nat /\ s.seen.announced \in Nat /\ s.generator \in Nat
    BY Numbers
  <2>12. Counted(t)
    BY <2>7, <2>8, <2>11 DEF Truthful, Counted
  <2>13. QED
    BY <2>1, <2>7, <2>8, <2>9, <2>10, <2>11, <2>12 DEF Told, Truthful
<1>2. CASE s.state.tag \notin Active
  BY <1>2, StateFacts, SilenceTold DEF handle_player_stop, Active, Truthful
<1>3. QED
  BY <1>1, <1>2

LEMMA SeekTold ==
  ASSUME NEW s, Good(s), Released(s), Truthful(s), s.state.tag # "Invalid",
         s.generator < MaxId, NEW pos, NEW io, IO(io)
  PROVE  Told(s, handle_command_seek(s, pos, io))
<1>1. CASE s.state.tag = "Loading"
  <2>1. handle_command_seek(s, pos, io)
          = handle_command_load(s, s.state.track, s.state.id,
                                s.state.start_playback, pos, io)
    BY <1>1 DEF handle_command_seek
  <2>2. /\ s.state.track \in Tracks /\ s.state.id \in Id
        /\ s.state.start_playback \in BOOLEAN
    BY <1>1, StateFacts DEF StateOK
  <2>3. QED
    BY <1>1, <2>1, <2>2, LoadTold
<1>2. CASE s.state.tag \in {"Playing", "Paused"} /\ io.seek # SeekFailed
  <2> DEFINE t == [s EXCEPT !.state.pos = io.seek]
  <2>1. handle_command_seek(s, pos, io) = t
    BY <1>2 DEF handle_command_seek, send_event
  <2>2. /\ Quiet(s, t) /\ t.state.tag = s.state.tag
        /\ t.state.track = s.state.track /\ t.state.id = s.state.id
        /\ t.state.loader = s.state.loader
    BY DEF Quiet, Good, PlayerInternal, PlayerState
  <2> HIDE DEF t
  <2>3. QED
    BY <2>1, <2>2, SilenceTold DEF Quiet, Truthful
<1>3. CASE /\ s.state.tag # "Loading"
           /\ ~ (s.state.tag \in {"Playing", "Paused"} /\ io.seek # SeekFailed)
  BY <1>3, SilenceTold DEF handle_command_seek, Truthful
<1>4. QED
  BY <1>1, <1>2, <1>3

LEMMA PreloadTold ==
  ASSUME NEW s, Good(s), Truthful(s), NEW track
  PROVE  Told(s, handle_command_preload(s, track))
<1> DEFINE pl == [tag |-> "Loading", track |-> track, loader |-> "running",
                  pos |-> 0]
           t == handle_command_preload(s, track)
<1>1. \/ t = [s EXCEPT !.preload = pl]
      \/ t = [s EXCEPT !.preload = NoPreload]
      \/ t = s
  BY DEF handle_command_preload
<1> HIDE DEF t
<1>2. /\ t.seen = s.seen /\ t.generator = s.generator /\ t.refused = s.refused
      /\ t.preload.loader # "terminated"
      /\ t.state = s.state
  BY <1>1, ConstantTypes DEF Truthful, Good, PlayerInternal
<1>3. Told(s, t)
  BY <1>2, SilenceTold
<1>4. QED
  BY <1>3 DEF t

\* The end of a track at hand may be told while it goes on.
LEMMA EndTold ==
  ASSUME NEW s, Good(s), Truthful(s), s.state.tag \in {"Playing", "Paused"}
  PROVE  Told(s, send_event(s, "EndOfTrack", s.state.track, s.state.id))
<1> DEFINE t == send_event(s, "EndOfTrack", s.state.track, s.state.id)
<1>1. /\ t.state = s.state
      /\ t.seen.status = "EndOfTrack"
      /\ t.seen.track = s.state.track /\ t.seen.id = s.state.id
      /\ t.seen.announced = s.seen.announced
      /\ t.generator = s.generator
      /\ t.refused = s.refused
      /\ t.preload = s.preload
  BY SendPlayback
<1> HIDE DEF t
<1>2. /\ s.seen.track = s.state.track /\ s.seen.id = s.state.id
      /\ s.seen.status \in {"Playing", "Paused", "EndOfTrack"}
  BY DEF Truthful, Agrees, Active
<1>3. Agrees(t.state, t.seen) /\ Says(s.seen, t.seen)
  BY <1>1, <1>2 DEF Agrees, Says
<1>4. s.state.tag \in Active /\ t.state.tag \in Active
  BY <1>1 DEF Active
<1>5. t.preload.loader # "terminated"
  BY <1>1 DEF Truthful
<1>6. Told(s, t)
  BY <1>1, <1>3, <1>4, <1>5, EventTold
<1>7. QED
  BY <1>6 DEF t

LEMMA CommandTold ==
  ASSUME NEW s, Good(s), Released(s), Truthful(s), s.state.tag # "Invalid",
         NEW cmd \in Command,
         cmd.c \in {"Load", "Seek"} => s.generator < MaxId,
         NEW io \in CommandIO
  PROVE  Told(s, handle_command(s, cmd, io))
<1> DEFINE u == handle_command(s, cmd, io)
<1>1. IO(io)
  BY DEF CommandIO, IO
<1>2. s.generator \in Id
  BY DEF Good, PlayerInternal
<1>3. CASE cmd.c = "Load"
  <2>1. cmd.track \in Tracks /\ cmd.play \in BOOLEAN
    BY <1>3 DEF Command
  <2>2. u = handle_command_load(s, cmd.track, s.generator, cmd.play, cmd.pos, io)
    BY <1>3 DEF handle_command
  <2>3. QED
    BY <1>1, <1>2, <1>3, <2>1, <2>2, LoadTold
<1>4. CASE cmd.c = "Preload"
  BY <1>4, PreloadTold DEF handle_command
<1>5. CASE cmd.c = "Seek"
  <2>1. u = handle_command_seek(s, cmd.pos, io)
    BY <1>5 DEF handle_command
  <2>2. QED
    BY <1>1, <1>5, <2>1, SeekTold
<1>6. CASE cmd.c = "Play"
  BY <1>1, <1>6, PlayTold DEF handle_command, IO
<1>7. CASE cmd.c = "Pause"
  BY <1>1, <1>7, PauseTold DEF handle_command, IO
<1>8. CASE cmd.c = "Stop"
  BY <1>1, <1>8, StopTold DEF handle_command, IO
<1>9. CASE cmd.c = "FilterExplicit"
  <2>1. u = handle_filter_explicit(s)
    BY <1>9 DEF handle_command
  <2>2. CASE s.state.tag \in {"Playing", "Paused"} /\ s.state.track \in Explicit
    BY <2>1, <2>2, EndTold DEF handle_filter_explicit
  <2>3. CASE ~ (/\ s.state.tag \in {"Playing", "Paused"}
                /\ s.state.track \in Explicit)
    BY <2>1, <2>3, SilenceTold DEF handle_filter_explicit, Truthful
  <2>4. QED
    BY <2>2, <2>3
<1>10. CASE cmd.c \notin {"Load", "Preload", "Seek", "Play", "Pause", "Stop",
                          "FilterExplicit"}
  BY <1>10, SilenceTold DEF handle_command, Truthful
<1>11. QED
  BY <1>3, <1>4, <1>5, <1>6, <1>7, <1>8, <1>9, <1>10

\* What becomes of a packet of a track that plays.
LEMMA PacketTold ==
  ASSUME NEW s, Good(s), Truthful(s), s.state.tag = "Playing",
         NEW packet \in Packet, NEW io \in PacketIO
  PROVE  LET u == handle_packet(s, packet, io)
         IN Told(s, u) /\ u.state.tag # "Invalid"
<1> DEFINE u == handle_packet(s, packet, io)
           m == [s EXCEPT !.state.pos = packet.pos]
<1>1. io.stop \in BOOLEAN /\ io.write \in BOOLEAN
  BY DEF PacketIO
<1>2. CASE packet.kind = "samples"
  <2>1. packet.pos \in Position
    BY <1>2 DEF Packet
  <2>2. Good(m)
    BY <2>1, Moved
  <2>3. /\ Quiet(s, m) /\ m.state.tag = s.state.tag
        /\ m.state.track = s.state.track /\ m.state.id = s.state.id
        /\ m.state.loader = s.state.loader
    BY DEF Quiet, Good, PlayerInternal, PlayerState
  <2>4. u = m \/ u = handle_pause(m, io)
    BY <1>1, <1>2 DEF handle_packet
  <2> HIDE DEF m, u
  <2>5. Told(s, m)
    BY <2>3, SilenceTold DEF Quiet, Truthful
  <2>6. Told(m, handle_pause(m, io))
    <3>1. Truthful(m)
      BY <2>5 DEF Told
    <3>2. QED
      BY <1>1, <2>2, <3>1, PauseTold
  <2>7. Told(s, handle_pause(m, io))
    <3>1. m.seen = s.seen /\ m.refused = s.refused
      BY <2>3 DEF Quiet
    <3>2. QED
      BY <2>6, <3>1 DEF Told
  <2>8. handle_pause(m, io).state.tag # "Invalid" /\ m.state.tag # "Invalid"
    BY <1>1, <2>2, <2>3, PauseTells
  <2>9. Told(s, u) /\ u.state.tag # "Invalid"
    BY <2>4, <2>5, <2>7, <2>8
  <2>10. QED
    BY <2>9 DEF u
<1>3. CASE packet.kind = "none"
  <2> DEFINE e == playing_to_end_of_track(s)
  <2>1. /\ Quiet(s, e) /\ e.state.tag = "EndOfTrack"
        /\ e.state.track = s.state.track /\ e.state.id = s.state.id
    BY DEF playing_to_end_of_track, Quiet, Good, PlayerInternal, PlayerState
  <2>2. Good(e)
    BY Retagged DEF playing_to_end_of_track
  <2>3. u = send_event(e, "EndOfTrack", s.state.track, s.state.id)
    BY <1>3 DEF handle_packet
  <2> HIDE DEF e, u
  <2>4. /\ u.state = e.state
        /\ u.seen.status = "EndOfTrack"
        /\ u.seen.track = s.state.track /\ u.seen.id = s.state.id
        /\ u.seen.announced = e.seen.announced
        /\ u.generator = e.generator
        /\ u.refused = e.refused
        /\ u.preload = e.preload
    BY <2>2, <2>3, SendPlayback
  <2>5. /\ s.seen.track = s.state.track /\ s.seen.id = s.state.id
        /\ s.seen.status \in {"Playing", "EndOfTrack"}
    BY DEF Truthful, Agrees, Active
  <2>6. Agrees(u.state, u.seen) /\ Says(s.seen, u.seen)
    BY <2>1, <2>4, <2>5 DEF Agrees, Says
  <2>7. s.state.tag \in Active /\ u.state.tag \in Active
    BY <2>1, <2>4 DEF Active
  <2>8. u.preload.loader # "terminated"
    BY <2>1, <2>4 DEF Truthful, Quiet
  <2>9. Told(s, u)
    BY <2>1, <2>4, <2>6, <2>7, <2>8, EventTold DEF Quiet
  <2>10. u.state.tag # "Invalid"
    BY <2>1, <2>4
  <2>11. QED
    BY <2>9, <2>10 DEF u
<1>4. CASE packet.kind = "error"
  <2>1. u = send_event(s, "EndOfTrack", s.state.track, s.state.id)
    BY <1>4 DEF handle_packet
  <2>2. u.state = s.state
    BY <2>1, SendPlayback
  <2> HIDE DEF u
  <2>3. Told(s, u)
    BY <2>1, EndTold
  <2>4. Told(s, u) /\ u.state.tag # "Invalid"
    BY <2>2, <2>3
  <2>5. QED
    BY <2>4 DEF u
<1>5. packet.kind \in {"samples", "none", "error"}
  BY DEF Packet
<1>6. QED
  BY <1>2, <1>3, <1>4, <1>5

-----------------------------------------------------------------------------
(* The steps of the player. *)

\* A struct that tells the truth; and a state that became invalid does not
\* outlive the round: is_playing finds it before the next command is received.
Truth ==
  /\ Truthful(self)
  /\ self.state.tag = "Invalid" =>
       pc \in {"loader", "preload", "playback", "exited"}

LEMMA InitTruth == Init => Truth
<1> SUFFICES ASSUME Init PROVE Truth
  OBVIOUS
<1>1. PICK g \in BOOLEAN :
        self = [state |-> Stopped, preload |-> NoPreload,
                sink_status |-> "Closed", generator |-> 0, gapless |-> g,
                seen |-> [announced |-> 0, status |-> "none", id |-> 0,
                          track |-> NoTrack],
                refused |-> FALSE, exit |-> "none"]
  BY DEF Init
<1>2. self.state.tag = "Stopped" /\ self.preload.loader = "none"
  BY <1>1, ConstantTypes
<1>3. /\ self.seen.status = "none" /\ self.seen.announced = 0
      /\ self.seen.id = 0 /\ self.generator = 0
  BY <1>1
<1>4. Agrees(self.state, self.seen) /\ Counted(self) /\ Follows(self)
  BY <1>2, <1>3 DEF Agrees, Counted, Follows, Active
<1>5. QED
  BY <1>2, <1>4 DEF Truth, Truthful

\* A loader's result: the track starts, or is reported as unavailable.
LEMMA LoaderTold ==
  ASSUME NEW s, Good(s), Truthful(s), NEW io \in SinkIO,
         s.state.tag = "Loading", s.state.loader \in {"ok", "failed"}
  PROVE  LET st == s.state
             done == [s EXCEPT !.state.loader = "terminated"]
         IN /\ Told(s, start_playback(done, st.track, st.id, st.pos,
                                      st.start_playback, io))
            /\ Told(s, send_event(done, "Unavailable", st.track, st.id))
<1> DEFINE st == s.state
           done == [s EXCEPT !.state.loader = "terminated"]
           played == start_playback(done, st.track, st.id, st.pos,
                                    st.start_playback, io)
           failed == send_event(done, "Unavailable", st.track, st.id)
<1>1. io.start \in BOOLEAN /\ io.stop \in BOOLEAN
  BY DEF SinkIO
<1>2. /\ st.track \in Tracks /\ st.id \in Id /\ st.pos \in Position
      /\ st.start_playback \in BOOLEAN
  BY StateFacts DEF StateOK
<1>3. /\ s.seen.track = st.track /\ s.seen.id = st.id
      /\ s.seen.status = "Loading" /\ s.preload.loader # "terminated"
  BY DEF Truthful, Agrees, Active
<1>4. Good(done)
  BY DEF Good, StateOK, PlayerInternal, PlayerState, Loader
<1>5. /\ Quiet(s, done)
      /\ done.state.tag = "Loading" /\ done.state.track = st.track
      /\ done.state.id = st.id /\ done.state.loader = "terminated"
  BY DEF Quiet, Good, PlayerInternal, PlayerState
<1> HIDE DEF done
<1>6. Told(s, played)
  <2>1. /\ played.state.tag \in {"Playing", "Paused"}
        /\ played.state.track = st.track /\ played.state.id = st.id
        /\ played.seen.status = played.state.tag
        /\ played.seen.track = st.track /\ played.seen.id = st.id
        /\ played.seen.announced = done.seen.announced
        /\ played.generator = done.generator
        /\ played.refused = done.refused
        /\ played.preload = done.preload
    BY <1>1, <1>2, <1>4, StartTells
  <2> HIDE DEF played
  <2>2. Agrees(played.state, played.seen) /\ Says(s.seen, played.seen)
    BY <1>3, <2>1 DEF Agrees, Says
  <2>3. s.state.tag \in Active /\ played.state.tag \in Active
    BY <2>1 DEF Active
  <2>4. QED
    BY <1>3, <1>5, <2>1, <2>2, <2>3, EventTold DEF Quiet
<1>7. Told(s, failed)
  <2>1. done.seen.status = "Loading" /\ done.seen.track = st.track
    BY <1>3, <1>5 DEF Quiet
  <2>2. failed = [done EXCEPT !.seen.status = "Unavailable"]
    BY <2>1 DEF send_event
  <2>3. /\ failed.state = done.state
        /\ failed.seen.status = "Unavailable"
        /\ failed.seen.track = done.seen.track
        /\ failed.seen.id = done.seen.id
        /\ failed.seen.announced = done.seen.announced
        /\ failed.generator = done.generator
        /\ failed.refused = done.refused
        /\ failed.preload = done.preload
    BY <1>4, <2>2 DEF Good, PlayerInternal, Listener
  <2> HIDE DEF failed
  <2>4. /\ failed.seen.track = st.track /\ failed.seen.id = st.id
        /\ failed.seen.announced = s.seen.announced
    BY <1>3, <1>5, <2>3 DEF Quiet
  <2>5. Agrees(failed.state, failed.seen)
    BY <1>5, <2>3, <2>4 DEF Agrees
  <2>6. Says(s.seen, failed.seen)
    BY <1>3, <2>3, <2>4 DEF Says
  <2>7. s.state.tag \in Active /\ failed.state.tag \in Active
    BY <1>5, <2>3 DEF Active
  <2>8. QED
    BY <1>3, <1>5, <2>3, <2>4, <2>5, <2>6, <2>7, EventTold DEF Quiet
<1>8. QED
  BY <1>6, <1>7 DEF done

\* A failed preload is reported, but not of the track at hand.
LEMMA PreloaderTold ==
  ASSUME NEW s, Good(s), Truthful(s)
  PROVE  LET none == [s EXCEPT !.preload = NoPreload]
         IN /\ Told(s, none)
            /\ s.state.tag \in {"Playing", "Paused"} =>
                 send_event(none, "Unavailable", s.preload.track, s.state.id)
                   = none
<1> DEFINE none == [s EXCEPT !.preload = NoPreload]
<1>1. /\ none.seen = s.seen /\ none.generator = s.generator
      /\ none.state = s.state /\ none.preload.loader # "terminated"
      /\ none.refused = s.refused
  BY DroppedQuietly
<1> HIDE DEF none
<1>2. Told(s, none)
  BY <1>1, SilenceTold
<1>3. s.state.tag \in {"Playing", "Paused"} => none.seen.status # "Loading"
  BY <1>1 DEF Truthful, Agrees
<1>4. none.seen.status # "Loading" =>
        send_event(none, "Unavailable", s.preload.track, s.state.id) = none
  BY DEF send_event
<1>5. QED
  BY <1>2, <1>3, <1>4 DEF none

\* A round of playback: the sink is started, or pauses the player and ends the
\* process; then a packet is played.
LEMMA PlaybackTold ==
  ASSUME NEW r, Good(r), Truthful(r), r.state.tag = "Playing",
         NEW packet \in Packet, NEW io \in PacketIO
  PROVE  LET s == ensure_sink_running(r, io)
             u == IF s.state.tag = "Playing" THEN handle_packet(s, packet, io)
                  ELSE [s EXCEPT !.exit = "poll"]
         IN Told(r, u) /\ u.state.tag # "Invalid"
<1> DEFINE s == ensure_sink_running(r, io)
           e == [s EXCEPT !.exit = "poll"]
           h == handle_packet(s, packet, io)
<1>1. io.start \in BOOLEAN /\ io.stop \in BOOLEAN
  BY DEF PacketIO
<1>2. Good(s)
  BY <1>1, SinkRunning
<1>3. \/ Quiet(r, s) /\ s.state = r.state
      \/ s = handle_pause(r, io)
  BY <1>1, SinkRunningTells
<1> HIDE DEF s
<1>4. CASE Quiet(r, s) /\ s.state = r.state
  <2>1. Told(r, s)
    BY <1>4, SilenceTold DEF Quiet, Truthful
  <2>2. Truthful(s) /\ s.state.tag = "Playing"
    BY <1>4, <2>1 DEF Told
  <2>3. Told(s, h) /\ h.state.tag # "Invalid"
    BY <1>2, <2>2, PacketTold
  <2> HIDE DEF h
  <2>4. s.seen = r.seen /\ s.refused = r.refused
    BY <1>4 DEF Quiet
  <2>5. Told(r, h)
    BY <2>3, <2>4 DEF Told
  <2>6. QED
    BY <2>2, <2>3, <2>5 DEF s, h
<1>5. CASE s = handle_pause(r, io)
  <2>1. Told(r, s)
    BY <1>1, <1>5, PauseTold
  <2>2. s.state.tag = "Paused"
    BY <1>1, <1>5, PauseTells
  <2>3. Quiet(s, e) /\ e.state = s.state
    BY <1>2 DEF Quiet, Good, PlayerInternal
  <2> HIDE DEF e
  <2>4. Truthful(e)
    BY <2>1, <2>3 DEF Told, Truthful, Counted, Follows, Quiet
  <2>5. Told(r, e)
    BY <2>1, <2>3, <2>4 DEF Told, Quiet
  <2>6. e.state.tag # "Invalid" /\ s.state.tag # "Playing"
    BY <2>2, <2>3
  <2>7. QED
    BY <2>5, <2>6 DEF s, e
<1>6. QED
  BY <1>3, <1>4, <1>5

\* Every step leaves a struct that tells the truth, and tells the listener of
\* at most one step of the protocol: one step of the proof per action.
LEMMA NextTruth ==
  ASSUME IInv, Truth, [Next]_vars
  PROVE  /\ Told(self, self')
         /\ self'.state.tag = "Invalid" =>
              pc' \in {"loader", "preload", "playback", "exited"}
<1>0. /\ Good(self) /\ Released(self) /\ Truthful(self)
      /\ pc \in {"command", "parked", "suggest", "finished"} =>
           self.state.tag # "Invalid"
  BY InvariantSplit DEF Truth
<1>0a. Told(self, self)
  BY <1>0, SilenceTold DEF Truthful
<1>1. ASSUME NEW cmd \in Command, NEW io \in CommandIO, PollCommand(cmd, io)
      PROVE  /\ Told(self, self')
             /\ pc' \in {"loader", "preload", "playback", "exited"}
  <2> DEFINE u == handle_command(self, cmd, io)
  <2>1. Told(self, u)
    BY <1>0, <1>1, CommandTold DEF PollCommand, WithinBound
  <2>2. self' = u /\ pc' \in {"loader", "exited"}
    BY <1>1 DEF PollCommand, Continue
  <2> HIDE DEF u
  <2>3. QED
    BY <2>1, <2>2
<1>2. CASE PollNoCommand \/ PollShutdown \/ Wake \/ DropPlayer
  <2>1. self' = self
    BY <1>2 DEF PollNoCommand, PollShutdown, Wake, DropPlayer
  <2>2. \/ pc \in {"command", "parked", "suggest", "finished"}
        \/ pc' = pc
    BY <1>2 DEF PollNoCommand, PollShutdown, Wake, DropPlayer
  <2>3. QED
    BY <1>0, <1>0a, <2>1, <2>2 DEF Truth
<1>3. ASSUME NEW io \in SinkIO, PollLoader(io)
      PROVE  /\ Told(self, self')
             /\ pc' \in {"loader", "preload", "playback", "exited"}
  <2> DEFINE st == self.state
             done == [self EXCEPT !.state.loader = "terminated"]
             played == start_playback(done, st.track, st.id, st.pos,
                                      st.start_playback, io)
             failed == send_event(done, "Unavailable", st.track, st.id)
  <2>1. pc' \in {"preload", "exited"}
    BY <1>3 DEF PollLoader, Continue
  <2>2. \/ self' = self
        \/ /\ st.tag = "Loading" /\ st.loader \in {"ok", "failed"}
           /\ self' \in {played, failed}
    BY <1>3 DEF PollLoader, Continue
  <2>3. (st.tag = "Loading" /\ st.loader \in {"ok", "failed"}) =>
          Told(self, played) /\ Told(self, failed)
    BY <1>0, LoaderTold
  <2> HIDE DEF played, failed, st
  <2>4. QED
    BY <1>0a, <2>1, <2>2, <2>3
<1>4. CASE PollPreload
  <2> DEFINE pl == self.preload
             ready == [self EXCEPT !.preload.tag = "Ready",
                                   !.preload.loader = "none"]
             none == [self EXCEPT !.preload = NoPreload]
             failed == send_event(none, "Unavailable", pl.track, self.state.id)
  <2>1. pc' \in {"playback", "exited"}
    BY <1>4 DEF PollPreload, Continue
  <2>2. \/ self' \in {self, ready, none}
        \/ self' = failed /\ self.state.tag \in {"Playing", "Paused"}
    BY <1>4 DEF PollPreload, Continue
  <2>3. /\ Told(self, none)
        /\ self.state.tag \in {"Playing", "Paused"} => failed = none
    BY <1>0, PreloaderTold
  <2>4. /\ ready.seen = self.seen /\ ready.generator = self.generator
        /\ ready.refused = self.refused /\ ready.state = self.state
        /\ ready.preload.loader # "terminated"
    BY <1>0 DEF Good, PlayerInternal, PlayerPreload
  <2> HIDE DEF ready, none, failed
  <2>5. Told(self, ready)
    BY <1>0, <2>4, SilenceTold
  <2>6. QED
    BY <1>0a, <2>1, <2>2, <2>3, <2>5
<1>5. CASE PollNotPlaying
  <2> DEFINE invalid == [self EXCEPT !.exit = "is_playing"]
  <2>1. \/ self' = self /\ self.state.tag # "Invalid"
        \/ self' = invalid /\ pc' = "exited"
    BY <1>5, <1>0 DEF PollNotPlaying, Continue, Good, PlayerInternal
  <2>2. /\ invalid.seen = self.seen /\ invalid.generator = self.generator
        /\ invalid.refused = self.refused /\ invalid.state = self.state
        /\ invalid.preload = self.preload
    BY <1>0 DEF Good, PlayerInternal
  <2> HIDE DEF invalid
  <2>3. Told(self, invalid)
    BY <1>0, <2>2, SilenceTold DEF Truthful
  <2>4. QED
    BY <1>0a, <2>1, <2>3
<1>6. ASSUME NEW packet \in Packet, NEW io \in PacketIO, PollPlayback(packet, io)
      PROVE  Told(self, self') /\ self'.state.tag # "Invalid"
  <2> DEFINE s == ensure_sink_running(self, io)
             u == IF s.state.tag = "Playing" THEN handle_packet(s, packet, io)
                  ELSE [s EXCEPT !.exit = "poll"]
  <2>1. self' = u /\ self.state.tag = "Playing"
    BY <1>6 DEF PollPlayback, Continue
  <2>2. Told(self, u) /\ u.state.tag # "Invalid"
    BY <1>0, <2>1, PlaybackTold
  <2> HIDE DEF u
  <2>3. QED
    BY <2>1, <2>2
<1>7. ASSUME NEW available \in BOOLEAN, PollSuggest(available)
      PROVE  Told(self, self') /\ self'.state.tag # "Invalid"
  <2> DEFINE m == [self EXCEPT !.state.suggested = TRUE]
  <2>1. (self' = m \/ self' = self) /\ self.state.tag # "Invalid"
    BY <1>0, <1>7 DEF PollSuggest, send_event
  <2>2. /\ Quiet(self, m) /\ m.state.tag = self.state.tag
        /\ m.state.track = self.state.track /\ m.state.id = self.state.id
        /\ m.state.loader = self.state.loader
    BY <1>0 DEF Quiet, Good, PlayerInternal, PlayerState
  <2> HIDE DEF m
  <2>3. Told(self, m)
    BY <1>0, <2>2, SilenceTold DEF Quiet, Truthful
  <2>4. QED
    BY <1>0a, <2>1, <2>2, <2>3
<1>8. ASSUME NEW result \in {"ok", "failed"}, NEW pos \in Position,
             LoaderFinishes(result, pos)
      PROVE  /\ Told(self, self') /\ self'.state.tag = self.state.tag
             /\ pc' = pc
  <2>1. pc' = pc /\ self.state.loader = "running"
    BY <1>8 DEF LoaderFinishes
  <2>2. /\ self'.seen = self.seen /\ self'.generator = self.generator
        /\ self'.refused = self.refused /\ self'.preload = self.preload
        /\ self'.state.tag = self.state.tag
        /\ self'.state.track = self.state.track
        /\ self'.state.id = self.state.id
        /\ self'.state.loader = result
    BY <1>0, <1>8 DEF LoaderFinishes, Good, PlayerInternal, PlayerState
  <2>3. Told(self, self')
    BY <1>0, <2>1, <2>2, SilenceTold DEF Truthful
  <2>4. QED
    BY <2>1, <2>2, <2>3
<1>9. ASSUME NEW result \in {"ok", "failed"}, NEW pos \in Position,
             PreloaderFinishes(result, pos)
      PROVE  /\ Told(self, self') /\ self'.state.tag = self.state.tag
             /\ pc' = pc
  <2>1. pc' = pc
    BY <1>9 DEF PreloaderFinishes
  <2>2. /\ self'.seen = self.seen /\ self'.generator = self.generator
        /\ self'.refused = self.refused /\ self'.state = self.state
        /\ self'.preload.loader = result
    BY <1>0, <1>9 DEF PreloaderFinishes, Good, PlayerInternal, PlayerPreload
  <2>3. Told(self, self')
    BY <1>0, <2>2, SilenceTold
  <2>4. QED
    BY <2>1, <2>2, <2>3
<1>10. CASE UNCHANGED vars
  BY <1>0a, <1>10 DEF vars, Truth
<1>11. QED
  BY <1>1, <1>2, <1>3, <1>4, <1>5, <1>6, <1>7, <1>8, <1>9, <1>10
  DEF Next, Poll, Commands, Loads, Truth

\* The player always tells its listeners the truth, and counts its requests.
THEOREM TruthHolds == Spec => []Truth
<1>1. IInv /\ Truth /\ [Next]_vars => Truth'
  <2> SUFFICES ASSUME IInv, Truth, [Next]_vars PROVE Truth'
    OBVIOUS
  <2>1. Truthful(self')
    BY NextTruth DEF Told
  <2>2. QED
    BY <2>1, NextTruth DEF Truth, Truthful, Agrees, Counted, Follows
<1>2. QED
  BY <1>1, InitTruth, Invariant, PTL DEF Spec

\* What the last playback event said of the request, the track and the transport
\* is what the player is doing (the send_event calls of player.rs), through every
\* order of commands, loads, packets and failures.
THEOREM ListenersAreTold == Spec => []ListenerAgrees
<1>1. Truth => ListenerAgrees
  BY DEF Truth, Truthful, Agrees, Active, ListenerAgrees, HasTrack
<1>2. QED
  BY <1>1, TruthHolds, PTL

\* The id that handle_command_load announces is the id of the state it leaves,
\* and the state is valid, unless the seek of the load failed.
THEOREM AnnouncedIdsAreFollowed == Spec => []OnlyRefusedLoadsDiverge
<1>1. Truth => OnlyRefusedLoadsDiverge
  BY DEF Truth, Truthful, Follows, Active, OnlyRefusedLoadsDiverge, HasTrack
<1>2. QED
  BY <1>1, TruthHolds, PTL

\* The play_request_id of the events never goes back, nor does the announced one
\* unless it undoes the announcement of a refused load.
THEOREM IdsGoForward == Spec => IdsNeverGoBack
<1>1. IInv /\ Truth /\ [Next]_vars =>
        [/\ self'.seen.id >= self.seen.id
         /\ self'.seen.announced >= self.seen.announced \/ self.refused]_vars
  <2> SUFFICES ASSUME IInv, Truth, [Next]_vars
               PROVE  /\ self'.seen.id >= self.seen.id
                      /\ \/ self'.seen.announced >= self.seen.announced
                         \/ self.refused
    OBVIOUS
  <2>1. QED
    BY NextTruth DEF Told
<1>2. QED
  BY <1>1, Invariant, TruthHolds, PTL DEF Spec, IdsNeverGoBack

\* The player implements the protocol of events its listeners rely on: what a
\* handler tells is a step of PlaybackProtocol or nothing.
THEOREM ImplementsProtocol == Spec => Protocol
<1>1. Init => P!PInit
  BY DEF Init, P!PInit, P!Silent
<1>2. IInv /\ IInv' /\ Truth /\ [Next]_vars => [P!PNext]_P!pvars
  <2> SUFFICES ASSUME IInv, IInv', Truth, [Next]_vars
               PROVE  P!PNext \/ UNCHANGED P!pvars
    OBVIOUS
  <2>1. Says(self.seen, self'.seen)
    BY NextTruth DEF Told
  <2>2. Good(self')
    BY DEF IInv, TypeOK, Good, StateOK, HasTrack
  <2>3. self'.seen.id \in Nat
    BY <2>2, Numbers
  <2>4. QED
    BY <2>1, <2>3
    DEF Says, P!PNext, P!Request, P!Silent, P!Same, P!Restart, P!Begin,
        P!BeginAgain, P!Toggle, P!End, P!Fail, P!Stop, P!pvars
<1>3. QED
  BY <1>1, <1>2, Invariant, TruthHolds, PTL DEF Spec, Protocol, P!PSpec
=============================================================================
