---------------------------- MODULE AirplayProofs ----------------------------
(***************************************************************************)
(* Proofs about the AirPlay receiver and the end of its event channel in   *)
(* the control API, for any number of connections, poll tasks and events   *)
(* that wait.                                                              *)
(***************************************************************************)
EXTENDS Airplay, TLAPS

Words == {"unknown", "yes", "no"}
Stops == {"none", "resolve", "status", "artwork", "volume", "sleep", "finished"}
Events == [e : {"SessionStarted", "SessionEnded", "PlaybackChanged",
                "VolumeChanged", "DacpAvailable", "TrackChanged",
                "CoverChanged", "ProgressChanged"},
           c : Conns, playing : Words, value : Int]

\* A task at an await without an answer has nothing, one that was not started
\* belongs to nobody, and one that ended by itself never reported.
PollType(t) ==
  /\ DOMAIN t = {"c", "info", "at", "has", "aborted", "playing", "track",
                 "volume", "late"}
  /\ t.late \in BOOLEAN
  /\ DOMAIN t.has = {"is", "playing", "track", "volume"}
  /\ t.has.playing \in Words /\ t.has.volume \in Int
  /\ t.at \in Stops /\ t.playing \in Words
  /\ t.at \in {"none", "sleep", "finished"} => t.has = Nothing
  /\ IF t.at = "none" THEN t.c = Nobody /\ ~t.aborted ELSE t.c \in Conns
  /\ t.at \in {"none", "resolve"} => t.playing = "unknown"
  /\ t.at = "finished" /\ ~t.aborted => t.playing = "unknown"

ConnTypes ==
  /\ DOMAIN conn = Conns /\ DOMAIN rec = Conns
  /\ \A c \in Conns :
       /\ DOMAIN conn[c] = {"st", "audio", "socket", "task", "info"}
       /\ DOMAIN rec[c] = {"st", "aborted", "out", "queue"}
       /\ rec[c].st \in {"none", "running", "ended"}
PollTypes == DOMAIN poll = Polls /\ \A p \in Polls : PollType(poll[p])
TaskTypes ==
  \A c \in Conns : conn[c].task # 0 =>
    conn[c].task \in Polls /\ poll[conn[c].task].at # "none"
ApiType == DOMAIN api = {"source", "onAir", "peer", "dacp", "playing",
                         "volume", "sent"}

AirplayTypes ==
  /\ ConnTypes /\ PollTypes /\ TaskTypes /\ ApiType
  /\ events \in Seq(Events)

-----------------------------------------------------------------------------
(* What a request does                                                     *)

\* The connection after the request has been answered.
Answered(c, s) ==
  /\ DOMAIN s = {"st", "audio", "socket", "task", "info"} /\ s.st = conn[c].st
  /\ s.task = conn[c].task /\ s.socket = conn[c].socket

\* What serve_connection does then.
Turn(c, s) ==
  \/ StartRecording(c, s)
  \/ StopRecording(c, s)
  \/ \E db \in {-300, 0} : SetVolume(c, s, db)
  \/ \E info \in {"none", "half", "a", "b"} : DacpInfoCaptured(c, s, info)
  \/ conn' = [conn EXCEPT ![c] = s] /\ UNCHANGED <<rec, poll, events, gain>>
  \/ \E e \in {"TrackChanged", "CoverChanged", "ProgressChanged"} :
       /\ conn' = [conn EXCEPT ![c] = s] /\ Tell(<<Event(e, c)>>)
       /\ UNCHANGED <<rec, poll, gain>>

LEMMA RequestTurns ==
  ASSUME NEW c \in Conns, ConnTypes, Request(c)
  PROVE  /\ conn[c].st = "open" /\ UNCHANGED api
         /\ \E s : Answered(c, s) /\ Turn(c, s)
<1>1. PICK r \in RtspRequests :
        LET s == HandleAnnounce(conn[c], r)
            action == HandleRequest(s, r)
        IN /\ conn[c].st = "open"
           /\ CASE action = "StartRecording" -> StartRecording(c, s)
                [] action = "StopRecording" -> StopRecording(c, s)
                [] action = "SetVolume" -> SetVolume(c, s, r.db)
                [] action = "DacpInfoCaptured" -> DacpInfoCaptured(c, s, r.info)
                [] action = "none" -> /\ conn' = [conn EXCEPT ![c] = s]
                                      /\ UNCHANGED <<rec, poll, events, gain>>
                [] OTHER -> /\ conn' = [conn EXCEPT ![c] = s]
                            /\ Tell(<<Event(Pushed(action), c)>>)
                            /\ UNCHANGED <<rec, poll, gain>>
           /\ UNCHANGED api
  BY DEF Request
<1> DEFINE s == HandleAnnounce(conn[c], r)
           action == HandleRequest(s, r)
<1>2. /\ DOMAIN s = DOMAIN conn[c] /\ s.st = conn[c].st
      /\ s.task = conn[c].task /\ s.socket = conn[c].socket
  BY DEF ConnTypes, HandleAnnounce
<1>3. r.m \in {"ANNOUNCE", "RECORD", "TEARDOWN", "SETUP", "SET_PARAMETER",
               "OPTIONS"}
  BY DEF RtspRequests
<1>4. /\ action \in {"none", "StartRecording", "StopRecording", "SetVolume",
                     "DacpInfoCaptured", "MetadataReported", "CoverReported",
                     "ProgressReported"}
      /\ action = "SetVolume" => r.m = "SET_PARAMETER"
      /\ action = "DacpInfoCaptured" => r.m = "SETUP"
  BY <1>3 DEF HandleRequest, HandleSetup, HandleSetParameter
<1>5. r.m = "SET_PARAMETER" => r.db \in {-300, 0}
  BY DEF RtspRequests
<1>6. r.m = "SETUP" => r.info \in {"none", "half", "a", "b"}
  BY DEF RtspRequests, Headers
<1> HIDE DEF s, action
<1>7. Turn(c, s)
  <2>1. CASE action \in {"MetadataReported", "CoverReported",
                         "ProgressReported"}
    <3>1. Pushed(action) \in {"TrackChanged", "CoverChanged", "ProgressChanged"}
      BY <2>1 DEF Pushed
    <3>2. /\ conn' = [conn EXCEPT ![c] = s] /\ Tell(<<Event(Pushed(action), c)>>)
          /\ UNCHANGED <<rec, poll, gain>>
      BY <1>1, <2>1 DEF s, action
    <3>3. QED
      BY <3>1, <3>2 DEF Turn
  <2>2. CASE action = "SetVolume"
    <3>1. SetVolume(c, s, r.db)
      BY <1>1, <2>2 DEF s, action
    <3>2. QED
      BY <1>4, <1>5, <2>2, <3>1 DEF Turn
  <2>3. CASE action = "DacpInfoCaptured"
    <3>1. DacpInfoCaptured(c, s, r.info)
      BY <1>1, <2>3 DEF s, action
    <3>2. QED
      BY <1>4, <1>6, <2>3, <3>1 DEF Turn
  <2>4. CASE action \in {"none", "StartRecording", "StopRecording"}
    BY <1>1, <2>4 DEF s, action, Turn
  <2>5. QED
    BY <1>4, <2>1, <2>2, <2>3, <2>4
<1>8. QED
  BY <1>1, <1>2, <1>7 DEF Answered, ConnTypes

-----------------------------------------------------------------------------
(* The event channel                                                       *)

LEMMA TellOne ==
  ASSUME events \in Seq(Events), NEW e \in Events, Tell(<<e>>)
  PROVE  /\ events' \in Seq(Events) /\ Len(events') = Len(events) + 1
         /\ \A i \in 1..Len(events) : events'[i] = events[i]
         /\ events'[Len(events) + 1] = e
BY DEF Tell

LEMMA TellTwo ==
  ASSUME events \in Seq(Events), NEW d \in Events, NEW e \in Events,
         Tell(<<d, e>>)
  PROVE  /\ events' \in Seq(Events) /\ Len(events') = Len(events) + 2
         /\ \A i \in 1..Len(events) : events'[i] = events[i]
         /\ events'[Len(events) + 1] = d /\ events'[Len(events) + 2] = e
BY DEF Tell

\* The events that are told.
LEMMA EventTypes ==
  ASSUME NEW c \in Conns
  PROVE  /\ \A e \in {"SessionStarted", "SessionEnded", "DacpAvailable",
                      "TrackChanged", "CoverChanged", "ProgressChanged"} :
              Event(e, c) \in Events /\ Event(e, c).e = e /\ Event(e, c).c = c
         /\ \A is \in Words : /\ Playing(c, is) \in Events
                              /\ Playing(c, is).e = "PlaybackChanged"
                              /\ Playing(c, is).c = c
                              /\ Playing(c, is).playing = is
         /\ \A v \in Int : /\ Volume(c, v) \in Events
                           /\ Volume(c, v).e = "VolumeChanged"
BY DEF Event, Playing, Volume, Events, Words

-----------------------------------------------------------------------------
(* The poll tasks                                                          *)

\* A step of the task p makes it x: it stays its connection's, it is not
\* started or aborted by it, and it tells what it has taken over.
PollBecomes(p, x) ==
  /\ poll' = [poll EXCEPT ![p] = x] /\ PollType(x)
  /\ x.c = poll[p].c /\ x.c \in Conns /\ x.aborted = poll[p].aborted
  /\ x.at # "none" /\ poll[p].at \notin {"none", "finished"}
  /\ poll[p].late => x.late
  /\ \/ UNCHANGED events /\ x.playing = poll[p].playing
     \/ \E e \in Events :
          /\ e.e \in {"DacpAvailable", "TrackChanged", "VolumeChanged"}
          /\ Tell(<<e>>) /\ x.playing = poll[p].playing
     \/ /\ x.playing # "unknown" /\ Tell(<<Playing(x.c, x.playing)>>)
        /\ x.playing = "yes" /\ EndTold(x.c) => x.late

LEMMA PollAnsweredBecomes ==
  ASSUME PollTypes, NEW p \in Polls, PollAnswered(p)
  PROVE  \E x : PollBecomes(p, x)
<1> DEFINE t == poll[p]
<1>1. PollType(t) /\ t.at \in {"resolve", "status", "artwork", "volume", "sleep"}
      /\ ~t.aborted /\ t.has = Nothing /\ UNCHANGED events
  BY DEF PollTypes, PollAnswered
<1>2. ASSUME NEW x, poll' = [poll EXCEPT ![p] = x], PollType(x), x.c = t.c,
             x.aborted = t.aborted, x.at # "none", x.playing = t.playing,
             x.late = t.late
      PROVE  \E y : PollBecomes(p, y)
  <2>1. t.c \in Conns
    BY <1>1 DEF PollType
  <2>2. PollBecomes(p, x)
    BY <1>1, <1>2, <2>1 DEF PollBecomes
  <2>3. QED
    BY <2>2
<1>3. ASSUME NEW at \in {"finished", "sleep", "status"},
             poll' = [poll EXCEPT ![p].at = at],
             at = "finished" => t.at = "resolve"
      PROVE  \E y : PollBecomes(p, y)
  <2> DEFINE x == [t EXCEPT !.at = at]
  <2>1. poll' = [poll EXCEPT ![p] = x]
    BY <1>3 DEF PollTypes
  <2>2. /\ PollType(x) /\ x.c = t.c /\ x.aborted = t.aborted /\ x.at # "none"
        /\ x.playing = t.playing /\ x.late = t.late
    BY <1>1, <1>3 DEF PollType, Stops
  <2> HIDE DEF x
  <2>3. QED
    BY <1>2, <2>1, <2>2
<1>4. ASSUME NEW h, poll' = [poll EXCEPT ![p].has = h],
             DOMAIN h = {"is", "playing", "track", "volume"},
             h.playing \in Words, h.volume \in Int, t.at # "sleep"
      PROVE  \E y : PollBecomes(p, y)
  <2> DEFINE x == [t EXCEPT !.has = h]
  <2>1. poll' = [poll EXCEPT ![p] = x]
    BY <1>4 DEF PollTypes
  <2>2. /\ PollType(x) /\ x.c = t.c /\ x.aborted = t.aborted /\ x.at # "none"
        /\ x.playing = t.playing /\ x.late = t.late
    BY <1>1, <1>4 DEF PollType, Stops
  <2> HIDE DEF x
  <2>3. QED
    BY <1>2, <2>1, <2>2
<1>5. CASE t.at = "resolve"
  <2>1. CASE poll' = [poll EXCEPT ![p].at = "finished"]
    BY <1>3, <1>5, <2>1
  <2>2. CASE poll' = [poll EXCEPT ![p].has.is = "port"]
    <3> DEFINE h == [t.has EXCEPT !.is = "port"]
    <3>1. poll' = [poll EXCEPT ![p].has = h]
      BY <2>2
    <3>2. /\ DOMAIN h = {"is", "playing", "track", "volume"}
          /\ h.playing \in Words /\ h.volume \in Int
      BY <1>1 DEF PollType
    <3> HIDE DEF h
    <3>3. QED
      BY <1>4, <1>5, <3>1, <3>2
  <2>3. QED
    BY <1>5, <2>1, <2>2 DEF PollAnswered
<1>6. CASE t.at = "status"
  <2>1. CASE poll' = [poll EXCEPT ![p].at = "sleep"]
    BY <1>3, <2>1
  <2>2. ASSUME NEW a \in DacpAnswers, NEW k \in Titles, NEW is \in Words,
               poll' = [poll EXCEPT ![p].has = PollStatus(a, is, k)]
        PROVE  \E y : PollBecomes(p, y)
    <3> DEFINE h == PollStatus(a, is, k)
    <3>1. /\ DOMAIN h = {"is", "playing", "track", "volume"}
          /\ h.playing \in Words /\ h.volume \in Int
      BY DEF PollStatus, Nothing, Words
    <3> HIDE DEF h
    <3>2. QED
      BY <1>4, <1>6, <2>2, <3>1 DEF h
  <2>3. \/ poll' = [poll EXCEPT ![p].at = "sleep"]
        \/ \E a \in DacpAnswers, k \in Titles, is \in Words :
             poll' = [poll EXCEPT ![p].has = PollStatus(a, is, k)]
    BY <1>6 DEF PollAnswered, Words
  <2>4. QED
    BY <2>1, <2>2, <2>3
<1>7. CASE t.at = "artwork"
  <2>1. PICK is : poll' = [poll EXCEPT ![p].has.is = is]
    BY <1>7 DEF PollAnswered
  <2> DEFINE h == [t.has EXCEPT !.is = is]
  <2>2. poll' = [poll EXCEPT ![p].has = h]
    BY <2>1
  <2>3. /\ DOMAIN h = {"is", "playing", "track", "volume"}
        /\ h.playing \in Words /\ h.volume \in Int
    BY <1>1 DEF PollType
  <2> HIDE DEF h
  <2>4. QED
    BY <1>4, <1>7, <2>2, <2>3
<1>8. CASE t.at = "volume"
  <2>1. PICK a \in DacpAnswers, w \in Levels :
          poll' = [poll EXCEPT ![p].has.is = "volume",
                               ![p].has.volume = GetVolume(a, w)]
    BY <1>8 DEF PollAnswered
  <2> DEFINE v == GetVolume(a, w)
             h == [[t.has EXCEPT !.is = "volume"] EXCEPT !.volume = v]
  <2>2. v \in Int
    BY DEF GetVolume
  <2> HIDE DEF v
  <2>3. poll' = [poll EXCEPT ![p].has = h]
    BY <1>1, <2>1 DEF v, PollTypes, PollType
  <2>4. /\ DOMAIN h = {"is", "playing", "track", "volume"}
        /\ h.playing \in Words /\ h.volume \in Int
    BY <1>1, <2>2 DEF PollType
  <2> HIDE DEF h
  <2>5. QED
    BY <1>4, <1>8, <2>3, <2>4
<1>9. CASE t.at = "sleep"
  BY <1>3, <1>9 DEF PollAnswered
<1>10. QED
  BY <1>1, <1>5, <1>6, <1>7, <1>8, <1>9

LEMMA PollRunsBecomes ==
  ASSUME PollTypes, NEW p \in Polls, PollRuns(p)
  PROVE  \E x : PollBecomes(p, x)
<1> DEFINE t == poll[p]
           fresh == t.has.track # 0 /\ t.has.track # t.track
           same == t.has.playing = "unknown" \/ t.has.playing = t.playing
           late == ~same /\ t.has.playing = "yes" /\ EndTold(t.c)
           goes(at) == [t EXCEPT !.at = at, !.has = Nothing]
<1>1. /\ PollType(t) /\ t.has # Nothing
      /\ t.at \in {"resolve", "status", "artwork", "volume"} /\ t.c \in Conns
  BY DEF PollTypes, PollRuns, PollType, Stops
<1>2. \A at \in {"status", "artwork", "volume", "sleep"} :
        /\ PollType(goes(at)) /\ goes(at).c = t.c /\ goes(at).at = at
        /\ goes(at).aborted = t.aborted /\ goes(at).playing = t.playing
        /\ goes(at).late = t.late
  BY <1>1 DEF PollType, Stops, Nothing, Words
<1>3. CASE t.at = "resolve"
  <2>1. poll' = [poll EXCEPT ![p] = goes("status")]
        /\ Tell(<<Event("DacpAvailable", t.c)>>)
    BY <1>3 DEF PollRuns
  <2>2. /\ Event("DacpAvailable", t.c) \in Events
        /\ Event("DacpAvailable", t.c).e = "DacpAvailable"
    BY <1>1, EventTypes
  <2> HIDE DEF goes
  <2>3. PollBecomes(p, goes("status"))
    BY <1>1, <1>2, <2>1, <2>2 DEF PollBecomes
  <2>4. QED
    BY <2>3
<1>4. CASE t.at = "artwork"
  <2>1. poll' = [poll EXCEPT ![p] = goes("volume")]
        /\ Tell(<<Event("TrackChanged", t.c)>>)
    BY <1>4 DEF PollRuns
  <2>2. /\ Event("TrackChanged", t.c) \in Events
        /\ Event("TrackChanged", t.c).e = "TrackChanged"
    BY <1>1, EventTypes
  <2> HIDE DEF goes
  <2>3. PollBecomes(p, goes("volume"))
    BY <1>1, <1>2, <2>1, <2>2 DEF PollBecomes
  <2>4. QED
    BY <2>3
<1>5. CASE t.at = "volume"
  <2>1. CASE t.has.volume \in {-1, t.volume}
    <3>1. poll' = [poll EXCEPT ![p] = goes("sleep")] /\ UNCHANGED events
      BY <1>5, <2>1 DEF PollRuns
    <3> HIDE DEF goes
    <3>2. PollBecomes(p, goes("sleep"))
      BY <1>1, <1>2, <3>1 DEF PollBecomes
    <3>3. QED
      BY <3>2
  <2>2. CASE t.has.volume \notin {-1, t.volume}
    <3> DEFINE x == [goes("sleep") EXCEPT !.volume = t.has.volume]
    <3>1. poll' = [poll EXCEPT ![p] = x] /\ Tell(<<Volume(t.c, t.has.volume)>>)
      BY <1>5, <2>2 DEF PollRuns
    <3>2. /\ Volume(t.c, t.has.volume) \in Events
          /\ Volume(t.c, t.has.volume).e = "VolumeChanged"
      BY <1>1, EventTypes DEF PollType
    <3> HIDE DEF goes
    <3>3. /\ PollType(x) /\ x.c = t.c /\ x.at = "sleep"
          /\ x.aborted = t.aborted /\ x.playing = t.playing
          /\ x.late = t.late
      BY <1>2 DEF PollType
    <3> HIDE DEF x
    <3>4. PollBecomes(p, x)
      BY <1>1, <3>1, <3>2, <3>3 DEF PollBecomes
    <3>5. QED
      BY <3>4
  <2>3. QED
    BY <2>1, <2>2
<1>6. CASE t.at = "status"
  <2> DEFINE g == goes(IF fresh THEN "artwork" ELSE "volume")
             x == [g EXCEPT !.playing = IF same THEN @ ELSE t.has.playing,
                            !.track = IF fresh THEN t.has.track ELSE @,
                            !.late = @ \/ late]
  <2>1. /\ poll' = [poll EXCEPT ![p] = x]
        /\ IF same THEN UNCHANGED events
           ELSE Tell(<<Playing(t.c, t.has.playing)>>)
    BY <1>6 DEF PollRuns
  <2>2. /\ PollType(g) /\ g.c = t.c /\ g.at \in {"artwork", "volume"}
        /\ g.aborted = t.aborted /\ g.playing = t.playing
        /\ g.late = t.late
    BY <1>2
  <2> HIDE DEF g
  <2>3. /\ PollType(x) /\ x.c = t.c /\ x.at \in {"artwork", "volume"}
        /\ x.aborted = t.aborted
        /\ x.playing = IF same THEN t.playing ELSE t.has.playing
        /\ x.late = (t.late \/ late)
    BY <1>1, <2>2 DEF PollType
  <2>4. PollBecomes(p, x)
    <3> HIDE DEF x
    <3>1. CASE same
      BY <1>1, <1>6, <2>1, <2>3, <3>1 DEF PollBecomes
    <3>2. CASE ~same
      BY <1>1, <1>6, <2>1, <2>3, <3>2 DEF PollBecomes
    <3>3. QED
      BY <3>1, <3>2
  <2>5. QED
    BY <2>4
<1>7. QED
  BY <1>1, <1>3, <1>4, <1>5, <1>6

LEMMA PollCancelledBecomes ==
  ASSUME PollTypes, NEW p \in Polls, PollCancelled(p)
  PROVE  \E x : PollBecomes(p, x)
<1> DEFINE t == poll[p]
           x == [t EXCEPT !.at = "finished"]
<1>1. /\ PollType(t) /\ t.aborted /\ t.has = Nothing /\ t.at # "finished"
      /\ UNCHANGED events
  BY DEF PollTypes, PollCancelled, Finished
<1>2. t.at # "none" /\ t.c \in Conns
  BY <1>1 DEF PollType
<1>3. poll' = [poll EXCEPT ![p] = x]
  BY DEF PollCancelled, PollTypes
<1>4. /\ PollType(x) /\ x.c = t.c /\ x.aborted = t.aborted
      /\ x.at = "finished" /\ x.playing = t.playing /\ x.late = t.late
  BY <1>1, <1>2 DEF PollType, Stops
<1> HIDE DEF x
<1>5. PollBecomes(p, x)
  BY <1>1, <1>2, <1>3, <1>4 DEF PollBecomes
<1>6. QED
  BY <1>5

\* A step of one of the tasks.
LEMMA PollSteps ==
  ASSUME PollTypes, NEW p \in Polls,
         PollAnswered(p) \/ PollRuns(p) \/ PollCancelled(p)
  PROVE  /\ UNCHANGED <<conn, rec, api>>
         /\ \E x : PollBecomes(p, x)
<1>1. UNCHANGED <<conn, rec, api>>
  BY DEF PollAnswered, PollRuns, PollCancelled
<1>2. QED
  BY <1>1, PollAnsweredBecomes, PollRunsBecomes, PollCancelledBecomes

\* An abort of a connection's task, which was started.
LEMMA AbortKeeps ==
  ASSUME PollTypes, NEW k, k # 0 => k \in Polls /\ poll[k].at # "none"
  PROVE  /\ DOMAIN Aborted(poll, k) = Polls
         /\ \A p \in Polls :
              /\ PollType(Aborted(poll, k)[p])
              /\ Aborted(poll, k)[p].c = poll[p].c
              /\ Aborted(poll, k)[p].at = poll[p].at
              /\ Aborted(poll, k)[p].playing = poll[p].playing
              /\ Aborted(poll, k)[p].late = poll[p].late
              /\ p = k => Aborted(poll, k)[p].aborted
              /\ p # k => Aborted(poll, k)[p].aborted = poll[p].aborted
<1>1. CASE k = 0
  <2>1. k \notin Polls
    BY <1>1, PollsAssumption DEF Polls
  <2>2. QED
    BY <1>1, <2>1 DEF Aborted, PollTypes
<1>2. CASE k # 0
  <2> DEFINE x == [poll[k] EXCEPT !.aborted = TRUE]
  <2>1. Aborted(poll, k) = [poll EXCEPT ![k] = x]
    BY <1>2 DEF Aborted, PollTypes
  <2>2. /\ PollType(x) /\ x.c = poll[k].c /\ x.at = poll[k].at /\ x.aborted
        /\ x.playing = poll[k].playing /\ x.late = poll[k].late
    BY <1>2 DEF PollTypes, PollType
  <2> HIDE DEF x
  <2>3. QED
    BY <1>2, <2>1, <2>2 DEF PollTypes
<1>3. QED
  BY <1>1, <1>2

-----------------------------------------------------------------------------
(* Types                                                                   *)

\* Connection c becomes s, with the task it had or none.
LEMMA ConnChanges ==
  ASSUME ConnTypes, TaskTypes, NEW c \in Conns, NEW s,
         conn' = [conn EXCEPT ![c] = s],
         DOMAIN s = {"st", "audio", "socket", "task", "info"},
         s.task \in {0, conn[c].task}, UNCHANGED rec, PollTypes,
         \A p \in Polls : poll[p].at # "none" => poll'[p].at # "none"
  PROVE  ConnTypes' /\ TaskTypes'
BY DEF ConnTypes, TaskTypes

LEMMA RecChanges ==
  ASSUME ConnTypes, NEW c \in Conns, NEW x, rec' = [rec EXCEPT ![c] = x],
         DOMAIN x = {"st", "aborted", "out", "queue"},
         x.st \in {"none", "running", "ended"}, DOMAIN conn' = Conns,
         \A d \in Conns :
           DOMAIN conn'[d] = {"st", "audio", "socket", "task", "info"}
  PROVE  ConnTypes'
BY DEF ConnTypes

LEMMA StartRecordingTypes ==
  ASSUME AirplayTypes, NEW c \in Conns, NEW s, Answered(c, s),
         StartRecording(c, s), UNCHANGED api
  PROVE  AirplayTypes'
<1> USE DEF AirplayTypes
<1> DEFINE s2 == [s EXCEPT !.socket = FALSE, !.audio = @ /\ ~s.socket]
<1>1. conn' = [conn EXCEPT ![c] = s2] /\ UNCHANGED poll
  BY DEF StartRecording
<1>2. /\ DOMAIN s2 = {"st", "audio", "socket", "task", "info"}
      /\ s2.task = conn[c].task
  BY DEF Answered
<1> HIDE DEF s2
<1>3. DOMAIN conn' = Conns /\ TaskTypes' /\ \A d \in Conns :
           DOMAIN conn'[d] = {"st", "audio", "socket", "task", "info"}
  BY <1>1, <1>2 DEF ConnTypes, TaskTypes
<1>4. CASE s.socket
  <2> DEFINE x == [rec[c] EXCEPT !.st = "running"]
  <2>1. rec' = [rec EXCEPT ![c] = x] /\ Tell(<<Playing(c, "yes")>>)
    BY <1>4 DEF StartRecording
  <2>2. DOMAIN x = {"st", "aborted", "out", "queue"} /\ x.st = "running"
    BY DEF ConnTypes
  <2> HIDE DEF x
  <2>3. ConnTypes'
    BY <1>3, <2>1, <2>2, RecChanges
  <2>4. Playing(c, "yes") \in Events
    BY EventTypes DEF Words
  <2>5. events' \in Seq(Events)
    BY <2>1, <2>4, TellOne
  <2>6. QED
    BY <1>1, <1>3, <2>3, <2>5 DEF PollTypes, ApiType
<1>5. CASE ~s.socket
  <2>1. UNCHANGED <<rec, events>>
    BY <1>5 DEF StartRecording
  <2>2. QED
    BY <1>1, <1>3, <2>1 DEF ConnTypes, PollTypes, ApiType
<1>6. QED
  BY <1>4, <1>5

LEMMA StopRecordingTypes ==
  ASSUME AirplayTypes, NEW c \in Conns, NEW s, Answered(c, s),
         StopRecording(c, s), UNCHANGED api
  PROVE  AirplayTypes'
<1> USE DEF AirplayTypes
<1> DEFINE s2 == [s EXCEPT !.task = 0]
           x == [rec[c] EXCEPT !.aborted = @ \/ rec[c].st = "running"]
<1>1. /\ conn' = [conn EXCEPT ![c] = s2] /\ rec' = [rec EXCEPT ![c] = x]
      /\ poll' = Aborted(poll, conn[c].task)
      /\ Tell(<<Playing(c, "no"), Event("SessionEnded", c)>>)
  BY DEF StopRecording, Answered
<1>2. DOMAIN s2 = {"st", "audio", "socket", "task", "info"} /\ s2.task = 0
  BY DEF Answered
<1>3. /\ DOMAIN x = {"st", "aborted", "out", "queue"}
      /\ x.st \in {"none", "running", "ended"}
  BY DEF ConnTypes
<1> HIDE DEF s2, x
<1>4. PollTypes' /\ \A p \in Polls : poll'[p].at = poll[p].at
  <2>1. conn[c].task # 0 =>
          conn[c].task \in Polls /\ poll[conn[c].task].at # "none"
    BY DEF TaskTypes
  <2>2. QED
    BY <1>1, <2>1, AbortKeeps DEF PollTypes
<1>5. DOMAIN conn' = Conns /\ TaskTypes' /\ \A d \in Conns :
           DOMAIN conn'[d] = {"st", "audio", "socket", "task", "info"}
  BY <1>1, <1>2, <1>4 DEF ConnTypes, TaskTypes
<1>6. ConnTypes'
  BY <1>1, <1>3, <1>5, RecChanges
<1>7. Playing(c, "no") \in Events /\ Event("SessionEnded", c) \in Events
  BY EventTypes DEF Words
<1>8. events' \in Seq(Events)
  BY <1>1, <1>7, TellTwo
<1>9. QED
  BY <1>4, <1>5, <1>6, <1>8 DEF ApiType

\* A task that is started is the next one.
StartedPoll(q, c, x) ==
  /\ PollType(x) /\ x.c = c /\ x.at = "resolve" /\ ~x.aborted
  /\ q \in Polls /\ poll[q].at = "none"

LEMMA StartPollStarts ==
  ASSUME NEW c \in Conns, NEW s, Answered(c, s), NEW info, NEW ps,
         StartPoll(ps, c, s, info)
  PROVE  /\ UNCHANGED <<rec, events>>
         /\ \E q, x, s2 :
              /\ StartedPoll(q, c, x) /\ poll' = [ps EXCEPT ![q] = x]
              /\ DOMAIN s2 = {"st", "audio", "socket", "task", "info"}
              /\ s2.st = conn[c].st /\ s2.task = q /\ s2.socket = conn[c].socket
              /\ conn' = [conn EXCEPT ![c] = s2]
<1>1. PICK q \in Polls :
        /\ poll[q].at = "none"
        /\ poll' = [ps EXCEPT ![q] = [NoPoll EXCEPT !.c = c, !.info = info,
                                                   !.at = "resolve"]]
        /\ conn' = [conn EXCEPT ![c] = [s EXCEPT !.info = info, !.task = q]]
        /\ UNCHANGED <<rec, events>>
  BY DEF StartPoll
<1> DEFINE x == [NoPoll EXCEPT !.c = c, !.info = info, !.at = "resolve"]
           s2 == [s EXCEPT !.info = info, !.task = q]
<1>2. StartedPoll(q, c, x)
  BY <1>1 DEF StartedPoll, PollType, NoPoll, Nothing, Stops, Words
<1>3. /\ DOMAIN s2 = {"st", "audio", "socket", "task", "info"}
      /\ s2.st = conn[c].st /\ s2.task = q /\ s2.socket = conn[c].socket
  BY DEF Answered
<1> HIDE DEF x, s2
<1>4. poll' = [ps EXCEPT ![q] = x] /\ conn' = [conn EXCEPT ![c] = s2]
  BY <1>1 DEF x, s2
<1>5. \E y, s3 :
        /\ StartedPoll(q, c, y) /\ poll' = [ps EXCEPT ![q] = y]
        /\ DOMAIN s3 = {"st", "audio", "socket", "task", "info"}
        /\ s3.st = conn[c].st /\ s3.task = q /\ s3.socket = conn[c].socket
        /\ conn' = [conn EXCEPT ![c] = s3]
  BY <1>2, <1>3, <1>4
<1>6. QED
  BY <1>1, <1>5

LEMMA StartPollTypes ==
  ASSUME AirplayTypes, NEW c \in Conns, NEW s, Answered(c, s), NEW info,
         StartPoll(Aborted(poll, s.task), c, s, info), UNCHANGED api
  PROVE  AirplayTypes'
<1> USE DEF AirplayTypes
<1> DEFINE ps == Aborted(poll, s.task)
<1>1. PICK q, x, s2 :
        /\ StartedPoll(q, c, x) /\ poll' = [ps EXCEPT ![q] = x]
        /\ DOMAIN s2 = {"st", "audio", "socket", "task", "info"}
        /\ s2.task = q /\ conn' = [conn EXCEPT ![c] = s2]
  BY StartPollStarts
<1>2. UNCHANGED <<rec, events>>
  BY DEF StartPoll
<1>3. /\ DOMAIN ps = Polls
      /\ \A p \in Polls : PollType(ps[p]) /\ ps[p].at = poll[p].at
  <2>1. s.task # 0 => s.task \in Polls /\ poll[s.task].at # "none"
    BY DEF Answered, TaskTypes
  <2>2. QED
    BY <2>1, AbortKeeps
<1> HIDE DEF ps
<1>4. PollTypes' /\ \A p \in Polls : poll[p].at # "none" => poll'[p].at # "none"
  BY <1>1, <1>3 DEF PollTypes, StartedPoll
<1>5. ConnTypes' /\ TaskTypes'
  BY <1>1, <1>2, <1>3, <1>4 DEF ConnTypes, TaskTypes, StartedPoll
<1>6. QED
  BY <1>2, <1>4, <1>5 DEF ApiType

LEMMA TurnTypes ==
  ASSUME AirplayTypes, NEW c \in Conns, NEW s, Answered(c, s), Turn(c, s),
         UNCHANGED api
  PROVE  AirplayTypes'
<1> USE DEF AirplayTypes
<1>1. ASSUME conn' = [conn EXCEPT ![c] = s], UNCHANGED <<rec, poll>>,
             events' \in Seq(Events)
      PROVE  AirplayTypes'
  <2>1. ConnTypes' /\ TaskTypes'
    BY <1>1, ConnChanges DEF Answered
  <2>2. QED
    BY <1>1, <2>1 DEF PollTypes, ApiType
<1>2. ASSUME NEW db \in {-300, 0}, SetVolume(c, s, db) PROVE AirplayTypes'
  <2>1. PercentFromDb(db) \in Int
    BY DEF PercentFromDb
  <2>2. Volume(c, PercentFromDb(db)) \in Events
    BY <2>1, EventTypes
  <2>3. events' \in Seq(Events)
    BY <1>2, <2>2, TellOne DEF SetVolume
  <2>4. QED
    BY <1>1, <1>2, <2>3 DEF SetVolume
<1>3. ASSUME NEW info, DacpInfoCaptured(c, s, info) PROVE AirplayTypes'
  BY <1>1, <1>3, StartPollTypes DEF DacpInfoCaptured
<1>4. ASSUME NEW e \in {"TrackChanged", "CoverChanged", "ProgressChanged"},
             conn' = [conn EXCEPT ![c] = s], Tell(<<Event(e, c)>>),
             UNCHANGED <<rec, poll>>
      PROVE  AirplayTypes'
  <2>1. Event(e, c) \in Events
    BY EventTypes
  <2>2. events' \in Seq(Events)
    BY <1>4, <2>1, TellOne
  <2>3. QED
    BY <1>1, <1>4, <2>2
<1>5. QED
  BY <1>1, <1>2, <1>3, <1>4, StartRecordingTypes, StopRecordingTypes DEF Turn

LEMMA PollStepTypes ==
  ASSUME AirplayTypes, NEW p \in Polls, NEW x, PollBecomes(p, x),
         UNCHANGED <<conn, rec, api>>
  PROVE  AirplayTypes'
<1> USE DEF AirplayTypes
<1>1. PollTypes' /\ \A q \in Polls : poll[q].at # "none" => poll'[q].at # "none"
  BY DEF PollBecomes, PollTypes
<1>2. ConnTypes' /\ TaskTypes' /\ ApiType'
  BY <1>1 DEF ConnTypes, TaskTypes, ApiType
<1>3. events' \in Seq(Events)
  <2>1. x.playing \in Words /\ x.c \in Conns
    BY DEF PollBecomes, PollType
  <2>2. Playing(x.c, x.playing) \in Events
    BY <2>1, EventTypes
  <2>3. QED
    BY <2>2, TellOne DEF PollBecomes
<1>4. QED
  BY <1>1, <1>2, <1>3

LEMMA AirplayTypesKept ==
  ASSUME AirplayTypes, [AirplayNext]_airplayVars
  PROVE  AirplayTypes'
<1> USE DEF AirplayTypes
<1>1. ASSUME NEW c \in Conns, Accept(c) \/ ConnectionEnds(c)
      PROVE  AirplayTypes'
  <2>1. PICK st : conn' = [conn EXCEPT ![c].st = st]
    BY <1>1 DEF Accept, ConnectionEnds
  <2> DEFINE s == [conn[c] EXCEPT !.st = st]
  <2>2. conn' = [conn EXCEPT ![c] = s]
    BY <2>1 DEF ConnTypes
  <2>3. /\ DOMAIN s = {"st", "audio", "socket", "task", "info"}
        /\ s.task = conn[c].task
    BY DEF ConnTypes
  <2> HIDE DEF s
  <2>4. UNCHANGED <<rec, poll, api>>
    BY <1>1 DEF Accept, ConnectionEnds
  <2>5. ConnTypes' /\ TaskTypes'
    BY <2>2, <2>3, <2>4, ConnChanges
  <2>6. events' \in Seq(Events)
    <3>1. /\ Event("SessionStarted", c) \in Events
          /\ Event("SessionEnded", c) \in Events
      BY EventTypes
    <3>2. QED
      BY <1>1, <3>1, TellOne DEF Accept, ConnectionEnds
  <2>7. QED
    BY <2>4, <2>5, <2>6 DEF PollTypes, ApiType
<1>2. ASSUME NEW c \in Conns, Request(c) PROVE AirplayTypes'
  <2>1. PICK s : Answered(c, s) /\ Turn(c, s)
    BY <1>2, RequestTurns
  <2>2. UNCHANGED api
    BY <1>2 DEF Request
  <2>3. QED
    BY <2>1, <2>2, TurnTypes
<1>3. ASSUME NEW c \in Conns, DropPoll(c) PROVE AirplayTypes'
  <2> DEFINE s == [[conn[c] EXCEPT !.st = "closed"] EXCEPT !.task = 0]
  <2>1. conn' = [conn EXCEPT ![c] = s]
    BY <1>3 DEF DropPoll, ConnTypes
  <2>2. DOMAIN s = {"st", "audio", "socket", "task", "info"} /\ s.task = 0
    BY DEF ConnTypes
  <2> HIDE DEF s
  <2>3. conn[c].task # 0 =>
          conn[c].task \in Polls /\ poll[conn[c].task].at # "none"
    BY DEF TaskTypes
  <2>4. PollTypes' /\ \A p \in Polls : poll'[p].at = poll[p].at
    BY <1>3, <2>3, AbortKeeps DEF DropPoll, PollTypes
  <2>5. UNCHANGED <<rec, events, api>>
    BY <1>3 DEF DropPoll
  <2>6. ConnTypes' /\ TaskTypes'
    BY <2>1, <2>2, <2>4, <2>5, ConnChanges
  <2>7. QED
    BY <2>4, <2>5, <2>6 DEF ApiType
<1>4. ASSUME NEW c \in Conns,
             ReceivePacket(c) \/ ReceiveLoopEnds(c) \/ Output(c)
      PROVE  AirplayTypes'
  <2>1. UNCHANGED <<conn, poll, events, api>>
    BY <1>4 DEF ReceivePacket, ReceiveLoopEnds, Output
  <2>2. /\ DOMAIN rec' = Conns
        /\ \A d \in Conns : /\ DOMAIN rec'[d] = {"st", "aborted", "out", "queue"}
                            /\ rec'[d].st \in {"none", "running", "ended"}
    BY <1>4 DEF ReceivePacket, ReceiveLoopEnds, Output, ConnTypes
  <2>3. QED
    BY <2>1, <2>2 DEF ConnTypes, PollTypes, TaskTypes, ApiType
<1>5. ASSUME NEW p \in Polls,
             PollAnswered(p) \/ PollRuns(p) \/ PollCancelled(p)
      PROVE  AirplayTypes'
  BY <1>5, PollSteps, PollStepTypes
<1>6. CASE EventArrives
  <2>1. events' \in Seq(Events) /\ UNCHANGED <<conn, rec, poll>>
    BY <1>6 DEF EventArrives
  <2>2. ApiType'
    BY <1>6 DEF EventArrives, HandleAirplayEvent, ApiType
  <2>3. QED
    BY <2>1, <2>2 DEF ConnTypes, PollTypes, TaskTypes
<1>7. CASE SpotifyPlays \/ Control
  <2>1. UNCHANGED <<conn, rec, poll, events>> /\ ApiType'
    BY <1>7 DEF SpotifyPlays, Control, ApiType
  <2>2. QED
    BY <2>1 DEF ConnTypes, PollTypes, TaskTypes
<1>8. CASE UNCHANGED <<conn, rec, poll, events, api>>
  BY <1>8 DEF ConnTypes, PollTypes, TaskTypes, ApiType
<1>9. QED
  BY <1>1, <1>2, <1>3, <1>4, <1>5, <1>6, <1>7, <1>8
  DEF AirplayNext, airplayVars, ApiSetVolume

\* The types of the receiver, its tasks and its events.
THEOREM AirplayTypesHold == AirplaySpec => []AirplayTypes
<1>1. AirplayInit => AirplayTypes
  <2> SUFFICES ASSUME AirplayInit PROVE AirplayTypes
    OBVIOUS
  <2>1. PollType(NoPoll)
    BY DEF PollType, NoPoll, Nothing, Stops, Words
  <2>2. PollTypes
    BY <2>1 DEF AirplayInit, PollTypes
  <2>3. ConnTypes /\ TaskTypes /\ ApiType /\ events \in Seq(Events)
    BY DEF AirplayInit, ConnTypes, TaskTypes, ApiType
  <2>4. QED
    BY <2>2, <2>3 DEF AirplayTypes
<1>2. AirplayTypes /\ [AirplayNext]_airplayVars => AirplayTypes'
  BY AirplayTypesKept
<1>3. QED
  BY <1>1, <1>2, PTL DEF AirplaySpec

-----------------------------------------------------------------------------
(* One poll task                                                           *)

LEMMA OnePollKept ==
  ASSUME AirplayTypes, OnePollEach, [AirplayNext]_airplayVars
  PROVE  OnePollEach'
<1> ConnTypes /\ PollTypes /\ TaskTypes
  BY DEF AirplayTypes
<1>1. ASSUME DOMAIN conn' = Conns,
             \A c \in Conns : conn'[c].task = conn[c].task,
             \A c \in Conns : conn'[c].st = "closed" => conn[c].st = "closed",
             \A p \in Polls : Live(p)' => Live(p) /\ poll'[p].c = poll[p].c
      PROVE  OnePollEach'
  BY <1>1 DEF OnePollEach
<1>2. ASSUME NEW c \in Conns, NEW s, conn' = [conn EXCEPT ![c] = s],
             s.task = 0, poll' = Aborted(poll, conn[c].task)
      PROVE  OnePollEach'
  <2> DEFINE k == conn[c].task
  <2>1. /\ conn'[c] = s /\ \A d \in Conns : d # c => conn'[d] = conn[d]
    BY <1>2 DEF ConnTypes
  <2>2. k # 0 => k \in Polls /\ poll[k].at # "none"
    BY DEF TaskTypes
  <2>3. \A p \in Polls : /\ poll'[p].at = poll[p].at /\ poll'[p].c = poll[p].c
                         /\ p = k => poll'[p].aborted
                         /\ poll[p].aborted => poll'[p].aborted
    <3> DEFINE ps == Aborted(poll, k)
    <3>1. \A p \in Polls : /\ ps[p].at = poll[p].at /\ ps[p].c = poll[p].c
                           /\ p = k => ps[p].aborted
                           /\ poll[p].aborted => ps[p].aborted
      BY <2>2, AbortKeeps
    <3>2. poll' = ps
      BY <1>2
    <3> HIDE DEF ps
    <3>3. QED
      BY <3>1, <3>2
  <2>4. \A p \in Polls : Live(p)' => /\ Live(p) /\ poll'[p].c = poll[p].c
                                     /\ p # k
    BY <2>3 DEF Live
  <2>5. QED
    BY <1>2, <2>1, <2>4 DEF OnePollEach
<1>3. ASSUME NEW c \in Conns, NEW s, Answered(c, s), s.st = "open", NEW info,
             StartPoll(Aborted(poll, s.task), c, s, info)
      PROVE  OnePollEach'
  <2> DEFINE k == conn[c].task
             ps == Aborted(poll, k)
  <2>1. PICK q, x, s2 :
          /\ StartedPoll(q, c, x) /\ poll' = [ps EXCEPT ![q] = x]
          /\ s2.st = conn[c].st /\ s2.task = q
          /\ conn' = [conn EXCEPT ![c] = s2]
    <3>1. StartPoll(ps, c, s, info)
      BY <1>3 DEF Answered
    <3> HIDE DEF ps
    <3>2. QED
      BY <1>3, <3>1, StartPollStarts
  <2>2. k # 0 => k \in Polls /\ poll[k].at # "none"
    BY DEF TaskTypes
  <2>3. /\ DOMAIN ps = Polls
        /\ \A p \in Polls : /\ ps[p].at = poll[p].at /\ ps[p].c = poll[p].c
                            /\ p = k => ps[p].aborted
                            /\ p # k => ps[p].aborted = poll[p].aborted
    BY <2>2, AbortKeeps
  <2> HIDE DEF ps
  <2>4. /\ conn'[c] = s2 /\ \A d \in Conns : d # c => conn'[d] = conn[d]
        /\ poll'[q] = x /\ \A p \in Polls : p # q => poll'[p] = ps[p]
    BY <2>1, <2>3 DEF ConnTypes, StartedPoll
  <2>6. \A p \in Polls : p # q /\ Live(p)' =>
          /\ Live(p) /\ poll'[p].c = poll[p].c /\ p # k
    BY <2>3, <2>4 DEF Live
  <2>7. s2.st = "open" /\ x.c = c
    BY <1>3, <2>1 DEF Answered, StartedPoll
  <2>8. QED
    BY <2>1, <2>4, <2>6, <2>7 DEF OnePollEach
<1>4. ASSUME NEW c \in Conns, Request(c) PROVE OnePollEach'
  <2>1. PICK s : Answered(c, s) /\ Turn(c, s) /\ s.st = "open"
    BY <1>4, RequestTurns DEF Answered
  <2>2. CASE conn' = [conn EXCEPT ![c] = s] /\ UNCHANGED poll
    <3>1. /\ conn'[c] = s /\ \A d \in Conns : d # c => conn'[d] = conn[d]
          /\ DOMAIN conn' = Conns
      BY <2>2 DEF ConnTypes
    <3>2. QED
      BY <1>1, <2>1, <2>2, <3>1 DEF Answered, Live
  <2>3. CASE StartRecording(c, s)
    <3> DEFINE s2 == [s EXCEPT !.socket = FALSE, !.audio = @ /\ ~s.socket]
    <3>1. conn' = [conn EXCEPT ![c] = s2] /\ UNCHANGED poll
      BY <2>3 DEF StartRecording
    <3>2. s2.task = conn[c].task /\ s2.st = "open"
      BY <2>1 DEF Answered
    <3> HIDE DEF s2
    <3>3. /\ conn'[c] = s2 /\ \A d \in Conns : d # c => conn'[d] = conn[d]
          /\ DOMAIN conn' = Conns
      BY <3>1 DEF ConnTypes
    <3>4. QED
      BY <1>1, <3>1, <3>2, <3>3 DEF Live
  <2>4. CASE StopRecording(c, s)
    <3> DEFINE s2 == [s EXCEPT !.task = 0]
    <3>1. conn' = [conn EXCEPT ![c] = s2] /\ poll' = Aborted(poll, conn[c].task)
      BY <2>1, <2>4 DEF StopRecording, Answered
    <3>2. s2.task = 0
      BY <2>1 DEF Answered
    <3> HIDE DEF s2
    <3>3. QED
      BY <1>2, <3>1, <3>2
  <2>5. ASSUME NEW info, DacpInfoCaptured(c, s, info) PROVE OnePollEach'
    BY <1>3, <2>1, <2>2, <2>5 DEF DacpInfoCaptured
  <2>6. QED
    BY <2>1, <2>2, <2>3, <2>4, <2>5 DEF Turn, SetVolume
<1>5. ASSUME NEW c \in Conns, DropPoll(c) PROVE OnePollEach'
  <2> DEFINE s == [[conn[c] EXCEPT !.st = "closed"] EXCEPT !.task = 0]
  <2>1. conn' = [conn EXCEPT ![c] = s] /\ poll' = Aborted(poll, conn[c].task)
    BY <1>5 DEF DropPoll, ConnTypes
  <2>2. s.task = 0
    BY DEF ConnTypes
  <2> HIDE DEF s
  <2>3. QED
    BY <1>2, <2>1, <2>2
<1>6. ASSUME NEW c \in Conns, Accept(c) \/ ConnectionEnds(c)
      PROVE  OnePollEach'
  <2>1. PICK st \in {"open", "ending"} : conn' = [conn EXCEPT ![c].st = st]
    BY <1>6 DEF Accept, ConnectionEnds
  <2>2. /\ DOMAIN conn' = Conns
        /\ \A d \in Conns : /\ conn'[d].task = conn[d].task
                            /\ conn'[d].st = "closed" => conn[d].st = "closed"
    BY <2>1 DEF ConnTypes
  <2>3. UNCHANGED poll
    BY <1>6 DEF Accept, ConnectionEnds
  <2>4. QED
    BY <1>1, <2>2, <2>3 DEF Live
<1>7. ASSUME NEW p \in Polls,
             PollAnswered(p) \/ PollRuns(p) \/ PollCancelled(p)
      PROVE  OnePollEach'
  <2>1. PICK x : PollBecomes(p, x)
    BY <1>7, PollSteps
  <2>2. UNCHANGED conn
    BY <1>7, PollSteps
  <2>3. \A q \in Polls : Live(q)' => Live(q) /\ poll'[q].c = poll[q].c
    BY <2>1 DEF PollBecomes, Live, PollTypes
  <2>4. QED
    BY <1>1, <2>2, <2>3 DEF ConnTypes
<1>8. CASE UNCHANGED <<conn, poll>>
  BY <1>8 DEF OnePollEach, Live
<1>9. QED
  BY <1>4, <1>5, <1>6, <1>7, <1>8
  DEF AirplayNext, airplayVars, ReceivePacket, ReceiveLoopEnds, Output,
      EventArrives, SpotifyPlays, Control, ApiSetVolume

\* serve_connection and resolve_and_poll_dacp: at most one task polls a
\* sender, the one its connection holds, and none outlives the connection.
THEOREM OnePollPerConnection == AirplaySpec => []OnePollEach
<1>1. AirplayInit => OnePollEach
  BY DEF AirplayInit, OnePollEach, Live, NoPoll
<1>2. AirplayTypes /\ OnePollEach /\ [AirplayNext]_airplayVars => OnePollEach'
  BY OnePollKept
<1>3. QED
  BY <1>1, <1>2, AirplayTypesHold, PTL DEF AirplaySpec

-----------------------------------------------------------------------------
(* On the air.  What the API believes of a connection follows from the     *)
(* events it has handled and those that wait: a report that it plays is    *)
(* followed by one that it does not, unless audio is received or a poll    *)
(* task was the last to report.                                            *)

Yes(e, c) == e.e = "PlaybackChanged" /\ e.playing = "yes" /\ e.c = c
Off(e, c) ==
  /\ e.c = c
  /\ \/ e.e = "SessionEnded"
     \/ e.e = "PlaybackChanged" /\ e.playing # "yes"

Followed(c) ==
  /\ \A i \in 1..Len(events) : Yes(events[i], c) =>
       \E j \in 1..Len(events) : i < j /\ Off(events[j], c)
  /\ IsOnTheAir(c) /\ api.playing =>
       \E j \in 1..Len(events) : Off(events[j], c)

Unpolled(c) == \A p \in Polls : poll[p].c # c
Late(c) == \E p \in Polls : poll[p].c = c /\ poll[p].late

AirOf(c) ==
  /\ conn[c].socket => rec[c].st = "none" /\ ~rec[c].aborted
  /\ rec[c].st = "none" /\ Unpolled(c) =>
       /\ api.onAir # c
       /\ \A i \in 1..Len(events) : ~Yes(events[i], c)
  /\ rec[c].aborted /\ Unpolled(c) => Followed(c)
  /\ EndTold(c) /\ ~Late(c) => Followed(c)

Air == \A c \in Conns : AirOf(c)

\* The events that wait stay, and none that is added reports that c plays.
Grows(c) ==
  /\ Len(events) \in Nat /\ Len(events') \in Nat /\ Len(events) <= Len(events')
  /\ \A i \in 1..Len(events) : events'[i] = events[i]
  /\ \A i \in 1..Len(events') : i > Len(events) => ~Yes(events'[i], c)

LEMMA FollowedGrows ==
  ASSUME NEW c, Followed(c), Grows(c), UNCHANGED api
  PROVE  Followed(c)'
<1>1. \A i \in 1..Len(events') : Yes(events'[i], c) =>
        i \in 1..Len(events) /\ Yes(events[i], c)
  BY DEF Grows
<1>2. \A j \in 1..Len(events) : j \in 1..Len(events') /\ events'[j] = events[j]
  BY DEF Grows
<1>3. QED
  BY <1>1, <1>2 DEF Followed, IsOnTheAir

LEMMA FollowedOff ==
  ASSUME NEW c, events' \in Seq(Events), Len(events') > 0,
         Off(events'[Len(events')], c)
  PROVE  Followed(c)'
<1> DEFINE n == Len(events')
<1>1. n \in Nat /\ n \in 1..n
  OBVIOUS
<1>2. \A i \in 1..n : Yes(events'[i], c) => i < n
  BY <1>1 DEF Yes, Off
<1>3. QED
  BY <1>1, <1>2 DEF Followed

\* What an event that is handled leaves.
LEMMA EventLeaves ==
  ASSUME ApiType, EventArrives, NEW c \in Conns
  PROVE  /\ api'.onAir = c => api.onAir = c \/ Yes(Head(events), c)
         /\ (IsOnTheAir(c) /\ api.playing)' =>
              \/ Yes(Head(events), c)
              \/ IsOnTheAir(c) /\ api.playing /\ ~Off(Head(events), c)
<1> DEFINE ev == Head(events)
<1>1. api' = HandleAirplayEvent(ev)
  BY DEF EventArrives
<1>2. c # Nobody
  BY ConnsAssumption DEF Nobody
<1> HIDE DEF ev
<1>3. CASE ev.e = "PlaybackChanged" /\ ev.playing = "yes"
  <2>1. api'.onAir = ev.c
    BY <1>1, <1>3 DEF HandleAirplayEvent, ApiType
  <2>2. QED
    BY <1>3, <2>1 DEF Yes, IsOnTheAir, ev
<1>4. CASE ev.e = "SessionEnded"
  <2>1. CASE api.onAir = ev.c
    <3>1. api'.onAir = Nobody
      BY <1>1, <1>4, <2>1 DEF HandleAirplayEvent, ApiType
    <3>2. QED
      BY <1>2, <3>1 DEF IsOnTheAir
  <2>2. CASE api.onAir # ev.c
    <3>1. api' = api
      BY <1>1, <1>4, <2>2 DEF HandleAirplayEvent
    <3>2. QED
      BY <1>4, <2>2, <3>1 DEF IsOnTheAir, Off, ev
  <2>3. QED
    BY <2>1, <2>2
<1>5. CASE ev.e = "PlaybackChanged" /\ ev.playing # "yes"
  <2>1. CASE IsOnTheAir(ev.c)
    <3>1. ~api'.playing /\ UNCHANGED api.onAir
      BY <1>1, <1>5, <2>1 DEF HandleAirplayEvent, ApiType
    <3>2. QED
      BY <3>1
  <2>2. CASE ~IsOnTheAir(ev.c)
    <3>1. api' = api
      BY <1>1, <1>5, <2>2 DEF HandleAirplayEvent
    <3>2. QED
      BY <1>5, <2>2, <3>1 DEF IsOnTheAir, Off, ev
  <2>3. QED
    BY <2>1, <2>2
<1>6. CASE ev.e \notin {"PlaybackChanged", "SessionEnded"}
  <2>1. UNCHANGED <<api.source, api.onAir, api.playing>>
    BY <1>1, <1>6 DEF HandleAirplayEvent, ApiType
  <2>2. QED
    BY <1>6, <2>1 DEF IsOnTheAir, Off, ev
<1>7. QED
  BY <1>3, <1>4, <1>5, <1>6

LEMMA FollowedArrives ==
  ASSUME ApiType, events \in Seq(Events), EventArrives, NEW c \in Conns,
         Followed(c)
  PROVE  Followed(c)'
<1>1. /\ Len(events) \in Nat /\ Len(events') = Len(events) - 1
      /\ \A i \in 1..Len(events') : /\ i + 1 \in 1..Len(events)
                                    /\ events'[i] = events[i + 1]
      /\ Head(events) = events[1] /\ 1 \in 1..Len(events)
      /\ events # <<>>
  BY DEF EventArrives
<1>2. ASSUME NEW j \in 1..Len(events), 1 < j, Off(events[j], c)
      PROVE  \E k \in 1..Len(events') : k = j - 1 /\ Off(events'[k], c)
  <2>1. j - 1 \in 1..Len(events') /\ events'[j - 1] = events[j]
    BY <1>1, <1>2
  <2>2. QED
    BY <1>2, <2>1
<1>3. ASSUME NEW i \in 1..Len(events'), Yes(events'[i], c)
      PROVE  \E k \in 1..Len(events') : i < k /\ Off(events'[k], c)
  <2>1. PICK j \in 1..Len(events) : i + 1 < j /\ Off(events[j], c)
    BY <1>1, <1>3 DEF Followed
  <2>2. 1 < j
    BY <2>1
  <2>3. PICK k \in 1..Len(events') : k = j - 1 /\ Off(events'[k], c)
    BY <1>2, <2>1, <2>2
  <2>4. i < k
    BY <1>1, <2>1, <2>3
  <2>5. QED
    BY <2>3, <2>4
<1>4. ASSUME (IsOnTheAir(c) /\ api.playing)'
      PROVE  \E k \in 1..Len(events') : Off(events'[k], c)
  <2>1. CASE Yes(events[1], c)
    <3>1. PICK j \in 1..Len(events) : 1 < j /\ Off(events[j], c)
      BY <1>1, <2>1 DEF Followed
    <3>2. QED
      BY <1>2, <3>1
  <2>2. CASE IsOnTheAir(c) /\ api.playing /\ ~Off(events[1], c)
    <3>1. PICK j \in 1..Len(events) : Off(events[j], c)
      BY <2>2 DEF Followed
    <3>2. 1 < j
      BY <2>2, <3>1
    <3>3. QED
      BY <1>2, <3>1, <3>2
  <2>3. QED
    BY <1>1, <1>4, <2>1, <2>2, EventLeaves
<1>5. QED
  BY <1>3, <1>4 DEF Followed

\* A step that tells nothing of d that it did not know.
LEMMA AirCalm ==
  ASSUME NEW d \in Conns, AirOf(d), Grows(d), UNCHANGED api,
         conn'[d].socket => conn[d].socket,
         rec'[d].st = "none" => rec[d].st = "none",
         rec'[d].aborted => rec[d].aborted,
         Unpolled(d)' => Unpolled(d),
         EndTold(d)' => EndTold(d), Late(d) => Late(d)',
         conn'[d].socket => UNCHANGED rec[d]
  PROVE  AirOf(d)'
<1>1. Followed(d) => Followed(d)'
  BY FollowedGrows
<1>2. (\A i \in 1..Len(events) : ~Yes(events[i], d)) =>
        \A i \in 1..Len(events') : ~Yes(events'[i], d)
  BY DEF Grows
<1>3. QED
  BY <1>1, <1>2 DEF AirOf

LEMMA GrowsByOne ==
  ASSUME events \in Seq(Events), NEW e \in Events, Tell(<<e>>),
         NEW d, ~Yes(e, d)
  PROVE  Grows(d)
<1>1. /\ events' \in Seq(Events) /\ Len(events') = Len(events) + 1
      /\ \A i \in 1..Len(events) : events'[i] = events[i]
      /\ events'[Len(events) + 1] = e
  BY TellOne
<1>2. Len(events) \in Nat
  OBVIOUS
<1>3. \A i \in 1..Len(events') : i > Len(events) => i = Len(events) + 1
  BY <1>1, <1>2
<1>4. QED
  BY <1>1, <1>2, <1>3 DEF Grows

LEMMA GrowsNot ==
  ASSUME events \in Seq(Events), UNCHANGED events, NEW d
  PROVE  Grows(d)
BY DEF Grows

LEMMA StartRecordingAir ==
  ASSUME AirplayTypes, Air, NEW c \in Conns, NEW s, Answered(c, s),
         conn[c].st = "open", StartRecording(c, s), UNCHANGED api,
         NEW d \in Conns
  PROVE  AirOf(d)'
<1> ConnTypes /\ PollTypes /\ events \in Seq(Events) /\ AirOf(d)
  BY DEF AirplayTypes, Air
<1> DEFINE s2 == [s EXCEPT !.socket = FALSE, !.audio = @ /\ ~s.socket]
<1>1. conn' = [conn EXCEPT ![c] = s2] /\ UNCHANGED poll
  BY DEF StartRecording
<1>2. ~s2.socket /\ s2.st = "open"
  BY DEF Answered
<1> HIDE DEF s2
<1>3. conn'[c] = s2 /\ (d # c => conn'[d] = conn[d])
  BY <1>1 DEF ConnTypes
<1>4. (Unpolled(d)' => Unpolled(d)) /\ (Late(d) => Late(d)')
  BY <1>1 DEF Unpolled, Late
<1>5. (EndTold(d)' => EndTold(d)) /\ (d = c => ~EndTold(d)')
  BY <1>2, <1>3 DEF EndTold
<1>6. CASE s.socket
  <2>1. rec' = [rec EXCEPT ![c].st = "running"] /\ Tell(<<Playing(c, "yes")>>)
    BY <1>6 DEF StartRecording
  <2>2. CASE d = c
    <3>1. rec'[d].st = "running" /\ rec'[d].aborted = rec[d].aborted
      BY <2>1, <2>2 DEF ConnTypes
    <3>2. ~rec[d].aborted
      BY <1>6, <2>2 DEF AirOf, Answered
    <3>3. ~rec'[d].aborted
      BY <3>1, <3>2
    <3>4. QED
      BY <1>2, <1>3, <1>5, <2>2, <3>1, <3>3 DEF AirOf
  <2>3. CASE d # c
    <3>1. UNCHANGED <<rec[d], conn[d]>>
      BY <1>3, <2>1, <2>3 DEF ConnTypes
    <3>2. Playing(c, "yes") \in Events /\ ~Yes(Playing(c, "yes"), d)
      BY <2>3, EventTypes DEF Yes, Words
    <3>3. Grows(d)
      BY <2>1, <3>2, GrowsByOne
    <3>4. QED
      BY <1>4, <1>5, <3>1, <3>3, AirCalm
  <2>4. QED
    BY <2>2, <2>3
<1>7. CASE ~s.socket
  <2>1. UNCHANGED <<rec, events>>
    BY <1>7 DEF StartRecording
  <2>2. Grows(d)
    BY <2>1, GrowsNot
  <2>3. conn'[d].socket => conn[d].socket
    BY <1>2, <1>3
  <2>4. QED
    BY <1>4, <1>5, <2>1, <2>2, <2>3, AirCalm
<1>8. QED
  BY <1>6, <1>7

LEMMA StopRecordingAir ==
  ASSUME AirplayTypes, Air, NEW c \in Conns, NEW s, Answered(c, s),
         conn[c].st = "open", StopRecording(c, s), UNCHANGED api,
         NEW d \in Conns
  PROVE  AirOf(d)'
<1> ConnTypes /\ PollTypes /\ TaskTypes /\ events \in Seq(Events) /\ AirOf(d)
  BY DEF AirplayTypes, Air
<1> DEFINE s2 == [s EXCEPT !.task = 0]
           x == [rec[c] EXCEPT !.aborted = @ \/ rec[c].st = "running"]
           no == Playing(c, "no")
           end == Event("SessionEnded", c)
<1>1. /\ conn' = [conn EXCEPT ![c] = s2] /\ rec' = [rec EXCEPT ![c] = x]
      /\ poll' = Aborted(poll, conn[c].task) /\ Tell(<<no, end>>)
  BY DEF StopRecording, Answered
<1>2. s2.socket = conn[c].socket /\ s2.st = "open"
  BY DEF Answered
<1>3. x.st = rec[c].st /\ (rec[c].st = "none" /\ ~rec[c].aborted => ~x.aborted)
  BY DEF ConnTypes
<1>4. no \in Events /\ end \in Events /\ ~Yes(no, d) /\ ~Yes(end, d)
      /\ Off(end, c)
  BY EventTypes DEF Yes, Off, Words
<1> HIDE DEF s2, x, no, end
<1>5. /\ conn'[c] = s2 /\ (d # c => conn'[d] = conn[d])
      /\ rec'[c] = x /\ (d # c => rec'[d] = rec[d])
  BY <1>1 DEF ConnTypes
<1>6. \A p \in Polls : /\ poll'[p].c = poll[p].c
                       /\ poll'[p].late = poll[p].late
  <2> DEFINE k == conn[c].task
  <2>1. k # 0 => k \in Polls /\ poll[k].at # "none"
    BY DEF TaskTypes
  <2>2. QED
    BY <1>1, <2>1, AbortKeeps
<1>7. (Unpolled(d)' => Unpolled(d)) /\ (Late(d) => Late(d)')
  BY <1>6 DEF Unpolled, Late
<1>8. (EndTold(d)' => EndTold(d)) /\ (d = c => ~EndTold(d)')
  BY <1>2, <1>5 DEF EndTold
<1>9. /\ events' \in Seq(Events) /\ Len(events') = Len(events) + 2
      /\ \A i \in 1..Len(events) : events'[i] = events[i]
      /\ events'[Len(events) + 1] = no /\ events'[Len(events) + 2] = end
  BY <1>1, <1>4, TellTwo
<1>10. Grows(d)
  <2>1. Len(events) \in Nat /\ Len(events') \in Nat
    BY <1>9
  <2>2. \A i \in 1..Len(events') : i > Len(events) =>
          i = Len(events) + 1 \/ i = Len(events) + 2
    BY <1>9, <2>1
  <2>3. QED
    BY <1>4, <1>9, <2>1, <2>2 DEF Grows
<1>11. CASE d # c
  BY <1>5, <1>7, <1>8, <1>10, <1>11, AirCalm
<1>12. CASE d = c
  <2>1. Followed(d)'
    <3>1. Len(events') > 0 /\ events'[Len(events')] = end
      BY <1>9
    <3>2. QED
      BY <1>4, <1>9, <1>12, <3>1, FollowedOff
  <2>2. conn'[d].socket => rec'[d].st = "none" /\ ~rec'[d].aborted
    BY <1>2, <1>3, <1>5, <1>12 DEF AirOf
  <2>3. rec'[d].st = "none" /\ Unpolled(d)' =>
          /\ api'.onAir # d
          /\ \A i \in 1..Len(events') : ~Yes(events'[i], d)
    BY <1>3, <1>5, <1>7, <1>10, <1>12 DEF AirOf, Grows
  <2>4. QED
    BY <2>1, <2>2, <2>3 DEF AirOf
<1>13. QED
  BY <1>11, <1>12

LEMMA StartPollAir ==
  ASSUME AirplayTypes, Air, NEW c \in Conns, NEW s, Answered(c, s), NEW info,
         StartPoll(Aborted(poll, s.task), c, s, info), UNCHANGED api,
         NEW d \in Conns
  PROVE  AirOf(d)'
<1> ConnTypes /\ PollTypes /\ TaskTypes /\ events \in Seq(Events) /\ AirOf(d)
  BY DEF AirplayTypes, Air
<1> DEFINE ps == Aborted(poll, s.task)
<1>1. PICK q, x, s2 :
        /\ StartedPoll(q, c, x) /\ poll' = [ps EXCEPT ![q] = x]
        /\ s2.st = conn[c].st /\ s2.socket = conn[c].socket
        /\ conn' = [conn EXCEPT ![c] = s2]
  BY StartPollStarts
<1>2. UNCHANGED <<rec, events>>
  BY DEF StartPoll
<1>3. /\ DOMAIN ps = Polls
      /\ \A p \in Polls : ps[p].c = poll[p].c /\ ps[p].late = poll[p].late
  <2>1. s.task # 0 => s.task \in Polls /\ poll[s.task].at # "none"
    BY DEF Answered, TaskTypes
  <2>2. QED
    BY <2>1, AbortKeeps
<1> HIDE DEF ps
<1>4. conn'[d].st = conn[d].st /\ conn'[d].socket = conn[d].socket
  BY <1>1 DEF ConnTypes
<1>5. \A p \in Polls : p # q => /\ poll'[p].c = poll[p].c
                                /\ poll'[p].late = poll[p].late
  BY <1>1, <1>3
<1>6. poll[q].c # d /\ q \in Polls
  <2>1. poll[q].c = Nobody /\ q \in Polls
    BY <1>1 DEF StartedPoll, PollTypes, PollType
  <2>2. QED
    BY <2>1, ConnsAssumption DEF Nobody
<1>7. (Unpolled(d)' => Unpolled(d)) /\ (Late(d) => Late(d)')
  BY <1>5, <1>6 DEF Unpolled, Late
<1>8. Grows(d) /\ (EndTold(d)' => EndTold(d))
  BY <1>2, <1>4, GrowsNot DEF EndTold
<1>9. QED
  BY <1>2, <1>4, <1>7, <1>8, AirCalm

LEMMA RequestAir ==
  ASSUME AirplayTypes, Air, NEW c \in Conns, Request(c), NEW d \in Conns
  PROVE  AirOf(d)'
<1> ConnTypes /\ PollTypes /\ events \in Seq(Events) /\ AirOf(d)
  BY DEF AirplayTypes, Air
<1>1. PICK s : Answered(c, s) /\ Turn(c, s)
  BY RequestTurns
<1>2. conn[c].st = "open" /\ UNCHANGED api
  BY DEF Request
<1>3. ASSUME conn' = [conn EXCEPT ![c] = s], UNCHANGED <<rec, poll>>, Grows(d)
      PROVE  AirOf(d)'
  <2>1. conn'[d].st = conn[d].st /\ conn'[d].socket = conn[d].socket
    BY <1>1, <1>3 DEF ConnTypes, Answered
  <2>2. /\ Unpolled(d)' => Unpolled(d)
        /\ Late(d) => Late(d)'
        /\ EndTold(d)' => EndTold(d)
    BY <1>3, <2>1 DEF Unpolled, Late, EndTold
  <2>3. QED
    BY <1>2, <1>3, <2>1, <2>2, AirCalm
<1>4. ASSUME NEW db \in {-300, 0}, SetVolume(c, s, db) PROVE AirOf(d)'
  <2>1. PercentFromDb(db) \in Int
    BY DEF PercentFromDb
  <2>2. /\ Volume(c, PercentFromDb(db)) \in Events
        /\ ~Yes(Volume(c, PercentFromDb(db)), d)
    BY <2>1, EventTypes DEF Yes
  <2>3. Grows(d)
    BY <1>4, <2>2, GrowsByOne DEF SetVolume
  <2>4. QED
    BY <1>3, <1>4, <2>3 DEF SetVolume
<1>5. ASSUME NEW info, DacpInfoCaptured(c, s, info) PROVE AirOf(d)'
  <2>1. CASE conn' = [conn EXCEPT ![c] = s] /\ UNCHANGED <<poll, rec, events>>
    BY <1>3, <2>1, GrowsNot
  <2>2. CASE StartPoll(Aborted(poll, s.task), c, s, info)
    BY <1>1, <1>2, <2>2, StartPollAir
  <2>3. QED
    BY <1>5, <2>1, <2>2 DEF DacpInfoCaptured
<1>6. ASSUME NEW e \in {"TrackChanged", "CoverChanged", "ProgressChanged"},
             conn' = [conn EXCEPT ![c] = s], Tell(<<Event(e, c)>>),
             UNCHANGED <<rec, poll>>
      PROVE  AirOf(d)'
  <2>1. Event(e, c) \in Events /\ ~Yes(Event(e, c), d)
    BY EventTypes DEF Yes
  <2>2. Grows(d)
    BY <1>6, <2>1, GrowsByOne
  <2>3. QED
    BY <1>3, <1>6, <2>2
<1>7. CASE StartRecording(c, s) \/ StopRecording(c, s)
  BY <1>1, <1>2, <1>7, StartRecordingAir, StopRecordingAir
<1>8. CASE conn' = [conn EXCEPT ![c] = s] /\ UNCHANGED <<rec, poll, events>>
  BY <1>3, <1>8, GrowsNot
<1>9. QED
  BY <1>1, <1>4, <1>5, <1>6, <1>7, <1>8 DEF Turn

LEMMA PollStepAir ==
  ASSUME AirplayTypes, Air, NEW p \in Polls, NEW x, PollBecomes(p, x),
         UNCHANGED <<conn, rec, api>>, NEW d \in Conns
  PROVE  AirOf(d)'
<1> PollTypes /\ events \in Seq(Events) /\ AirOf(d)
  BY DEF AirplayTypes, Air
<1>1. /\ poll'[p] = x /\ x.c = poll[p].c /\ x.c \in Conns
      /\ x.playing \in Words /\ (poll[p].late => x.late)
      /\ \A q \in Polls : q # p => poll'[q] = poll[q]
  BY DEF PollBecomes, PollType, PollTypes
<1>2. (Unpolled(d)' => Unpolled(d)) /\ (Late(d) => Late(d)')
  BY <1>1 DEF Unpolled, Late
<1>3. ASSUME Grows(d) PROVE AirOf(d)'
  BY <1>2, <1>3, AirCalm DEF EndTold
<1>4. CASE UNCHANGED events
  BY <1>3, <1>4, GrowsNot
<1>5. ASSUME NEW e \in Events, Tell(<<e>>),
             e.e \in {"DacpAvailable", "TrackChanged", "VolumeChanged"}
      PROVE  AirOf(d)'
  BY <1>3, <1>5, GrowsByOne DEF Yes
<1>6. CASE /\ Tell(<<Playing(x.c, x.playing)>>)
           /\ x.playing = "yes" /\ EndTold(x.c) => x.late
  <2>1. CASE d = x.c /\ x.playing = "yes"
    <3>1. ~Unpolled(d)' /\ (EndTold(d)' => Late(d)')
      BY <1>1, <1>6, <2>1 DEF Unpolled, Late, EndTold
    <3>2. QED
      BY <3>1 DEF AirOf
  <2>2. CASE ~(d = x.c /\ x.playing = "yes")
    <3>1. /\ Playing(x.c, x.playing) \in Events
          /\ ~Yes(Playing(x.c, x.playing), d)
      BY <1>1, <2>2, EventTypes DEF Yes
    <3>2. QED
      BY <1>3, <1>6, <3>1, GrowsByOne
  <2>3. QED
    BY <2>1, <2>2
<1>7. QED
  BY <1>4, <1>5, <1>6 DEF PollBecomes

LEMMA AirKept ==
  ASSUME AirplayTypes, Air, [AirplayNext]_airplayVars
  PROVE  Air'
<1> SUFFICES ASSUME NEW d \in Conns PROVE AirOf(d)'
  BY DEF Air
<1> /\ ConnTypes /\ PollTypes /\ TaskTypes /\ ApiType
    /\ events \in Seq(Events) /\ AirOf(d)
  BY DEF AirplayTypes, Air
<1>1. ASSUME NEW c \in Conns, Accept(c) PROVE AirOf(d)'
  <2>1. UNCHANGED <<rec, poll, api>>
    BY <1>1 DEF Accept
  <2>2. /\ EndTold(d)' => EndTold(d)
        /\ conn'[d].socket = conn[d].socket
    BY <1>1 DEF Accept, ConnTypes, EndTold
  <2>3. /\ Event("SessionStarted", c) \in Events
        /\ ~Yes(Event("SessionStarted", c), d)
    BY EventTypes DEF Yes
  <2>4. Grows(d)
    BY <1>1, <2>3, GrowsByOne DEF Accept
  <2>5. QED
    BY <2>1, <2>2, <2>4, AirCalm DEF Unpolled, Late
<1>2. ASSUME NEW c \in Conns, ConnectionEnds(c) PROVE AirOf(d)'
  <2> DEFINE e == Event("SessionEnded", c)
  <2>1. UNCHANGED <<rec, poll, api>> /\ Tell(<<e>>)
    BY <1>2 DEF ConnectionEnds
  <2>2. /\ d # c => (EndTold(d)' => EndTold(d))
        /\ conn'[d].socket = conn[d].socket
    BY <1>2 DEF ConnectionEnds, ConnTypes, EndTold
  <2>3. e \in Events /\ ~Yes(e, d) /\ Off(e, c)
    BY EventTypes DEF Yes, Off
  <2> HIDE DEF e
  <2>4. Grows(d)
    BY <2>1, <2>3, GrowsByOne
  <2>5. CASE d # c
    BY <2>1, <2>2, <2>4, <2>5, AirCalm DEF Unpolled, Late
  <2>6. CASE d = c
    <3>1. /\ events' \in Seq(Events) /\ Len(events') = Len(events) + 1
          /\ events'[Len(events) + 1] = e
      BY <2>1, <2>3, TellOne
    <3>2. Len(events') > 0 /\ events'[Len(events')] = e
      BY <3>1
    <3>3. Followed(d)'
      BY <2>3, <2>6, <3>1, <3>2, FollowedOff
    <3>4. (Unpolled(d)' => Unpolled(d))
      BY <2>1 DEF Unpolled
    <3>5. rec'[d].st = "none" /\ Unpolled(d)' =>
            /\ api'.onAir # d
            /\ \A i \in 1..Len(events') : ~Yes(events'[i], d)
      BY <2>1, <2>4, <3>4 DEF AirOf, Grows
    <3>6. QED
      BY <2>1, <2>2, <3>3, <3>5 DEF AirOf
  <2>7. QED
    BY <2>5, <2>6
<1>3. ASSUME NEW c \in Conns, Request(c) PROVE AirOf(d)'
  BY <1>3, RequestAir
<1>4. ASSUME NEW c \in Conns, DropPoll(c) PROVE AirOf(d)'
  <2> DEFINE k == conn[c].task
  <2>1. UNCHANGED <<rec, events, api>> /\ poll' = Aborted(poll, k)
    BY <1>4 DEF DropPoll
  <2>2. (EndTold(d)' => EndTold(d)) /\ conn'[d].socket = conn[d].socket
    BY <1>4 DEF DropPoll, ConnTypes, EndTold
  <2>3. k # 0 => k \in Polls /\ poll[k].at # "none"
    BY DEF TaskTypes
  <2>4. \A p \in Polls : /\ poll'[p].c = poll[p].c
                         /\ poll'[p].late = poll[p].late
    BY <2>1, <2>3, AbortKeeps
  <2>5. (Unpolled(d)' => Unpolled(d)) /\ (Late(d) => Late(d)')
    BY <2>4 DEF Unpolled, Late
  <2>6. Grows(d)
    BY <2>1, GrowsNot
  <2>7. QED
    BY <2>1, <2>2, <2>5, <2>6, AirCalm
<1>5. ASSUME NEW c \in Conns,
             ReceivePacket(c) \/ ReceiveLoopEnds(c) \/ Output(c)
      PROVE  AirOf(d)'
  <2>1. UNCHANGED <<conn, poll, events, api>>
    BY <1>5 DEF ReceivePacket, ReceiveLoopEnds, Output
  <2>2. /\ rec'[d].st = "none" <=> rec[d].st = "none"
        /\ rec'[d].aborted = rec[d].aborted
    BY <1>5 DEF ReceivePacket, ReceiveLoopEnds, Output, ConnTypes
  <2>3. Grows(d)
    BY <2>1, GrowsNot
  <2>4. Followed(d) => Followed(d)'
    BY <2>1, <2>3, FollowedGrows
  <2>5. QED
    BY <2>1, <2>2, <2>4 DEF AirOf, Unpolled, Late, EndTold
<1>6. ASSUME NEW p \in Polls,
             PollAnswered(p) \/ PollRuns(p) \/ PollCancelled(p)
      PROVE  AirOf(d)'
  BY <1>6, PollSteps, PollStepAir
<1>7. CASE EventArrives
  <2>1. UNCHANGED <<conn, rec, poll>>
    BY <1>7 DEF EventArrives
  <2>2. Followed(d) => Followed(d)'
    BY <1>7, FollowedArrives
  <2>3. ASSUME api.onAir # d, \A i \in 1..Len(events) : ~Yes(events[i], d)
        PROVE  /\ api'.onAir # d
               /\ \A i \in 1..Len(events') : ~Yes(events'[i], d)
    <3>1. /\ \A i \in 1..Len(events') : /\ i + 1 \in 1..Len(events)
                                        /\ events'[i] = events[i + 1]
          /\ Head(events) = events[1] /\ 1 \in 1..Len(events)
      BY <1>7 DEF EventArrives
    <3>2. QED
      BY <1>7, <2>3, <3>1, EventLeaves
  <2>4. QED
    BY <2>1, <2>2, <2>3 DEF AirOf, Unpolled, Late, EndTold
<1>8. CASE SpotifyPlays
  <2>1. /\ UNCHANGED <<conn, rec, poll, events, api.onAir>>
        /\ api'.source = "Spotify"
    BY <1>8 DEF SpotifyPlays, ApiType
  <2>2. Followed(d) => Followed(d)'
    BY <2>1 DEF Followed, IsOnTheAir
  <2>3. QED
    BY <2>1, <2>2 DEF AirOf, Unpolled, Late, EndTold
<1>9. CASE Control \/ UNCHANGED <<conn, rec, poll, events, api>>
  <2>1. UNCHANGED <<conn, rec, poll, events, api.onAir, api.source, api.playing>>
    BY <1>9 DEF Control, ApiType
  <2>2. Followed(d) => Followed(d)'
    BY <2>1 DEF Followed, IsOnTheAir
  <2>3. QED
    BY <2>1, <2>2 DEF AirOf, Unpolled, Late, EndTold
<1>10. QED
  BY <1>1, <1>2, <1>3, <1>4, <1>5, <1>6, <1>7, <1>8, <1>9
  DEF AirplayNext, airplayVars, ApiSetVolume

\* What the API believes of a connection follows from the events, those it
\* has handled and those that wait.
THEOREM AirHolds == AirplaySpec => []Air
<1>1. AirplayInit => Air
  <2> SUFFICES ASSUME AirplayInit, NEW c \in Conns PROVE AirOf(c)
    BY DEF Air
  <2>1. /\ Len(events) = 0 /\ api.onAir # c
        /\ rec[c].st = "none" /\ ~rec[c].aborted /\ conn[c].st = "none"
    BY ConnsAssumption DEF AirplayInit, Nobody
  <2>2. QED
    BY <2>1 DEF AirOf, EndTold
<1>2. AirplayTypes /\ Air /\ [AirplayNext]_airplayVars => Air'
  BY AirKept
<1>3. QED
  BY <1>1, <1>2, AirplayTypesHold, PTL DEF AirplaySpec

\* serve_connection and handle_airplay_event: a sender that was not polled is
\* shown as playing only when its receive loop was started and has not been
\* stopped, or its end is on the way; it may have returned by itself.
THEOREM PlayingSendersWereStarted == AirplaySpec => []OnlyReceiveErrorsGoUnseen
<1>1. AirplayTypes /\ Air => OnlyReceiveErrorsGoUnseen
  <2> SUFFICES ASSUME AirplayTypes, Air, NEW c \in Conns, IsOnTheAir(c),
                      api.playing, Unpolled(c),
                      ~\E i \in DOMAIN events : events[i].c = c
               PROVE  rec[c].st \in {"running", "ended"} /\ ~rec[c].aborted
    BY DEF OnlyReceiveErrorsGoUnseen, Unpolled
  <2>1. AirOf(c) /\ DOMAIN events = 1..Len(events) /\ api.onAir = c
    BY DEF Air, AirplayTypes, IsOnTheAir
  <2>2. ~Followed(c)
    BY <2>1 DEF Followed, Off
  <2>3. rec[c].st \in {"none", "running", "ended"}
    BY DEF AirplayTypes, ConnTypes
  <2>4. QED
    BY <2>1, <2>2, <2>3 DEF AirOf
<1>2. QED
  BY <1>1, AirplayTypesHold, AirHolds, PTL

\* SessionEndGuard and handle_airplay_event: a session that is over stays on
\* the air only when a poll task told of playing after the last SessionEnded.
THEOREM EndedSessionsLeave == AirplaySpec => []EndedLeavesTheAir
<1>1. AirplayTypes /\ Air => EndedLeavesTheAir
  <2> SUFFICES ASSUME AirplayTypes, Air, NEW c \in Conns, Over(c),
                      IsOnTheAir(c), api.playing
               PROVE  \E p \in Polls : poll[p].c = c /\ poll[p].late
    BY DEF EndedLeavesTheAir
  <2>1. /\ AirOf(c) /\ DOMAIN events = 1..Len(events) /\ PollTypes
        /\ EndTold(c)
    BY DEF Air, AirplayTypes, Over, EndTold
  <2>2. ~Followed(c)
    BY <2>1 DEF Followed, Off, Over
  <2>3. QED
    BY <2>1, <2>2 DEF AirOf, Late
<1>2. QED
  BY <1>1, AirplayTypesHold, AirHolds, PTL
=============================================================================
