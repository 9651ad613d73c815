------------------------------- MODULE Spirc -------------------------------
(***************************************************************************)
(* The Connect device (connect/src/spirc.rs, context_resolver.rs): one task*)
(* that serves the commands of its handle, the requests and updates of the *)
(* dealer, the events of the player and the answers to its context         *)
(* requests, one at a time and in any order, and drives the player through *)
(* the player's command channel.                                           *)
(*                                                                         *)
(* The player is what PlaybackProtocol promises of it: it takes commands in*)
(* order and every step of it is a step of the protocol.  A handler is an  *)
(* operator on the task, with an outcome [ok, s] where it returns a Result.*)
(***************************************************************************)
EXTENDS ConnectState

CONSTANTS Content,    \* the answers the server may give for a context URI
          Stations,   \* the answers it may give for an autoplay request
          Transfers,  \* the playbacks another device may hand over
          Scenes,     \* what occurs together: the kinds of input, the loads,
                      \* whether autoplay is on, and how many inputs
          MaxEvents,  \* bound: player events that are not read yet
          MaxSent,    \* bound: the length of the lists a client sends
          MaxVolume   \* the volume in steps of the up and down commands

Pages == Seq([tracks : Seq(Uris), inline : BOOLEAN, url : STRING])
Transfer == [uri : STRING, track : Uris, tracks : Seq(Uris), queue : Seq(Uris),
             playingQueue : BOOLEAN, paused : BOOLEAN, shuffle : BOOLEAN,
             initial : STRING]

\* A transfer that plays a queued track names it.
ASSUME SpircAssumption ==
  /\ DOMAIN Content \subseteq STRING
  /\ \A u \in DOMAIN Content : Content[u] \subseteq Pages
  /\ Stations \subseteq Pages
  /\ \A x \in Transfers : x \in Transfer /\ (x.playingQueue => x.queue # <<>>)
  /\ \A s \in Scenes :
       /\ s.loads \subseteq
            [uri : DOMAIN Content, index : Nat, shuffle : BOOLEAN]
       /\ s.autoplay \in BOOLEAN
  /\ MaxVolume \in Nat
  /\ MaxSent \in Nat /\ MaxSent >= MaxNext /\ MaxSent >= MaxPrev

VARIABLES task,  \* SpircTask
          pl,    \* the player: status, id and track of PlaybackProtocol, play
          pev,   \* the events in the task's player event channel
          ops,   \* inputs so far, bounded by scene.max
          scene  \* the scene that is played

vars == <<task, pl, pev, ops, scene>>

Protocol == INSTANCE PlaybackProtocol
              WITH Tracks <- Uris, NoTrack <- "", status <- pl.status,
                   id <- pl.id, track <- pl.track

PlayStatus == {"Stopped", "LoadingPlay", "LoadingPause", "Playing", "Paused"}
FetchThreshold == 2  \* CONTEXT_FETCH_THRESHOLD
NoTransfer == [uri |-> "no transfer"]

NewTask ==
  [cs |-> NewState, established |-> FALSE, requestId |-> 0,
   status |-> "Stopped", queue |-> <<>>, refused |-> {},
   transfer |-> NoTransfer, autoplay |-> TRUE, updateState |-> FALSE,
   volume |-> 0, mixer |-> 0, updateVolume |-> FALSE, cmds |-> <<>>,
   stuck |-> FALSE, ended |-> FALSE, failed |-> FALSE]

SpircInit ==
  /\ pl = [status |-> "none", id |-> 0, track |-> "", play |-> FALSE]
  /\ pev = <<>>
  /\ ops = 0
  /\ scene \in Scenes
  /\ task = [NewTask EXCEPT !.autoplay = scene.autoplay]

\* An outcome of the connect state as one of the task.
Lift(t, r) == [ok |-> r.ok, s |-> [t EXCEPT !.cs = r.s]]

\* A command for the player; in a scene without the player it is not kept.
Send(t, c, u, play) ==
  IF "player" \notin scene.inputs THEN t
  ELSE [t EXCEPT !.cmds = Append(@, [cmd |-> c, track |-> u,
                                           play |-> play])]

-----------------------------------------------------------------------------
(* The context resolver                                                    *)

Resolve(u, fallback, ty, action) ==
  [uri |-> u, fallback |-> fallback, update |-> ty, action |-> action]

\* resolve_uri: a request with neither a URI nor a fallback can't be made.
Valid(e) == e.uri # "" \/ e.fallback # ""

\* A request that failed within the last hour, or is queued, isn't added.
ResolverAdd(t, e) ==
  IF e \in t.refused \/ e \in Range(t.queue) THEN t
  ELSE [t EXCEPT !.queue = Append(@, e)]

HasNext(t) == \E i \in DOMAIN t.queue : Valid(t.queue[i])
NextPosition(t) == CHOOSE i \in DOMAIN t.queue :
                     Valid(t.queue[i]) /\ \A j \in 1..(i - 1) : ~Valid(t.queue[j])
FindNext(t) == t.queue[NextPosition(t)]

\* remove_used_and_invalid
RemoveUsed(t) ==
  [t EXCEPT !.queue = IF @ = <<>> THEN @
                      ELSE IF HasNext(t)
                      THEN SubSeq(@, NextPosition(t) + 1, Len(@)) ELSE Tail(@)]

\* The pages behind the first that are given by URL are requested.
AskForPages(t, pages) ==
  LET asked[n \in 0..(Len(pages) - 1)] ==
        IF n = 0 THEN t
        ELSE IF pages[n + 1].inline THEN asked[n - 1]
        ELSE ResolverAdd(asked[n - 1],
                         Resolve(pages[n + 1].url, "", "default", "append"))
  IN asked[Len(pages) - 1]

\* apply_next_context
ApplyNextContext(t, pages) ==
  LET e == FindNext(t)
      r == IF e.action = "replace"
           THEN UpdateContext(t.cs, e.update, e.uri, pages)
           ELSE IF Len(pages) = 1
           THEN FillContextFromPage(t.cs, pages[1].tracks) ELSE Err(t.cs)
  IN IF r.ok /\ e.action = "replace" THEN AskForPages(Lift(t, r).s, pages)
     ELSE Lift(t, r).s

\* try_finish: [done, t].  The state is set up once the last request of its
\* kind is answered, unless another context is the active one.
TryFinish(t, how) ==
  LET e == FindNext(t)
      same == {i \in DOMAIN t.queue : t.queue[i].update = e.update}
      c == GetContext(t.cs, t.cs.activeContext)
      found == PositionOf(c.tracks, t.cs.track.uri)
      r == IF t.transfer # NoTransfer
           THEN FinishTransfer(t.cs, t.transfer, how)
           ELSE IF t.cs.shuffle /\ e.update = "default"
           THEN ShuffleNew(t.cs, how)
           ELSE IF c.some /\ c.index = 0
           THEN ResetPlaybackToPosition(t.cs, IF found = 0 THEN 0
                                              ELSE found - 1)
           ELSE FillUpNextTracks(t.cs)
  IN IF \/ Cardinality(same) # 1
        \/ e.update = "default" /\ t.cs.activeContext # "default"
     THEN [done |-> FALSE, t |-> t]
     ELSE [done |-> TRUE,
           t |-> [t EXCEPT !.cs = UpdateRestrictions(r.s),
                           !.transfer = NoTransfer]]

AddAutoplayWhenRequired(t) ==
  IF Len(t.cs.next) >= FetchThreshold \/ ~t.autoplay \/ t.cs.uri = "" THEN t
  ELSE ResolverAdd(t, Resolve(t.cs.uri, t.cs.track.uri, "autoplay",
         IF t.cs.context["autoplay"].tracks # <<>> THEN "append"
         ELSE "replace"))

\* The answers the server may give to the next request: pages, or an error.
NoAnswer == <<>>
Answers(t) == {NoAnswer} \cup
  (IF FindNext(t).update = "autoplay" THEN Stations
   ELSE LET u == FindNext(t).uri
        IN IF u \in DOMAIN Content THEN Content[u] ELSE {})

\* handle_next_context: [done, t]
HandleNextContext(t, answer, how) ==
  LET more(fin) ==
        [fin EXCEPT !.t = RemoveUsed(IF fin.done THEN AddAutoplayWhenRequired(@)
                                     ELSE @)]
  IN IF answer = NoAnswer
     THEN [done |-> FALSE,
           t |-> RemoveUsed([t EXCEPT !.refused = @ \cup {FindNext(t)}])]
     ELSE more(TryFinish(ApplyNextContext(t, answer), how))

-----------------------------------------------------------------------------
(* Playing                                                                 *)

\* notify: the play status is published; whether the server takes it or not.
Notify(t) == [t EXCEPT !.cs = SetStatus(@, t.status)]

\* handle_stop leaves the play status to the Stopped event.
HandleStop(t) ==
  [Send(t, "Stop", "", FALSE) EXCEPT
     !.cs = ResetPlaybackToPosition(ClearNextTracks(@), 0).s]

LoadTrack(t, play) ==
  LET st == IF play THEN "LoadingPlay" ELSE "LoadingPause"
  IN CASE t.cs.track = NoTrack -> Ok(HandleStop(t))
       [] t.cs.track = Delimiter -> Err(t)  \* not the URI of a track
       [] OTHER -> Ok([Send(t, "Load", t.cs.track.uri, play) EXCEPT
                         !.status = st, !.cs = SetStatus(@, st)])

SetVolume(t, v) ==
  IF t.volume = v /\ t.mixer = v THEN t
  ELSE [t EXCEPT !.volume = v, !.mixer = v, !.updateVolume = TRUE]

\* Resuming takes the volume over from the mixer, which others may turn.
HandlePlay(t) ==
  CASE t.status = "Paused" ->
         SetVolume([Send(t, "Play", "", FALSE) EXCEPT !.status = "Playing"],
                   t.mixer)
    [] t.status = "LoadingPause" ->
         SetVolume([Send(t, "Play", "", FALSE) EXCEPT
                      !.status = "LoadingPlay"], t.mixer)
    [] OTHER -> t

HandlePause(t) ==
  CASE t.status = "Playing" ->
         [Send(t, "Pause", "", FALSE) EXCEPT !.status = "Paused"]
    [] t.status = "LoadingPlay" ->
         [Send(t, "Pause", "", FALSE) EXCEPT !.status = "LoadingPause"]
    [] OTHER -> t

HandlePlayPause(t) ==
  IF t.status \in {"Paused", "LoadingPause"} THEN HandlePlay(t)
  ELSE HandlePause(t)

\* The loop of handle_next: on to the track asked for ("": to the next one).
\* done stays FALSE if no number of rounds reaches that track.
SkipTo(cs, u) ==
  LET reached(r) == [ok |-> r.ok, found |-> r.found, s |-> r.s,
                     done |-> ~r.ok \/ u = "" \/ r.s.track.uri = u]
      rounds == Len(cs.next) + 4 + 2 * (Len(cs.context["default"].tracks)
                                        + Len(cs.context["autoplay"].tracks))
      round(g) == IF g.done THEN g ELSE reached(NextTrack(g.s))
      after[n \in 0..rounds] ==
        IF n = 0 THEN [ok |-> TRUE, found |-> FALSE, s |-> cs, done |-> FALSE]
        ELSE round(after[n - 1])
  IN after[rounds]

HandleNextSilently(t, u) ==
  With(SkipTo(t.cs, u), LAMBDA g : [ok |-> g.found, s |-> [t EXCEPT !.cs = g.s]])

HandleNext(t, u) ==
  LET here == u # "" /\ t.cs.track.uri = u
      stay == [ok |-> TRUE, found |-> TRUE, s |-> t.cs, done |-> TRUE]
      play(x, g) ==
        IF ~g.done THEN Ok([x EXCEPT !.stuck = TRUE])
        ELSE IF ~g.ok THEN Err(x)
        ELSE IF g.found THEN LoadTrack(AddAutoplayWhenRequired(x),
                                       IsPlaying(t.cs))
        ELSE Ok(HandleStop(x))
  IN With(IF here THEN stay ELSE SkipTo(t.cs, u),
          LAMBDA g : play([t EXCEPT !.cs = g.s], g))

\* On to the next track, whichever it is.
HandleNextTrack(t) == HandleNext(t, "")

\* early: the position is less than three seconds.
HandlePrev(t, early) ==
  LET back(x, r) ==
        IF ~r.ok THEN Err(x)
        ELSE IF r.found THEN LoadTrack(x, IsPlaying(x.cs))
        ELSE Then(Lift(x, ResetPlaybackToPosition(x.cs, 0)),
                  LAMBDA y : Ok(IF y.cs.repeatContext THEN y
                                ELSE HandleStop(y)))
  IN IF ~early THEN Ok(t)  \* handle_seek(0)
     ELSE With(PrevTrack(t.cs), LAMBDA r : back([t EXCEPT !.cs = r.s], r))

HandleActivate(t) == [t EXCEPT !.cs.active = TRUE]

\* handle_disconnect; net says which of its two requests to the server fails.
HandleDisconnect(t, net) ==
  LET off == Notify([t EXCEPT !.queue = <<>>, !.status = "Stopped"])
      gone == [off EXCEPT !.cs = BecameInactive(@)]
  IN CASE net = "notify fails" -> Err(off)
       [] net = "inactive fails" -> Err(gone)
       [] OTHER -> Ok(gone)
Net == {"up", "notify fails", "inactive fails"}

\* load_context_from_uri: nothing is requested for the context at hand.
LoadContextFromUri(t, u, answer, how) ==
  LET a == [HandleActivate(t) EXCEPT !.cs = SetActiveContext(@, "default")]
      ask(q) == IF HasNext(q) THEN HandleNextContext(q, answer, how).t ELSE q
  IN IF a.cs.uri = u THEN a
     ELSE ask(ResolverAdd([a EXCEPT !.queue = <<>>],
                          Resolve(u, u, "default", "replace")))

LoadContextFromTracks(t, uris) ==
  Lift(t, UpdateContext(t.cs, "default", "spotify:web-api",
                        <<[tracks |-> uris, inline |-> TRUE, url |-> ""]>>))

\* handle_load from the i-th track on (a random one, for a shuffle without an
\* index); answer is what the server says if it has to be asked.
HandleLoad(t, u, answer, i, shuffle, how) ==
  LET r == [t EXCEPT !.cs = ResetOptions(ResetContext(@, WhenDifferent(@, u)))]
      open(c) == [c EXCEPT !.cs = [ClearRestrictions(ClearNextTracks(
                 SetActiveContext(@, "default"))) EXCEPT !.shuffle = shuffle]]
      begun(x) ==
        IF shuffle /\ HasNext(x) THEN Ok(x)
        ELSE Then(Lift(x, IF shuffle THEN ShuffleNew(x.cs, how)
                          ELSE ResetPlaybackToPosition(x.cs, i)),
                  LAMBDA y : Ok(AddAutoplayWhenRequired(y)))
      start(x) == Then(Lift(x, SetCurrentTrack(x.cs, i)), begun)
  IN Then(start(open(LoadContextFromUri(r, u, answer, how))),
          LAMBDA x : LoadTrack(x, TRUE))

\* handle_transfer: the track plays at once; the window is set up when the
\* context has been resolved, or at once if the transfer carries its tracks.
HandleTransfer(t, x) ==
  LET how == IF x.uri = "" THEN "completely" ELSE WhenDifferent(t.cs, x.uri)
      r == [t EXCEPT !.cs = [ResetContext(@, how) EXCEPT
                               !.track = CurrentTrackFromTransfer(t.cs, x)]]
      asked == ResolverAdd(r, Resolve(x.uri, r.cs.track.uri, "default",
                                      "replace"))
      listed == LoadContextFromTracks(r, x.tracks)
      ready(y, u) == [HandleActivate(y) EXCEPT
                        !.cs = [HandleInitialTransfer(@, x, u) EXCEPT
                                  !.activeContext = "default"]]
      found(y) == PositionOf(y.cs.context["default"].tracks, y.cs.track.uri)
      placed(y) == IF found(y) = 0 THEN Err(y)
                   ELSE Lift(y, ResetPlaybackToPosition(y.cs, found(y) - 1))
  IN IF x.uri # ""
     THEN LoadTrack([ready(asked, x.uri) EXCEPT !.transfer = x], ~x.paused)
     ELSE IF x.tracks = <<>>  \* no context at all: left to a later answer
     THEN LoadTrack([ready(r, r.cs.track.uri) EXCEPT !.transfer = x],
                    ~x.paused)
     ELSE Then(Then(listed, LAMBDA y : placed(ready(y, "spotify:unknown"))),
               LAMBDA y : LoadTrack(y, ~x.paused))

-----------------------------------------------------------------------------
(* The branches of the task's loop                                         *)

Running == ~task.stuck /\ ~task.ended
Input(kind) == /\ Running /\ task.established /\ kind \in scene.inputs
               /\ ops < scene.max /\ ops' = ops + 1
Quiet == UNCHANGED <<pl, pev, scene>>

\* A command of the handle is answered with a notification unless its handler
\* returned an error; a request of the dealer has it sent a little later.
\* (failed is kept for the properties: a handler stopped half-way.)
Failed(t) == [t EXCEPT !.failed = TRUE]
AfterCommand(r) == IF r.ok THEN Notify(r.s) ELSE Failed(r.s)
AfterRequest(r) ==
  IF r.ok THEN [r.s EXCEPT !.updateState = TRUE] ELSE Failed(r.s)

\* The dealer's first message; the server may answer the announcement of the
\* device with the playback to continue, or not at all, which ends the task.
ConnectionId ==
  /\ Running /\ ~task.established /\ Quiet /\ UNCHANGED ops
  /\ \/ task' = [task EXCEPT !.established = TRUE]
     \/ task' = [task EXCEPT !.ended = TRUE]
     \/ /\ "transfer" \in scene.inputs
        /\ \E x \in Transfers :
             LET r == HandleTransfer([task EXCEPT !.established = TRUE], x)
             IN task' = IF r.ok THEN r.s ELSE Failed(r.s)

\* Commands an active device carries out, and requests of the same effect.
Effects(t, kind) ==
  CASE kind = "play" -> {Ok(HandlePlay(t))}
    [] kind = "pause" -> {Ok(HandlePause(t))}
    [] kind = "playPause" -> {Ok(HandlePlayPause(t))}
    [] kind = "next" -> {HandleNextTrack(t)}
    [] kind = "prev" ->
         {HandlePrev(t, early) :
            early \in IF t.status = "Stopped" THEN {TRUE} ELSE BOOLEAN}
    [] kind = "shuffle" ->
         {Lift(t, HandleShuffle(t.cs, on, how)) :
            on \in BOOLEAN, how \in Arrangements}
    [] kind = "repeat" ->
         {Lift(t, HandleSetRepeatContext(t.cs, on)) : on \in BOOLEAN}
    [] kind = "repeatTrack" -> {Ok([t EXCEPT !.cs.repeatTrack = ~@])}
    [] kind = "queue" -> {Ok([t EXCEPT !.cs = AddToQueue(@, u)]) : u \in Uris}
    [] kind = "volume" -> {Ok(SetVolume(t, v)) : v \in 0..MaxVolume}
Kinds == {"play", "pause", "playPause", "next", "prev", "shuffle", "repeat",
          "repeatTrack", "queue", "volume"}

Command(kind) ==
  /\ kind \in Kinds /\ Input(kind) /\ Quiet
  /\ \E r \in IF task.cs.active THEN Effects(task, kind) ELSE {Ok(task)} :
       task' = AfterCommand(r)

\* A request is not refused by a device that is not active; a resume of a
\* stopped device loads the current track again.
Request(kind) ==
  /\ kind \in Kinds \ {"playPause"} /\ Input(kind) /\ Quiet
  /\ \E r \in IF kind = "play" /\ task.status = "Stopped"
              THEN {LoadTrack(task, TRUE)} ELSE Effects(task, kind) :
       task' = AfterRequest(r)

Loads(t) ==
  UNION {{HandleLoad(t, l.uri, a, l.index, l.shuffle, how) :
            a \in Content[l.uri] \cup {NoAnswer}, how \in Arrangements} :
         l \in scene.loads}

LoadCommand ==
  /\ Input("load") /\ Quiet /\ task.cs.active
  /\ \E r \in Loads(task) : task' = AfterCommand(r)

PlayRequest ==
  /\ Input("load") /\ Quiet
  /\ \E r \in Loads(HandleActivate(task)) : task' = AfterRequest(r)

ActivateCommand ==
  /\ Input("activate") /\ Quiet /\ ~task.cs.active
  /\ task' = Notify(HandleActivate(task))

TransferRequest ==
  /\ Input("transfer") /\ Quiet
  /\ \E x \in Transfers : task' = AfterCommand(HandleTransfer(task, x))

SkipNextRequest ==
  /\ Input("skip") /\ Quiet
  /\ \E u \in Uris : task' = AfterRequest(HandleNext(task, u))

\* A client that shows the queue removes an entry of it, or puts one first,
\* and sends the tracks played before, as it was told or as it has them: here,
\* the current one many times.  The lists are taken as they come, also when
\* they are longer than the window.
SetQueueRequest ==
  /\ Input("setQueue") /\ Quiet
  /\ \E next \in {RemoveAt(task.cs.next, i) : i \in DOMAIN task.cs.next}
            \cup {<<Provided(u, "queue", -1)>> \o task.cs.next :
                    u \in IF Len(task.cs.next) < MaxSent THEN Uris ELSE {}},
        prev \in {task.cs.prev, [i \in 1..MaxSent |->
                                   Provided(task.cs.track.uri, "queue", -1)]} :
       task' = [task EXCEPT !.updateState = TRUE,
                  !.cs = HandleSetQueue(@, next, prev)]

\* update_context for the current context, or for one without a URI, and the
\* modification of the playlist that is the current context.
ContextChanged ==
  /\ Input("context") /\ Quiet
  /\ \/ task' = ResolverAdd(task, Resolve("", "", "default", "replace"))
     \/ /\ task.cs.uri # ""
        /\ task' = ResolverAdd(task, Resolve(task.cs.uri, task.cs.track.uri,
                                             "default", "replace"))

AutoplayToggled ==
  /\ Input("autoplay") /\ Quiet
  /\ task' = AddAutoplayWhenRequired([task EXCEPT !.autoplay = ~@])

\* Another device is active now; the cluster is missing in the update; or the
\* update is about something else, and answered with the state.
ClusterUpdate ==
  /\ Input("cluster") /\ Quiet /\ task.cs.active
  /\ \/ \E net \in Net : LET r == HandleDisconnect(task, net)
                         IN task' = IF r.ok THEN HandleStop(r.s) ELSE r.s
     \/ task' = [task EXCEPT !.cs = BecameInactive(@)]
     \/ task' = [task EXCEPT !.updateState = TRUE]

DisconnectCommand ==
  /\ Input("disconnect") /\ Quiet /\ task.cs.active
  /\ \E pause \in BOOLEAN, net \in Net :
       task' = HandleDisconnect(IF pause THEN HandlePause(task) ELSE task,
                                net).s

\* A shutdown that could not be announced does not end the loop; a session
\* that has become invalid does.
Shutdown ==
  /\ Input("shutdown") /\ Quiet
  /\ \E net \in Net :
       \/ LET r == HandleDisconnect(HandlePause(task), net)
          IN task' = [r.s EXCEPT !.ended = r.ok]
       \/ task' = [IF task.cs.active THEN HandleDisconnect(task, net).s
                   ELSE task EXCEPT !.ended = TRUE]

StateDelay ==
  /\ Running /\ task.updateState /\ Quiet /\ UNCHANGED ops
  /\ task' = Notify([task EXCEPT !.updateState = FALSE])

VolumeDelay ==
  /\ Running /\ task.updateVolume /\ Quiet /\ UNCHANGED ops
  /\ task' = Notify([task EXCEPT !.updateVolume = FALSE])

MixerTurned ==
  /\ Input("volume") /\ Quiet
  /\ \E v \in 0..MaxVolume : task' = [task EXCEPT !.mixer = v]

\* Contexts are resolved only when no state or volume update is due.
NextContext ==
  /\ Running /\ ~task.updateState /\ ~task.updateVolume /\ HasNext(task)
  /\ Quiet /\ UNCHANGED ops
  /\ \E a \in Answers(task), how \in Arrangements :
       LET h == HandleNextContext(task, a, how)
       IN task' = IF h.done THEN Notify(h.t) ELSE h.t

HourPasses ==
  /\ Input("hour") /\ Quiet /\ task.refused # {}
  /\ task' = [task EXCEPT !.refused = {}]

-----------------------------------------------------------------------------
(* handle_player_event                                                     *)

PlayerEvent(t, e) ==
  LET due == [t EXCEPT !.updateState = TRUE]
      to(st) == [due EXCEPT !.status = st]
      skip(x) == IF x.cs.track.uri = e.track THEN HandleNextTrack(x) ELSE Ok(x)
  IN IF e.event = "PlayRequestIdChanged" THEN [t EXCEPT !.requestId = e.id]
     ELSE IF e.id # t.requestId THEN t
     ELSE
     CASE e.event = "EndOfTrack" ->
            AfterRequest(HandleNext(t, IF t.cs.repeatTrack THEN t.cs.track.uri
                                       ELSE ""))
       [] e.event = "Loading" -> due
       [] e.event = "Playing" ->
            IF t.status \in {"LoadingPlay", "LoadingPause"} THEN to("Playing")
            ELSE IF t.status = "Playing" THEN due ELSE t
       [] e.event = "Paused" ->
            IF t.status = "Stopped" THEN t ELSE to("Paused")
       [] e.event = "Stopped" ->
            IF t.status = "Stopped" THEN t ELSE to("Stopped")
       [] e.event = "Unavailable" ->
            AfterRequest(Then(Lift(t, MarkUnavailable(t.cs, e.track)), skip))

HandlePlayerEvent ==
  /\ Running /\ pev # <<>>
  /\ task' = PlayerEvent(task, Head(pev))
  /\ pev' = Tail(pev)
  /\ UNCHANGED <<pl, ops, scene>>

-----------------------------------------------------------------------------
(* The player, by its protocol                                             *)

Event(name, p) == [event |-> name, id |-> p.id, track |-> p.track]
Room == Len(pev) + 2 <= MaxEvents

\* The player announces its new status.
Announce(p, more) ==
  /\ pl' = p
  /\ pev' = pev \o more \o <<Event(p.status, p)>>
  /\ UNCHANGED scene

Took(c) == /\ Room /\ task.cmds # <<>> /\ Head(task.cmds).cmd = c
           /\ task' = [task EXCEPT !.cmds = Tail(@)]

PlayerLoads ==
  /\ Took("Load")
  /\ LET c == Head(task.cmds)
         p == [status |-> "Loading", id |-> pl.id + 1, track |-> c.track,
               play |-> c.play]
     IN Announce(p, <<Event("PlayRequestIdChanged", p)>>)
  /\ Protocol!Request /\ UNCHANGED ops

\* Play and Pause are heard of a track that is loaded, remembered of one that
\* is loading, and without effect otherwise.
PlayerToggles ==
  \E c \in {"Play", "Pause"} :
    /\ Took(c)
    /\ LET st == IF c = "Play" THEN "Playing" ELSE "Paused"
       IN IF pl.status \in {"Playing", "Paused"} /\ pl.status # st
          THEN Announce([pl EXCEPT !.status = st], <<>>) /\ Protocol!Toggle
          ELSE /\ pl' = [pl EXCEPT !.play = IF pl.status = "Loading"
                                            THEN c = "Play" ELSE @]
               /\ UNCHANGED <<pev, scene>>
    /\ UNCHANGED ops

PlayerStops ==
  /\ Took("Stop") /\ UNCHANGED ops
  /\ IF pl.status \in {"none", "Stopped"} THEN UNCHANGED <<pl, pev, scene>>
     ELSE Announce([pl EXCEPT !.status = "Stopped"], <<>>) /\ Protocol!Stop

PlayerBegins ==
  /\ Room /\ pl.status = "Loading" /\ UNCHANGED <<task, ops>>
  /\ Announce([pl EXCEPT !.status = IF pl.play THEN "Playing" ELSE "Paused"],
              <<>>)
  /\ Protocol!Begin

PlayerFails ==
  /\ Input("unavailable") /\ Room /\ pl.status = "Loading"
  /\ UNCHANGED task
  /\ Announce([pl EXCEPT !.status = "Unavailable"], <<>>)
  /\ Protocol!Fail

PlayerEnds ==
  /\ Input("end") /\ Room /\ pl.status = "Playing" /\ UNCHANGED task
  /\ Announce([pl EXCEPT !.status = "EndOfTrack"], <<>>)
  /\ Protocol!End

SpircNext ==
  \/ ConnectionId \/ LoadCommand \/ PlayRequest \/ ActivateCommand
  \/ \E kind \in Kinds : Command(kind) \/ Request(kind)
  \/ TransferRequest \/ SkipNextRequest \/ SetQueueRequest
  \/ ContextChanged \/ AutoplayToggled \/ ClusterUpdate
  \/ DisconnectCommand \/ Shutdown \/ StateDelay \/ VolumeDelay
  \/ MixerTurned \/ NextContext \/ HourPasses \/ HandlePlayerEvent
  \/ PlayerLoads \/ PlayerToggles \/ PlayerStops \/ PlayerBegins
  \/ PlayerFails \/ PlayerEnds

SpircSpec == SpircInit /\ [][SpircNext]_vars

-----------------------------------------------------------------------------
(* Properties                                                              *)

Track == [uri : Uris \cup {"", "spotify:delimiter"},
          prov : {"none", "context", "queue", "autoplay", "unavailable",
                  "delimiter"},
          ci : Int]

\* How long the lists may be: a client's own are stored without a look at the
\* limits.
Limit(n) == IF "setQueue" \in scene.inputs THEN MaxSent ELSE n

\* The state is well-formed, and the window never outgrows the sizes that are
\* "essential" for the server (SPOTIFY_MAX_NEXT_TRACKS_SIZE,
\* SPOTIFY_MAX_PREV_TRACKS_SIZE), whatever skips, queues, shuffles and
\* refreshed contexts do to it, as long as no client sends a longer list.
TypeOK ==
  /\ task.status \in PlayStatus
  /\ task.cs.track \in Track
  /\ task.cs.next \in Seq(Track) /\ Len(task.cs.next) <= Limit(MaxNext)
  /\ task.cs.prev \in Seq(Track) /\ Len(task.cs.prev) <= Limit(MaxPrev)
  /\ task.cs.activeContext \in ContextType
  /\ task.volume \in 0..MaxVolume

\* A list that a client has made longer than the window gets no longer: no
\* other step lets a list outgrow its limit, or grow beyond it.
WindowStep ==
  \/ SetQueueRequest
  \/ /\ Len(task'.cs.next) > MaxNext =>
          Len(task'.cs.next) <= Len(task.cs.next)
     /\ Len(task'.cs.prev) > MaxPrev =>
          Len(task'.cs.prev) <= Len(task.cs.prev)
OverlongShrinks == [][WindowStep]_vars

\* The positions in the default context of the context tracks of v.
InOrder(c) == \A i \in DOMAIN c.tracks : c.tracks[i].ci = i - 1
Positions(v) == LET plain(t) == t.prov = "context"
                    w == SelectSeq(v, plain)
                IN [i \in DOMAIN w |-> PositionOf(
                                task.cs.context["default"].tracks, w[i].uri)]
Increasing(v) == \A i, j \in DOMAIN v : i < j => v[i] < v[j]

\* Without shuffle and repeat, the previous tracks, the current one and the
\* next ones are in the order of the context and none is there twice, whatever
\* was skipped, queued, appended, marked unavailable or handed over.  Not said
\* of a state that a handler left half-way, of a transfer whose context is not
\* there yet, and of contexts that are refreshed: find_last_index_in_new_
\* context guesses the index of a window that is full, and repeats a track.
WindowOrdered ==
  LET cs == task.cs
      c == cs.context["default"]
      w == Positions(cs.prev \o <<cs.track>> \o cs.next)
  IN (/\ c.some /\ InOrder(c) /\ ~cs.repeatContext /\ ~cs.shuffle
      /\ ~task.failed /\ task.transfer = NoTransfer
      /\ "context" \notin scene.inputs)
       => Increasing(w)

Settled == task.cmds = <<>> /\ pev = <<>> /\ Running

\* When no command and no event is on its way, the track that sounds is the
\* one the device shows.  Not said of shuffled transfers: finish_transfer puts
\* the context's track over the queued one that has been loaded.
PlayingIsShown ==
  (/\ Settled /\ task.cs.active /\ pl.status = "Playing" /\ ~task.failed
   /\ task.cs.track # NoTrack
   /\ "transfer" \in scene.inputs => ~task.cs.shuffle)
     => task.cs.track.uri = pl.track

QueueStep ==
  LET q == Clip(task.cs.next, QueueEnd(task.cs) - 1)
  IN \E k \in 0..Len(q) :
       /\ IsPrefix(SubSeq(q, k + 1, Len(q)), task'.cs.next)
       /\ k > 0 => task'.cs.track = q[k]

\* What the user queued is played in the order it was queued and is not lost
\* to a load, a transfer, a refreshed context or autoplay ("Does not overwrite
\* the queue"), nor to a window that is full.  Not said of the inputs that edit
\* the queue, and of skipping back: prev_track puts the current track before
\* the queue, and clear_next_tracks then throws both out.
QueueKept ==
  (/\ task'.cs.active /\ ~task'.failed
   /\ {"prev", "setQueue", "skip", "unavailable"} \cap scene.inputs = {})
     => QueueStep
QueueSurvives == [][QueueKept]_vars

\* The play requests that have been made, the commands under way included.
Issued ==
  pl.id + Cardinality({i \in DOMAIN task.cmds : task.cmds[i].cmd = "Load"})

\* "we only process events if the play_request_id matches. If it doesn't, it
\* is an event that belongs to a previous track": an event of a request that
\* another one has followed does not move the playback.  Violated: the id the
\* events are compared with is itself learnt from an event, so the EndOfTrack
\* of the old track still matches after the user's load or skip.
StaleEventsIgnored ==
  [][(pev # <<>> /\ pev' = Tail(pev) /\ Head(pev).id < Issued)
       => task'.cs.track = task.cs.track]_vars

\* The index of a context "is used to keep track which tracks are already
\* loaded into the next_tracks": every track between the current one and the
\* index is in the window, so none is skipped.  Violated: prev_track cuts the
\* window off at its end and leaves the index.
NothingSkipped ==
  LET cs == task.cs
      c == cs.context["default"]
      p == PositionOf(c.tracks, cs.track.uri)
  IN (/\ cs.activeContext = "default" /\ cs.fillUpContext = "default"
      /\ cs.track.prov = "context" /\ p > 0 /\ InOrder(c)
      /\ ~cs.shuffle /\ ~cs.repeatContext)
       => \A i \in (p + 1)..c.index :
            \E j \in DOMAIN cs.next : cs.next[j].uri = c.tracks[i].uri
=============================================================================
