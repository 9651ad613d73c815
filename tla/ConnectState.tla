---------------------------- MODULE ConnectState ----------------------------
(***************************************************************************)
(* The player state a Connect device publishes (connect/src/state.rs and   *)
(* state/): the current track, a window of previous and of next tracks, the*)
(* contexts the window is filled from, and the options.                    *)
(*                                                                         *)
(* A state is a record; an operation is an operator from a state to a      *)
(* state, or to an outcome [ok, s] where the code returns a Result: ok is  *)
(* FALSE where the code returns early with an error, and s is then the     *)
(* half-changed state it leaves behind.  Positions in the playback, uids,  *)
(* metadata, revisions and the wording of restrictions are left out.       *)
(***************************************************************************)
EXTENDS Integers, Sequences, SequencesExt, FiniteSets

CONSTANTS Uris,     \* the track URIs
          MaxNext,  \* SPOTIFY_MAX_NEXT_TRACKS_SIZE
          MaxPrev   \* SPOTIFY_MAX_PREV_TRACKS_SIZE

ASSUME ConnectAssumption ==
  Uris \subseteq STRING /\ MaxNext \in Nat \ {0} /\ MaxPrev \in Nat

ContextType == {"default", "autoplay"}

\* A ProvidedTrack: its provider, and its index in the context (-1: not set).
\* A delimiter is a hidden track of provider "context" with a uid of its own.
Provided(u, p, i) == [uri |-> u, prov |-> p, ci |-> i]
NoTrack == Provided("", "none", -1)
Delimiter == Provided("spotify:delimiter", "delimiter", -1)

IsContext(t) == t.prov \in {"context", "delimiter"}
IsQueue(t) == t.prov = "queue"
IsAutoplay(t) == t.prov = "autoplay"
IsUnavailable(t) == t.prov = "unavailable"
IsDelimiter(t) == t.prov = "delimiter"

-----------------------------------------------------------------------------
(* ShuffleVec: the tracks of a context and what is needed to undo a shuffle*)

NoUndo == [orig |-> <<>>, first |-> 0]
Swap(v, i, j) == [v EXCEPT ![i] = v[j], ![j] = v[i]]

\* The 1-based position of the first track with the URI, 0 if there is none.
PositionOf(v, u) == LET I == {i \in DOMAIN v : v[i].uri = u}
                    IN IF I = {} THEN 0 ELSE CHOOSE i \in I : \A j \in I : i <= j

\* Permutations the random generator may produce.
Arrangements == {"reversed", "rotated"}
Arrange(v, how) ==
  IF how = "reversed" THEN Reverse(v) ELSE Append(Tail(v), Head(v))

\* unshuffle: the swaps are undone from the back, by an index computed from
\* the present length; when tracks were pushed since, the first lookup fails
\* and only the swap of the first track is undone.
Unshuffle(c) ==
  IF c.undo = NoUndo THEN c
  ELSE LET back == IF c.undo.first = 0 THEN c.tracks
                   ELSE Swap(c.tracks, 1, c.undo.first)
       IN [c EXCEPT !.undo = NoUndo,
                    !.tracks = IF Len(@) = Len(c.undo.orig) THEN c.undo.orig
                               ELSE back]

ShuffleWithSeed(c, how, u) ==
  IF Len(c.tracks) <= 1 THEN c
  ELSE LET b == Unshuffle(c)
           v == Arrange(b.tracks, how)
           f == PositionOf(v, u)
       IN [b EXCEPT !.tracks = IF f = 0 THEN v ELSE Swap(v, 1, f),
                    !.undo = [orig |-> b.tracks, first |-> f]]

-----------------------------------------------------------------------------
(* The state                                                               *)

NoInitial == "no initial track"
NoContext == [some |-> FALSE, tracks |-> <<>>, index |-> 0,
              initial |-> NoInitial, undo |-> NoUndo]

\* ConnectState::reset leaves the contexts, which became_inactive clears.
ResetPlayer(s) ==
  [s EXCEPT !.active = FALSE, !.track = NoTrack, !.index = 0, !.prev = <<>>,
            !.next = <<>>, !.shuffle = FALSE, !.repeatContext = FALSE,
            !.repeatTrack = FALSE, !.uri = "", !.flag = "unset",
            !.barred = FALSE]

NewState ==
  [active |-> FALSE, track |-> NoTrack, index |-> 0, prev |-> <<>>,
   next |-> <<>>, shuffle |-> FALSE, repeatContext |-> FALSE,
   repeatTrack |-> FALSE, uri |-> "", flag |-> "unset", barred |-> FALSE,
   context |-> [c \in ContextType |-> NoContext],
   activeContext |-> "default", fillUpContext |-> "default",
   unavailable |-> {}]

Ok(s) == [ok |-> TRUE, s |-> s]
Err(s) == [ok |-> FALSE, s |-> s]
Then(r, Op(_)) == IF r.ok THEN Op(r.s) ELSE r
With(x, Op(_)) == Op(x)

\* is_playing as other devices perceive it: what was last published.
IsPlaying(s) == s.flag = "playing"

\* set_status: Stopped is published as paused.
SetStatus(s, status) ==
  [s EXCEPT !.flag = IF status \in {"LoadingPlay", "Playing"} THEN "playing"
                     ELSE "paused",
            !.barred = IsAutoplay(s.track)]

UpdateRestrictions(s) == [s EXCEPT !.barred = IsAutoplay(s.track)]
ClearRestrictions(s) == [s EXCEPT !.barred = FALSE]

SetActiveContext(s, c) == [s EXCEPT !.activeContext = c, !.barred = FALSE]

GetContext(s, c) == s.context[c]
UpdateContextIndex(s, c, i) ==
  IF s.context[c].some THEN Ok([s EXCEPT !.context[c].index = i]) ELSE Err(s)

\* The track a shuffle started from is not filled in again in the first round.
IsSkipTrack(s, t, iteration) ==
  LET c == GetContext(s, s.activeContext)
  IN c.some /\ c.initial = t.uri /\ iteration = 0

\* how: "index" (DefaultIndex), "completely", or "keep" (WhenDifferent, same)
ResetContext(s, how) ==
  LET plain == [Unshuffle(s.context["default"]) EXCEPT !.initial = NoInitial]
      ctx == CASE how = "completely" -> [c \in ContextType |-> NoContext]
               [] how = "index" ->
                    [c \in ContextType |->
                       [(IF c = "default" THEN plain ELSE s.context[c])
                          EXCEPT !.index = 0]]
               [] OTHER -> [s.context EXCEPT !["default"] = plain]
  IN [s EXCEPT !.context = ctx, !.fillUpContext = "default",
               !.activeContext = "default", !.barred = IsAutoplay(s.track),
               !.uri = IF how = "completely" THEN "" ELSE @]

WhenDifferent(s, u) == IF s.uri = u THEN "keep" ELSE "completely"

BecameInactive(s) == ResetContext(ResetPlayer(s), "completely")

-----------------------------------------------------------------------------
(* The window of tracks (state/tracks.rs)                                  *)

Latest(v, n) == SubSeq(v, IF Len(v) > n THEN Len(v) - n + 1 ELSE 1, Len(v))

\* push_prev for each track of v: a list that is full, or that a client has
\* sent and is longer than that, loses one for each.
PushOnlyAtLimit(prev, v) ==
  Latest(prev \o v, IF Len(prev) = MaxPrev THEN MaxPrev ELSE Len(prev \o v))
PushPrev(prev, v) ==
  Latest(prev \o v, IF Len(prev) > MaxPrev THEN Len(prev) ELSE MaxPrev)

Clip(v, n) == SubSeq(v, 1, IF Len(v) < n THEN Len(v) ELSE n)

\* The place behind the queued tracks at the head of the window.
QueueEnd(s) == LET plain == {i \in DOMAIN s.next : ~IsQueue(s.next[i])}
               IN IF plain = {} THEN Len(s.next) + 1
                  ELSE CHOOSE i \in plain : \A j \in plain : i <= j

ClearAllNextTracks(s) == [s EXCEPT !.next = <<>>]

\* Everything from the first track that is not queued on is thrown out.
ClearNextTracks(s) == [s EXCEPT !.next = Clip(@, QueueEnd(s) - 1)]

SetCurrentTrack(s, i) ==
  LET c == GetContext(s, s.activeContext)
  IN IF ~c.some \/ i >= Len(c.tracks) THEN Err(s)
     ELSE Ok([s EXCEPT !.track = c.tracks[i + 1], !.index = i])

\* One round of the loop of fill_up_next_tracks; f.i and f.iteration are its
\* local variables, f.s the state.
FillStep(f) ==
  LET c == GetContext(f.s, f.s.fillUpContext)
      push(t) == [f.s EXCEPT !.next = Append(@, t)]
  IN IF f.done \/ Len(f.s.next) >= MaxNext THEN [f EXCEPT !.done = TRUE]
     ELSE IF f.i < Len(c.tracks)
     THEN LET t == c.tracks[f.i + 1]
          IN IF IsUnavailable(t) \/ IsSkipTrack(f.s, t, f.iteration)
             THEN [f EXCEPT !.i = @ + 1]
             ELSE [f EXCEPT !.i = @ + 1, !.s = push(t)]
     ELSE IF f.s.repeatContext
     THEN [f EXCEPT !.i = 0, !.iteration = @ + 1, !.s = push(Delimiter)]
     ELSE IF f.s.fillUpContext # "autoplay" /\ f.s.context["autoplay"].some
     THEN [f EXCEPT !.i = f.s.context["autoplay"].index,
                    !.s = [push(Delimiter) EXCEPT
                             !.context[f.s.fillUpContext].index = f.i,
                             !.fillUpContext = "autoplay"]]
     ELSE [f EXCEPT !.done = TRUE]

\* Enough rounds for the loop to end: every pass over a context pushes a
\* delimiter, so it visits each track at most MaxNext + 1 times.
FillRounds(s) ==
  (MaxNext + 2) * (1 + Len(s.context["default"].tracks)
                     + Len(s.context["autoplay"].tracks))

FillLoop(s) ==
  LET begin == [s |-> s, i |-> GetContext(s, s.fillUpContext).index,
                iteration |-> 0, done |-> FALSE]
      after[n \in 0..FillRounds(s)] ==
        IF n = 0 THEN begin ELSE FillStep(after[n - 1])
  IN after[FillRounds(s)]

FillUpWithoutIndex(s) ==
  IF ~GetContext(s, s.fillUpContext).some THEN Err(s)
  ELSE Ok(FillLoop(s).s)

FillUpNextTracks(s) ==
  LET stored(f) == [f.s EXCEPT !.context[f.s.fillUpContext].index = f.i]
  IN IF ~GetContext(s, s.fillUpContext).some THEN Err(s)
     ELSE Ok(stored(FillLoop(s)))

\* The outcome of going on to t, or back to it (found: there was one).
Gone(s) == [ok |-> TRUE, found |-> FALSE, s |-> s]
Moved(r, Op(_)) == IF r.ok THEN [ok |-> TRUE, found |-> TRUE,
                                 s |-> UpdateRestrictions(Op(r.s))]
                   ELSE [ok |-> FALSE, found |-> FALSE, s |-> r.s]

\* next_track drops delimiters and unavailable tracks at the head of the
\* window.  When there is no next track, or filling up fails, the current
\* track is gone.
NextTrack(s) ==
  LET old == [s EXCEPT !.repeatTrack = FALSE, !.track = NoTrack]
      past == IF IsContext(s.track) \/ IsAutoplay(s.track)
              THEN [old EXCEPT !.prev = PushPrev(@, <<s.track>>)] ELSE old
      heads == {i \in DOMAIN s.next : ~IsDelimiter(s.next[i])
                                      /\ ~IsUnavailable(s.next[i])}
      ends(k) == Cardinality({i \in 1..(k - 1) : IsDelimiter(s.next[i])})
      from(k) == [past EXCEPT
                    !.prev = PushPrev(@, [i \in 1..ends(k) |-> Delimiter]),
                    !.next = SubSeq(s.next, k + 1, Len(s.next))]
      play(x, t) ==
        [(IF IsAutoplay(t) THEN SetActiveContext(x, "autoplay") ELSE x)
           EXCEPT !.track = t,
                  !.index = IF IsContext(t) /\ t.ci >= 0 THEN t.ci ELSE 0]
      goTo(k) == Moved(FillUpNextTracks(from(k)),
                       LAMBDA x : play(x, s.next[k]))
  IN IF heads = {} THEN Gone(from(Len(s.next) + 1))
     ELSE goTo(CHOOSE i \in heads : \A j \in heads : i <= j)

PrevTrack(s) ==
  LET next == IF IsContext(s.track) \/ IsAutoplay(s.track)
              THEN <<s.track>> \o s.next ELSE s.next
      delim == s.prev # <<>> /\ IsDelimiter(Last(s.prev))
      prev == IF delim THEN Front(s.prev) ELSE s.prev
      cut == [s EXCEPT !.track = NoTrack, !.prev = prev,
                !.next = IF delim THEN <<Delimiter>> \o Clip(next, MaxNext - 1)
                         ELSE Clip(next, MaxNext)]
      home(x) == IF x.activeContext = "autoplay" /\ IsContext(Last(prev))
                 THEN SetActiveContext(x, "default") ELSE x
      play(x) == [x EXCEPT !.track = Last(prev),
                           !.index = IF @ = 0 THEN 0 ELSE @ - 1]
  IN IF prev = <<>> THEN Gone(cut)
     ELSE Moved(FillUpNextTracks(home([cut EXCEPT !.prev = Front(@)])), play)

\* A queued track goes on playing, and so does the one a shuffle started from.
CurrentAt(s, i) ==
  LET y == [s EXCEPT !.fillUpContext = s.activeContext]
  IN IF IsQueue(y.track) \/ IsSkipTrack(y, y.track, 0) THEN Ok(y)
     ELSE SetCurrentTrack(y, i)

WindowAt(s, i) ==
  LET v == GetContext(s, s.activeContext).tracks
  IN FillUpNextTracks(
       ClearNextTracks([s EXCEPT !.prev = Latest(Clip(v, i), MaxPrev)]))

\* i: the new index in the active context.
ResetPlaybackToPosition(s, i) ==
  LET at == UpdateContextIndex([s EXCEPT !.index = i], s.activeContext, i + 1)
  IN Then(Then(Then(at, LAMBDA x : CurrentAt(x, i)),
               LAMBDA x : WindowAt(x, i)),
          LAMBDA x : Ok(UpdateRestrictions(x)))

AddToQueueUnbounded(s, u) ==
  UpdateRestrictions([s EXCEPT !.next =
                        InsertAt(@, QueueEnd(s), Provided(u, "queue", -1))])

AddToQueue(s, u) ==
  UpdateRestrictions(
    [s EXCEPT !.next = Clip(InsertAt(@, QueueEnd(s), Provided(u, "queue", -1)),
                            MaxNext)])

\* v without the tracks of the URI.
Retain(v, u) ==
  LET kept[n \in 0..Len(v)] == IF n = 0 THEN <<>>
                               ELSE IF v[n].uri = u THEN kept[n - 1]
                               ELSE Append(kept[n - 1], v[n])
  IN kept[Len(v)]

MarkUnavailable(s, u) ==
  FillUpNextTracks([s EXCEPT !.next = Retain(@, u), !.prev = Retain(@, u),
                             !.unavailable = @ \cup {u}])

HandleSetQueue(s, next, prev) == [s EXCEPT !.next = next, !.prev = prev]

-----------------------------------------------------------------------------
(* Shuffle and repeat (state/options.rs, state/handle.rs)                  *)

\* shuffle: the window is emptied, the default context rearranged with the
\* initial track in front, and the window filled up again.
ShuffleFrom(s, how, u) ==
  LET e == ResetContext(ClearNextTracks([s EXCEPT !.prev = <<>>]), "index")
  IN IF ~e.context["default"].some THEN Err(e)
     ELSE FillUpNextTracks(
            [e EXCEPT !.context["default"] =
               [ShuffleWithSeed(@, how, u) EXCEPT !.initial = u]])

\* shuffle_new: refused while the current track is one of autoplay.
ShuffleNew(s, how) ==
  IF s.barred THEN Err(s) ELSE ShuffleFrom(s, how, s.track.uri)

\* shuffle_restore, or shuffle_new if the transfer brought no initial track.
ShuffleRestore(s, how, u) ==
  IF u = NoInitial THEN ShuffleNew(s, how)
  ELSE IF s.barred THEN Err(s) ELSE ShuffleFrom(s, how, u)

HandleShuffle(s, on, how) ==
  LET set == [s EXCEPT !.shuffle = on]
      plain == ResetContext(set, "index")
      c == plain.context["default"]
      found == PositionOf(c.tracks, s.track.uri)
  IN IF on THEN ShuffleNew(set, how)
     ELSE IF s.track = NoTrack THEN Ok(plain)
     ELSE IF s.track.ci >= 0 THEN ResetPlaybackToPosition(plain, s.track.ci)
     ELSE IF ~c.some \/ found = 0 THEN Err(plain)
     ELSE ResetPlaybackToPosition(plain, found - 1)

HandleSetRepeatContext(s, on) ==
  LET set == [s EXCEPT !.repeatContext = on,
                       !.fillUpContext = IF on THEN "default" ELSE @]
      c == set.context["default"]
      found == PositionOf(c.tracks, s.track.uri)
  IN IF ~c.some \/ found = 0 THEN Err(set)
     ELSE ResetPlaybackToPosition(set, found - 1)

ResetOptions(s) ==
  [s EXCEPT !.shuffle = FALSE, !.repeatContext = FALSE, !.repeatTrack = FALSE]

-----------------------------------------------------------------------------
(* Contexts (state/context.rs).  What the server answers is a sequence of  *)
(* pages; a page carries its tracks (inline), or the URL they are at.      *)

\* state_context_from_page / context_to_provided_track: the indices of the
\* tracks of the default context start at n.
ProvidedTracks(s, uris, prov, n) ==
  [i \in DOMAIN uris |->
     Provided(uris[i],
              IF uris[i] \in s.unavailable THEN "unavailable" ELSE prov,
              IF prov = "autoplay" THEN -1 ELSE n + i - 1)]

\* fill_context_from_page: always the default context, as provider "context".
FillContextFromPage(s, uris) ==
  LET c == s.context["default"]
  IN IF ~c.some THEN Err(s)
     ELSE Ok([s EXCEPT !.context["default"].tracks =
                @ \o ProvidedTracks(s, uris, "context", Len(c.tracks))])

\* Where the refreshed context is to be continued: find_last_index_in_new_
\* context.  The window is taken to start MaxNext tracks before the index.
LastIndexInNewContext(s, tracks) ==
  LET c == s.context["default"]
      inNew == {i \in DOMAIN s.prev : PositionOf(tracks, s.prev[i].uri) > 0}
      prev == IF inNew = {} THEN 0
              ELSE PositionOf(tracks, s.prev[CHOOSE i \in inNew :
                                         \A j \in inNew : j <= i].uri)
      found == IF c.index >= MaxNext THEN c.index - MaxNext + 1
               ELSE IF IsQueue(s.track) THEN prev
               ELSE PositionOf(tracks, s.track.uri)
  IN IF found > 0 THEN [found |-> TRUE, i |-> found]
     ELSE [found |-> FALSE, i |-> s.index]

\* The pages behind the first that carry their tracks.
FillContextFromPages(s, pages) ==
  LET filled[n \in 0..(Len(pages) - 1)] ==
        IF n = 0 THEN s
        ELSE IF ~pages[n + 1].inline THEN filled[n - 1]
        ELSE FillContextFromPage(filled[n - 1], pages[n + 1].tracks).s
  IN filled[Len(pages) - 1]

UpdateContext(s, ty, u, pages) ==
  LET first == ProvidedTracks(s, pages[1].tracks,
                 IF ty = "autoplay" THEN "autoplay" ELSE "context", 0)
      fresh == [NoContext EXCEPT !.some = TRUE, !.tracks = first]
      last == LastIndexInNewContext(s, first)
      same == ty = "default" /\ s.uri = u /\ s.context["default"].some
      base == IF same
              THEN ClearNextTracks(
                     [s EXCEPT !.context["autoplay"].index = 0,
                               !.index = IF last.found THEN @ ELSE 0])
              ELSE s
      set == [base EXCEPT
                !.context[ty] = IF same THEN [fresh EXCEPT !.index = last.i]
                                ELSE fresh,
                !.uri = IF ty = "default" THEN u ELSE @]
  IN IF \A i \in DOMAIN pages : ~pages[i].inline THEN Err(s)
     ELSE Ok(FillContextFromPages(set, pages))

-----------------------------------------------------------------------------
(* A playback handed over by another device (state/transfer.rs).  t.queue  *)
(* holds the queued tracks, the one playing first if t.playingQueue.       *)

CurrentTrackFromTransfer(s, t) ==
  LET u == IF t.playingQueue THEN t.queue[1] ELSE t.track
  IN Provided(u, IF u \in s.unavailable THEN "unavailable"
                 ELSE IF t.playingQueue THEN "queue" ELSE "context", -1)

HandleInitialTransfer(s, t, u) ==
  ClearNextTracks(
    [s EXCEPT !.flag = IF t.paused THEN "paused" ELSE "playing",
              !.shuffle = t.shuffle, !.repeatContext = FALSE,
              !.repeatTrack = FALSE, !.barred = FALSE, !.prev = <<>>,
              !.uri = u])

\* The tracks the other device had queued are queued here.
QueueAll(s, uris) ==
  LET queued[n \in 0..Len(uris)] ==
        IF n = 0 THEN s ELSE AddToQueue(queued[n - 1], uris[n])
  IN queued[Len(uris)]

FinishTransfer(s, t, how) ==
  LET cur == IF s.track = NoTrack THEN CurrentTrackFromTransfer(s, t)
             ELSE s.track
      ty == IF IsAutoplay(s.track) THEN "autoplay" ELSE "default"
      act == [SetActiveContext(s, ty) EXCEPT !.fillUpContext = ty]
      v == GetContext(act, ty).tracks
      \* a queued track is looked up by the uid of the session, one back
      found == PositionOf(v, IF IsQueue(cur) THEN t.track ELSE cur.uri)
      i == IF IsQueue(cur) /\ found > 1 THEN found - 2
           ELSE IF found > 0 THEN found - 1 ELSE 0
      at == [act EXCEPT !.track = cur,
                        !.index = IF found > 0 THEN i ELSE @]
      later == IF t.playingQueue THEN Tail(t.queue) ELSE t.queue
      play(x) == IF x.shuffle
                 THEN Then(SetCurrentTrack(x, i),
                           LAMBDA y : ShuffleRestore(y, how, t.initial))
                 ELSE ResetPlaybackToPosition(x, i)
  IN IF ~GetContext(act, ty).some THEN Err(act)
     ELSE Then(play(QueueAll(at, later)), LAMBDA x : Ok(UpdateRestrictions(x)))
=============================================================================
