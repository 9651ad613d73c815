--------------------------- MODULE ConnectProofs ---------------------------
(***************************************************************************)
(* Proofs about the Connect device, for any tracks, contexts, transfers,   *)
(* window sizes and scenes: the window keeps its bounds, and what the user *)
(* queued survives.                                                        *)
(***************************************************************************)
EXTENDS Spirc, Iteration, FiniteSetTheorems

-----------------------------------------------------------------------------
(* The values                                                              *)

\* STRING; that the model's own strings are in it is said here.
Text ==
  STRING \cup {"", "spotify:delimiter", "spotify:web-api", "spotify:unknown",
              "unset", "playing", "paused", NoInitial}

Undo == [orig : Seq(Track), first : Nat]

ContextRecord ==
  [some : BOOLEAN, tracks : Seq(Track), index : Nat, initial : Text,
   undo : Undo]

\* What a shuffle put first is still there to be put back.
Context == {c \in ContextRecord : c.undo.first <= Len(c.tracks)}

State ==
  [active : BOOLEAN, track : Track, index : Nat, prev : Seq(Track),
   next : Seq(Track), shuffle : BOOLEAN, repeatContext : BOOLEAN,
   repeatTrack : BOOLEAN, uri : Text, flag : Text, barred : BOOLEAN,
   context : [ContextType -> Context], activeContext : ContextType,
   fillUpContext : ContextType, unavailable : SUBSET Text]

\* A state whose window is within its bounds.
Bounded(s) ==
  s \in State /\ Len(s.next) <= Limit(MaxNext) /\ Len(s.prev) <= Limit(MaxPrev)

\* The queued tracks at the head of v are at the head of w, where no client
\* sends lists of its own.
Kept(v, w) ==
  "setQueue" \notin scene.inputs =>
    \A i \in 1..Len(v) :
      (\A j \in 1..i : IsQueue(v[j])) => i <= Len(w) /\ w[i] = v[i]

\* What an operation may make of a state, and its outcome.
Leads(s, x) == Bounded(x) /\ Kept(s.next, x.next) /\ x.active = s.active
Fine(s, r) == r.ok \in BOOLEAN /\ Leads(s, r.s)

LEMMA Limits ==
  /\ Limit(MaxNext) \in Nat /\ MaxNext \in Nat /\ MaxNext <= Limit(MaxNext)
  /\ Limit(MaxPrev) \in Nat /\ MaxPrev \in Nat /\ MaxPrev <= Limit(MaxPrev)
  /\ "setQueue" \in scene.inputs =>
       Limit(MaxNext) = MaxSent /\ Limit(MaxPrev) = MaxSent
  /\ "setQueue" \notin scene.inputs => Limit(MaxNext) = MaxNext
BY ConnectAssumption, SpircAssumption DEF Limit

LEMMA KeptRefl == \A v : Kept(v, v)
BY DEF Kept

LEMMA KeptTrans ==
  ASSUME NEW u \in Seq(Track), NEW v \in Seq(Track), NEW w \in Seq(Track),
         Kept(u, v), Kept(v, w)
  PROVE  Kept(u, w)
<1> SUFFICES ASSUME "setQueue" \notin scene.inputs,
                    NEW i \in 1..Len(u), \A j \in 1..i : IsQueue(u[j])
             PROVE  i <= Len(w) /\ w[i] = u[i]
  BY DEF Kept
<1>1. \A j \in 1..i : j \in 1..Len(u) /\ 1..j \subseteq 1..i
  OBVIOUS
<1>2. \A j \in 1..i : j <= Len(v) /\ v[j] = u[j]
  BY <1>1 DEF Kept
<1>3. \A j \in 1..i : IsQueue(v[j])
  BY <1>2 DEF IsQueue
<1>4. i \in 1..i
  OBVIOUS
<1>5. i \in 1..Len(v)
  BY <1>2, <1>4
<1>6. i <= Len(w) /\ w[i] = v[i]
  BY <1>3, <1>5 DEF Kept
<1>7. QED
  BY <1>2, <1>4, <1>6

LEMMA LeadsTrans ==
  ASSUME NEW s, NEW x, NEW y, Bounded(s), Leads(s, x), Leads(x, y)
  PROVE  Leads(s, y)
BY KeptTrans DEF Leads, Bounded, State

LEMMA LeadsRefl ==
  ASSUME NEW s, Bounded(s)
  PROVE  Leads(s, s)
BY KeptRefl DEF Leads

-----------------------------------------------------------------------------
(* Sequences                                                               *)

LEMMA ClipIs ==
  ASSUME NEW S, NEW v \in Seq(S), NEW n \in Nat
  PROVE  /\ Clip(v, n) \in Seq(S)
         /\ Len(Clip(v, n)) = IF Len(v) < n THEN Len(v) ELSE n
         /\ \A i \in 1..Len(Clip(v, n)) : Clip(v, n)[i] = v[i]
BY DEF Clip

LEMMA LatestIs ==
  ASSUME NEW S, NEW v \in Seq(S), NEW n \in Nat
  PROVE  Latest(v, n) \in Seq(S) /\ Len(Latest(v, n)) <= n
<1>1. CASE Len(v) > n
  BY <1>1 DEF Latest
<1>2. CASE ~(Len(v) > n)
  BY <1>2 DEF Latest
<1>3. QED
  BY <1>1, <1>2

\* The place behind the queue.
LEMMA QueueEndIs ==
  ASSUME NEW s, s.next \in Seq(Track)
  PROVE  /\ QueueEnd(s) \in 1..(Len(s.next) + 1)
         /\ \A j \in 1..(QueueEnd(s) - 1) : IsQueue(s.next[j])
         /\ QueueEnd(s) <= Len(s.next) => ~IsQueue(s.next[QueueEnd(s)])
<1> DEFINE T == {i \in DOMAIN s.next : ~IsQueue(s.next[i])}
<1>1. T \in SUBSET Nat /\ T \subseteq 1..Len(s.next)
  OBVIOUS
<1>2. QueueEnd(s) = IF T = {} THEN Len(s.next) + 1
                    ELSE CHOOSE i \in T : \A j \in T : i <= j
  BY DEF QueueEnd
<1>3. CASE T = {}
  BY <1>2, <1>3
<1>4. CASE T # {}
  <2>1. \E i \in T : \A j \in T : i <= j
    <3> HIDE DEF T
    <3>1. QED
      BY <1>1, <1>4, LeastNumber
  <2> DEFINE e == CHOOSE i \in T : \A j \in T : i <= j
  <2>2. e \in T /\ \A j \in T : e <= j
    <3> HIDE DEF T
    <3>1. QED
      BY <2>1
  <2>3. QueueEnd(s) = e
    BY <1>2, <1>4
  <2> HIDE DEF e
  <2>4. \A j \in 1..(e - 1) : j \notin T /\ j \in DOMAIN s.next
    BY <2>2
  <2>5. QED
    BY <2>2, <2>3, <2>4
<1>5. QED
  BY <1>3, <1>4

\* The first track with the URI.
LEMMA PositionIs ==
  ASSUME NEW v \in Seq(Track), NEW u
  PROVE  /\ PositionOf(v, u) \in 0..Len(v)
         /\ PositionOf(v, u) # 0 => v[PositionOf(v, u)].uri = u
<1> DEFINE T == {i \in DOMAIN v : v[i].uri = u}
<1>1. T \in SUBSET Nat /\ T \subseteq 1..Len(v)
  OBVIOUS
<1>2. PositionOf(v, u) = IF T = {} THEN 0
                         ELSE CHOOSE i \in T : \A j \in T : i <= j
  BY DEF PositionOf
<1>3. CASE T # {}
  <2>1. \E i \in T : \A j \in T : i <= j
    <3> HIDE DEF T
    <3>1. QED
      BY <1>1, <1>3, LeastNumber
  <2>2. PositionOf(v, u) \in T
    <3> HIDE DEF T
    <3>1. QED
      BY <1>2, <1>3, <2>1
  <2>3. QED
    BY <1>1, <2>2
<1>4. QED
  BY <1>2, <1>3

-----------------------------------------------------------------------------
(* Operations that leave the window alone                                  *)

LEMMA Constants ==
  /\ NoTrack \in Track /\ Delimiter \in Track /\ ~IsQueue(Delimiter)
  /\ NoTrack.uri = "" /\ ~IsQueue(NoTrack)
  /\ NoUndo \in Undo /\ NoContext \in Context /\ NewState \in State
<1>1. /\ NoTrack \in Track /\ Delimiter \in Track /\ ~IsQueue(Delimiter)
      /\ NoTrack.uri = "" /\ ~IsQueue(NoTrack)
  BY DEF NoTrack, Delimiter, Provided, Track, IsQueue
<1>2. NoUndo \in Undo
  BY DEF NoUndo, Undo
<1>3. NoContext \in Context
  <2>1. Len(NoContext.tracks) = 0 /\ NoContext.undo.first = 0
    BY DEF NoContext, NoUndo
  <2>2. QED
    BY <1>2, <2>1 DEF NoContext, Context, ContextRecord, Text
<1>4. NewState \in State
  <2>1. [c \in ContextType |-> NoContext] \in [ContextType -> Context]
    BY <1>3
  <2>2. "default" \in ContextType /\ <<>> \in Seq(Track)
    BY DEF ContextType
  <2>3. QED
    BY <1>1, <2>1, <2>2 DEF NewState, State, Text
<1>5. QED
  BY <1>1, <1>2, <1>3, <1>4

LEMMA TrackUri ==
  ASSUME NEW t \in Track
  PROVE  t.uri \in Text
BY ConnectAssumption DEF Track, Text

LEMMA SameWindow ==
  ASSUME NEW s, Bounded(s), NEW x \in State, x.next = s.next,
         x.prev = s.prev \/ x.prev = <<>>, x.active = s.active
  PROVE  Leads(s, x)
BY Limits, KeptRefl DEF Leads, Bounded

LEMMA RestrictionsLead ==
  ASSUME NEW s, Bounded(s)
  PROVE  /\ Leads(s, UpdateRestrictions(s)) /\ Leads(s, ClearRestrictions(s))
         /\ UpdateRestrictions(s).track = s.track
         /\ UpdateRestrictions(s).next = s.next
<1>1. \A b \in BOOLEAN : [s EXCEPT !.barred = b] \in State
  BY DEF Bounded, State
<1>2. IsAutoplay(s.track) \in BOOLEAN
  BY DEF IsAutoplay
<1>3. UpdateRestrictions(s) \in State /\ ClearRestrictions(s) \in State
  BY <1>1, <1>2 DEF UpdateRestrictions, ClearRestrictions
<1>4. QED
  BY <1>3, SameWindow DEF UpdateRestrictions, ClearRestrictions, Bounded, State

LEMMA SetActiveLeads ==
  ASSUME NEW s, Bounded(s), NEW c \in ContextType
  PROVE  /\ Leads(s, SetActiveContext(s, c))
         /\ SetActiveContext(s, c).track = s.track
         /\ SetActiveContext(s, c).next = s.next
<1>1. SetActiveContext(s, c) \in State
  BY DEF SetActiveContext, Bounded, State
<1>2. QED
  BY <1>1, SameWindow DEF SetActiveContext, Bounded, State

LEMMA SetStatusLeads ==
  ASSUME NEW s, Bounded(s), NEW st
  PROVE  /\ Leads(s, SetStatus(s, st)) /\ SetStatus(s, st).track = s.track
         /\ SetStatus(s, st).next = s.next
<1>1. IsAutoplay(s.track) \in BOOLEAN
  BY DEF IsAutoplay
<1>2. SetStatus(s, st) \in State
  BY <1>1 DEF SetStatus, Bounded, State, Text
<1>3. QED
  BY <1>2, SameWindow DEF SetStatus, Bounded, State

LEMMA ContextIndex ==
  ASSUME NEW c \in Context, NEW i \in Nat
  PROVE  [c EXCEPT !.index = i] \in Context
BY DEF Context, ContextRecord

LEMMA PutContext ==
  ASSUME NEW s \in State, NEW c \in ContextType, NEW d \in Context
  PROVE  [s EXCEPT !.context[c] = d] \in State
BY DEF State

LEMMA PutIndex ==
  ASSUME NEW s \in State, NEW c \in ContextType, NEW i \in Nat
  PROVE  [s EXCEPT !.context[c].index = i] \in State
<1>1. s.context[c] \in Context
  BY DEF State
<1>2. [s.context[c] EXCEPT !.index = i] \in Context
  BY <1>1, ContextIndex
<1>3. [s EXCEPT !.context[c].index = i]
        = [s EXCEPT !.context[c] = [s.context[c] EXCEPT !.index = i]]
  BY DEF State
<1>4. QED
  BY <1>2, <1>3, PutContext

LEMMA UpdateIndexFine ==
  ASSUME NEW s, Bounded(s), NEW c \in ContextType, NEW i \in Nat
  PROVE  /\ Fine(s, UpdateContextIndex(s, c, i))
         /\ UpdateContextIndex(s, c, i).s.track = s.track
         /\ UpdateContextIndex(s, c, i).s.next = s.next
<1>1. s.context[c].some \in BOOLEAN
  BY DEF Bounded, State, Context, ContextRecord
<1>2. CASE s.context[c].some
  <2> DEFINE x == [s EXCEPT !.context[c].index = i]
  <2>1. x \in State
    BY PutIndex DEF Bounded
  <2>2. x.next = s.next /\ x.prev = s.prev /\ x.active = s.active
        /\ x.track = s.track
    BY DEF Bounded, State
  <2>3. UpdateContextIndex(s, c, i) = [ok |-> TRUE, s |-> x]
    BY <1>2 DEF UpdateContextIndex, Ok
  <2> HIDE DEF x
  <2>4. QED
    BY <2>1, <2>2, <2>3, SameWindow DEF Fine
<1>3. CASE ~s.context[c].some
  BY <1>3, LeadsRefl DEF UpdateContextIndex, Err, Fine
<1>4. QED
  BY <1>1, <1>2, <1>3

LEMMA SetCurrentFine ==
  ASSUME NEW s, Bounded(s), NEW i \in Nat
  PROVE  /\ Fine(s, SetCurrentTrack(s, i))
         /\ SetCurrentTrack(s, i).s.next = s.next
<1> DEFINE c == GetContext(s, s.activeContext)
           x == [s EXCEPT !.track = c.tracks[i + 1], !.index = i]
<1>1. c \in Context
  BY DEF GetContext, Bounded, State
<1>2. CASE ~c.some \/ i >= Len(c.tracks)
  BY <1>2, LeadsRefl DEF SetCurrentTrack, Err, Fine
<1>3. CASE c.some /\ ~(i >= Len(c.tracks))
  <2>1. c.tracks[i + 1] \in Track
    BY <1>1, <1>3 DEF Context, ContextRecord
  <2>2. x \in State /\ x.next = s.next /\ x.prev = s.prev
        /\ x.active = s.active
    BY <2>1 DEF Bounded, State
  <2>3. SetCurrentTrack(s, i) = [ok |-> TRUE, s |-> x]
    BY <1>3 DEF SetCurrentTrack, Ok
  <2> HIDE DEF x
  <2>4. QED
    BY <2>2, <2>3, SameWindow DEF Fine
<1>4. c.some \in BOOLEAN
  BY <1>1 DEF Context, ContextRecord
<1>5. QED
  BY <1>2, <1>3, <1>4

-----------------------------------------------------------------------------
(* Shuffles                                                                *)

LEMMA SwapIs ==
  ASSUME NEW v \in Seq(Track), NEW i \in 1..Len(v), NEW j \in 1..Len(v)
  PROVE  Swap(v, i, j) \in Seq(Track) /\ Len(Swap(v, i, j)) = Len(v)
BY DEF Swap

LEMMA UnshuffleIs ==
  ASSUME NEW c \in Context
  PROVE  /\ Unshuffle(c) \in Context
         /\ Len(Unshuffle(c).tracks) = Len(c.tracks)
         /\ Unshuffle(c).some = c.some
<1>1. CASE c.undo = NoUndo
  BY <1>1 DEF Unshuffle
<1>2. CASE c.undo # NoUndo
  <2> DEFINE back == IF c.undo.first = 0 THEN c.tracks
                     ELSE Swap(c.tracks, 1, c.undo.first)
             v == IF Len(c.tracks) = Len(c.undo.orig) THEN c.undo.orig
                  ELSE back
  <2>1. /\ c.tracks \in Seq(Track) /\ c.undo.orig \in Seq(Track)
        /\ c.undo.first \in Nat /\ c.undo.first <= Len(c.tracks)
    BY DEF Context, ContextRecord, Undo
  <2>2. back \in Seq(Track) /\ Len(back) = Len(c.tracks)
    <3>1. CASE c.undo.first = 0
      BY <2>1, <3>1
    <3>2. CASE c.undo.first # 0
      <4>1. c.undo.first \in 1..Len(c.tracks) /\ 1 \in 1..Len(c.tracks)
        BY <2>1, <3>2
      <4>2. QED
        BY <2>1, <3>2, <4>1, SwapIs
    <3>3. QED
      BY <3>1, <3>2
  <2>3. Unshuffle(c) = [c EXCEPT !.undo = NoUndo, !.tracks = v]
    BY <1>2 DEF Unshuffle, Context, ContextRecord
  <2>4. v \in Seq(Track) /\ Len(v) = Len(c.tracks)
    BY <2>1, <2>2
  <2>5. NoUndo \in Undo /\ NoUndo.first = 0
    BY Constants DEF NoUndo
  <2> HIDE DEF v
  <2>6. Unshuffle(c) \in ContextRecord /\ Unshuffle(c).some = c.some
        /\ Unshuffle(c).tracks = v /\ Unshuffle(c).undo = NoUndo
    BY <2>3, <2>4, <2>5 DEF Context, ContextRecord
  <2>7. QED
    BY <2>4, <2>5, <2>6 DEF Context, ContextRecord
<1>3. QED
  BY <1>1, <1>2

LEMMA ArrangeIs ==
  ASSUME NEW v \in Seq(Track), Len(v) > 1, NEW how
  PROVE  Arrange(v, how) \in Seq(Track) /\ Len(Arrange(v, how)) = Len(v)
<1>1. CASE how = "reversed"
  <2>1. \A i \in 1..Len(v) : (Len(v) - i) + 1 \in 1..Len(v)
    OBVIOUS
  <2>2. Reverse(v) \in [1..Len(v) -> Track]
    BY <2>1 DEF Reverse
  <2>3. QED
    BY <1>1, <2>2 DEF Arrange, Reverse
<1>2. CASE how # "reversed"
  BY <1>2 DEF Arrange
<1>3. QED
  BY <1>1, <1>2

LEMMA ShuffleIs ==
  ASSUME NEW c \in Context, NEW how, NEW u
  PROVE  ShuffleWithSeed(c, how, u) \in Context
<1> DEFINE b == Unshuffle(c)
           v == Arrange(b.tracks, how)
           f == PositionOf(v, u)
           w == IF f = 0 THEN v ELSE Swap(v, 1, f)
           d == [orig |-> b.tracks, first |-> f]
<1>1. CASE Len(c.tracks) <= 1
  BY <1>1 DEF ShuffleWithSeed
<1>2. CASE ~(Len(c.tracks) <= 1)
  <2>1. b \in Context /\ b.tracks \in Seq(Track) /\ Len(b.tracks) > 1
    BY <1>2, UnshuffleIs DEF Context, ContextRecord
  <2>2. v \in Seq(Track) /\ Len(v) > 1
    BY <2>1, ArrangeIs
  <2>3. f \in 0..Len(v)
    <3> HIDE DEF v
    <3>1. QED
      BY <2>2, PositionIs
  <2>4. w \in Seq(Track) /\ Len(w) = Len(v)
    <3> HIDE DEF v, f
    <3>1. CASE f = 0
      BY <2>2, <3>1
    <3>2. CASE f # 0
      <4>1. f \in 1..Len(v) /\ 1 \in 1..Len(v)
        BY <2>2, <2>3, <3>2
      <4>2. QED
        BY <2>2, <3>2, <4>1, SwapIs
    <3>3. QED
      BY <3>1, <3>2
  <2>5. ShuffleWithSeed(c, how, u)
          = [b EXCEPT !.tracks = w, !.undo = d]
    BY <1>2 DEF ShuffleWithSeed
  <2> HIDE DEF b, v, f, w
  <2>6. d \in Undo /\ d.first = f /\ f <= Len(w)
    BY <2>1, <2>3, <2>4 DEF Undo
  <2> HIDE DEF d
  <2>7. /\ ShuffleWithSeed(c, how, u) \in ContextRecord
        /\ ShuffleWithSeed(c, how, u).tracks = w
        /\ ShuffleWithSeed(c, how, u).undo.first = f
    BY <2>1, <2>4, <2>5, <2>6 DEF Context, ContextRecord
  <2>8. QED
    BY <2>6, <2>7 DEF Context, ContextRecord
<1>3. QED
  BY <1>1, <1>2

LEMMA ResetContextLeads ==
  ASSUME NEW s, Bounded(s), NEW how \in {"completely", "index", "keep"}
  PROVE  /\ Leads(s, ResetContext(s, how))
         /\ ResetContext(s, how).track = s.track
         /\ ResetContext(s, how).next = s.next
<1> DEFINE plain == [Unshuffle(s.context["default"]) EXCEPT !.initial = NoInitial]
           ctx == CASE how = "completely" -> [c \in ContextType |-> NoContext]
               [] how = "index" ->
                    [c \in ContextType |->
                       [(IF c = "default" THEN plain ELSE s.context[c])
                          EXCEPT !.index = 0]]
               [] OTHER -> [s.context EXCEPT !["default"] = plain]
           x == ResetContext(s, how)
<1>1. s.context \in [ContextType -> Context] /\ "default" \in ContextType
  BY DEF Bounded, State, ContextType
<1>2. plain \in Context
  <2>1. Unshuffle(s.context["default"]) \in Context
    BY <1>1, UnshuffleIs
  <2>2. QED
    BY <2>1 DEF Context, ContextRecord, Text
<1>3. ctx \in [ContextType -> Context]
  <2> HIDE DEF plain
  <2>1. CASE how = "completely"
    BY <2>1, Constants
  <2>2. CASE how = "index"
    <3>1. \A c \in ContextType :
            (IF c = "default" THEN plain ELSE s.context[c]) \in Context
      BY <1>1, <1>2
    <3>2. \A c \in ContextType :
            [(IF c = "default" THEN plain ELSE s.context[c])
               EXCEPT !.index = 0] \in Context
      BY <3>1, ContextIndex
    <3>3. QED
      BY <2>2, <3>2
  <2>3. CASE how = "keep"
    BY <1>1, <1>2, <2>3
  <2>4. QED
    BY <2>1, <2>2, <2>3
<1>4. x = [s EXCEPT !.context = ctx, !.fillUpContext = "default",
             !.activeContext = "default", !.barred = IsAutoplay(s.track),
             !.uri = IF how = "completely" THEN "" ELSE s.uri]
  BY DEF ResetContext, Bounded, State
<1> HIDE DEF ctx, x
<1>5. IsAutoplay(s.track) \in BOOLEAN
  BY DEF IsAutoplay
<1>6. x \in State /\ x.next = s.next /\ x.prev = s.prev
      /\ x.active = s.active /\ x.track = s.track
  BY <1>1, <1>3, <1>4, <1>5 DEF Bounded, State, Text
<1>7. QED
  BY <1>6, SameWindow DEF x

-----------------------------------------------------------------------------
(* Filling the window                                                      *)

LEMMA ClearNextLeads ==
  ASSUME NEW s, Bounded(s)
  PROVE  /\ Leads(s, ClearNextTracks(s)) /\ ClearNextTracks(s).track = s.track
<1> DEFINE v == Clip(s.next, QueueEnd(s) - 1)
           x == ClearNextTracks(s)
<1>1. s \in State /\ s.next \in Seq(Track)
  BY DEF Bounded, State
<1>2. /\ QueueEnd(s) - 1 \in Nat /\ QueueEnd(s) - 1 <= Len(s.next)
      /\ QueueEnd(s) <= Len(s.next) => ~IsQueue(s.next[QueueEnd(s)])
      /\ QueueEnd(s) \in Nat
  BY <1>1, QueueEndIs
<1>3. v \in Seq(Track) /\ Len(v) = QueueEnd(s) - 1
      /\ \A i \in 1..Len(v) : v[i] = s.next[i]
  BY <1>1, <1>2, ClipIs
<1>4. x = [s EXCEPT !.next = v]
  BY DEF ClearNextTracks
<1> HIDE DEF v, x
<1>5. /\ x \in State /\ x.next = v /\ x.prev = s.prev /\ x.track = s.track
      /\ x.active = s.active
  BY <1>1, <1>3, <1>4 DEF State
<1>6. Kept(s.next, v)
  <2> SUFFICES ASSUME "setQueue" \notin scene.inputs, NEW i \in 1..Len(s.next),
                      \A j \in 1..i : IsQueue(s.next[j])
               PROVE  i <= Len(v) /\ v[i] = s.next[i]
    BY DEF Kept
  <2>1. ~(QueueEnd(s) \in 1..i)
    BY <1>2
  <2>2. i <= QueueEnd(s) - 1
    BY <1>1, <1>2, <2>1, QueueEndIs
  <2>3. QED
    BY <1>2, <1>3, <2>2
<1>7. QED
  <2>1. Len(v) <= Limit(MaxNext)
    BY <1>1, <1>2, <1>3, Limits DEF Bounded
  <2>2. QED
    BY <1>5, <1>6, <2>1 DEF Leads, Bounded, x

\* What filling up may make of a state.
Extends(s, x) ==
  /\ Bounded(x) /\ x.track = s.track /\ x.prev = s.prev /\ x.active = s.active
  /\ Len(s.next) <= Len(x.next)
  /\ \A i \in 1..Len(s.next) : x.next[i] = s.next[i]

LEMMA ExtendsLeads ==
  ASSUME NEW s, NEW x, Bounded(s), Extends(s, x)
  PROVE  Leads(s, x)
<1>1. s.next \in Seq(Track) /\ x.next \in Seq(Track)
  BY DEF Extends, Bounded, State
<1>2. QED
  BY <1>1 DEF Extends, Leads, Kept

LEMMA ExtendsTrans ==
  ASSUME NEW s, NEW x, NEW y, Bounded(s), Extends(s, x), Extends(x, y)
  PROVE  Extends(s, y)
<1>1. /\ s.next \in Seq(Track) /\ x.next \in Seq(Track)
      /\ y.next \in Seq(Track)
  BY DEF Extends, Bounded, State
<1>2. \A i \in 1..Len(s.next) : i \in 1..Len(x.next)
  BY <1>1 DEF Extends
<1>3. QED
  BY <1>1, <1>2 DEF Extends

LEMMA PushExtends ==
  ASSUME NEW s, Bounded(s), Len(s.next) < MaxNext, NEW t \in Track
  PROVE  Extends(s, [s EXCEPT !.next = Append(@, t)])
<1> DEFINE v == Append(s.next, t)
           x == [s EXCEPT !.next = v]
<1>1. s \in State /\ s.next \in Seq(Track)
  BY DEF Bounded, State
<1>2. v \in Seq(Track) /\ Len(v) = Len(s.next) + 1
      /\ \A i \in 1..Len(s.next) : v[i] = s.next[i]
  BY <1>1
<1> HIDE DEF v
<1>3. /\ x \in State /\ x.next = v /\ x.prev = s.prev /\ x.track = s.track
      /\ x.active = s.active
  BY <1>1, <1>2 DEF State
<1> HIDE DEF x
<1>4. Len(s.next) \in Nat /\ Len(s.next) + 1 <= Limit(MaxNext)
  BY <1>1, Limits
<1>5. Extends(s, x)
  BY <1>2, <1>3, <1>4 DEF Extends, Bounded
<1>6. QED
  BY <1>5 DEF x, v

Filling ==
  [s : {x \in State : Bounded(x)}, i : Nat, iteration : Nat, done : BOOLEAN]

LEMMA FillStepIs ==
  ASSUME NEW f \in Filling
  PROVE  FillStep(f) \in Filling /\ Extends(f.s, FillStep(f).s)
<1> DEFINE c == GetContext(f.s, f.s.fillUpContext)
           push(t) == [f.s EXCEPT !.next = Append(@, t)]
<1>1. /\ f.s \in State /\ Bounded(f.s) /\ f.i \in Nat /\ f.iteration \in Nat
      /\ f.done \in BOOLEAN
  BY DEF Filling
<1>2. /\ f.s.context \in [ContextType -> Context] /\ f.s.repeatContext \in BOOLEAN
      /\ f.s.fillUpContext \in ContextType /\ "autoplay" \in ContextType
      /\ f.s.next \in Seq(Track)
  BY <1>1 DEF State, ContextType
<1>3. c \in Context /\ c.tracks \in Seq(Track)
  BY <1>2 DEF GetContext, Context, ContextRecord
<1>4. Extends(f.s, f.s)
  BY <1>1, <1>2 DEF Extends
<1>5. CASE f.done \/ Len(f.s.next) >= MaxNext
  BY <1>1, <1>4, <1>5 DEF FillStep, Filling
<1>6. CASE ~f.done /\ ~(Len(f.s.next) >= MaxNext)
  <2>1. Len(f.s.next) < MaxNext
    BY <1>2, <1>6, ConnectAssumption
  <2>2. \A t \in Track : Extends(f.s, push(t))
    BY <1>1, <2>1, PushExtends
  <2>3. \A t \in Track : push(t) \in State /\ Bounded(push(t))
    BY <2>2 DEF Extends, Bounded
  <2>4. CASE f.i < Len(c.tracks)
    <3> DEFINE t == c.tracks[f.i + 1]
    <3>1. t \in Track
      BY <1>1, <1>3, <2>4
    <3> DEFINE p == push(t)
               n == f.i + 1
    <3>2. \/ FillStep(f) = [f EXCEPT !.i = n]
          \/ FillStep(f) = [f EXCEPT !.i = n, !.s = p]
      BY <1>6, <2>4 DEF FillStep
    <3>3. n \in Nat
      BY <1>1
    <3> HIDE DEF t
    <3>4. p \in State /\ Bounded(p) /\ Extends(f.s, p)
      BY <2>2, <2>3, <3>1
    <3> HIDE DEF p, n
    <3>5. QED
      BY <1>1, <1>4, <3>2, <3>3, <3>4 DEF Filling
  <2>5. CASE ~(f.i < Len(c.tracks)) /\ f.s.repeatContext
    <3> DEFINE p == push(Delimiter)
               n == f.iteration + 1
    <3>1. FillStep(f) = [f EXCEPT !.i = 0, !.iteration = n, !.s = p]
      BY <1>6, <2>5 DEF FillStep
    <3>2. n \in Nat /\ 0 \in Nat
      BY <1>1
    <3>3. p \in State /\ Bounded(p) /\ Extends(f.s, p)
      BY <2>2, <2>3, Constants
    <3> HIDE DEF p, n
    <3>4. QED
      BY <1>1, <3>1, <3>2, <3>3 DEF Filling
  <2>6. CASE /\ ~(f.i < Len(c.tracks)) /\ ~f.s.repeatContext
             /\ f.s.fillUpContext # "autoplay" /\ f.s.context["autoplay"].some
    <3> DEFINE p == push(Delimiter)
               q == [p EXCEPT !.context[f.s.fillUpContext].index = f.i]
               x == [q EXCEPT !.fillUpContext = "autoplay"]
               n == f.s.context["autoplay"].index
    <3>1. n \in Nat
      BY <1>2 DEF Context, ContextRecord
    <3>2. /\ p \in State /\ Bounded(p) /\ Extends(f.s, p)
      BY <2>2, <2>3, Constants
    <3>3. FillStep(f) = [f EXCEPT !.i = n,
                           !.s = [p EXCEPT
                                    !.context[f.s.fillUpContext].index = f.i,
                                    !.fillUpContext = "autoplay"]]
      BY <1>6, <2>6 DEF FillStep
    <3> HIDE DEF p, n
    <3>4. q \in State
      BY <1>1, <1>2, <3>2, PutIndex
    <3>5. /\ q.track = p.track /\ q.prev = p.prev /\ q.next = p.next
          /\ q.active = p.active
      BY <1>2, <3>2 DEF State
    <3>6. [p EXCEPT !.context[f.s.fillUpContext].index = f.i,
                    !.fillUpContext = "autoplay"] = x
      BY <3>2 DEF State
    <3> HIDE DEF q
    <3>7. /\ x \in State /\ x.track = p.track /\ x.prev = p.prev
          /\ x.next = p.next /\ x.active = p.active
      BY <1>2, <3>4, <3>5 DEF State
    <3> HIDE DEF x
    <3>8. Bounded(x) /\ Extends(f.s, x)
      BY <3>2, <3>7 DEF Bounded, Extends
    <3>9. QED
      BY <1>1, <3>1, <3>3, <3>6, <3>7, <3>8 DEF Filling
  <2>7. CASE /\ ~(f.i < Len(c.tracks)) /\ ~f.s.repeatContext
             /\ ~(f.s.fillUpContext # "autoplay" /\ f.s.context["autoplay"].some)
    <3>1. FillStep(f) = [f EXCEPT !.done = TRUE]
      BY <1>6, <2>7 DEF FillStep
    <3>2. QED
      BY <1>1, <1>4, <3>1 DEF Filling
  <2>8. QED
    BY <1>2, <2>4, <2>5, <2>6, <2>7
<1>7. QED
  BY <1>1, <1>5, <1>6

LEMMA FillLoopIs ==
  ASSUME NEW s, Bounded(s)
  PROVE  FillLoop(s) \in Filling /\ Extends(s, FillLoop(s).s)
<1> DEFINE N == FillRounds(s)
           begin == [s |-> s, i |-> GetContext(s, s.fillUpContext).index,
                     iteration |-> 0, done |-> FALSE]
           step == [n \in 1..N |-> [f \in Filling |-> FillStep(f)]]
           Is(r) == r = [n \in 0..N |-> IF n = 0 THEN begin
                                        ELSE FillStep(r[n - 1])]
           c == CHOOSE r : Is(r)
<1>1. s \in State /\ s.context \in [ContextType -> Context]
      /\ s.fillUpContext \in ContextType /\ s.next \in Seq(Track)
  BY DEF Bounded, State
<1>2. begin \in Filling /\ begin.s = s
  <2>1. GetContext(s, s.fillUpContext).index \in Nat
    BY <1>1 DEF GetContext, Context, ContextRecord
  <2>2. QED
    BY <1>1, <2>1 DEF Filling
<1>3. N \in Nat
  <2>1. \A x \in ContextType : Len(s.context[x].tracks) \in Nat
    BY <1>1 DEF Context, ContextRecord
  <2> DEFINE l == Len(s.context["default"].tracks)
             m == Len(s.context["autoplay"].tracks)
             a == MaxNext + 2
             d == 1 + l + m
  <2>2. a \in Nat /\ d \in Nat
    <3>1. "default" \in ContextType /\ "autoplay" \in ContextType
      BY DEF ContextType
    <3>2. l \in Nat /\ m \in Nat
      BY <2>1, <3>1
    <3> HIDE DEF l, m
    <3>3. d \in Nat
      BY <3>2
    <3>4. QED
      BY <3>3, ConnectAssumption
  <2>3. N = a * d
    BY DEF FillRounds
  <2>4. \A j, k \in Nat : j * k \in Nat
    OBVIOUS
  <2> HIDE DEF N, a, d, l, m
  <2>5. QED
    BY <2>2, <2>3, <2>4
<1> HIDE DEF begin, N
<1>4. step \in [1..N -> [Filling -> Filling]]
  BY FillStepIs
<1>5. PICK r \in [0..N -> Filling] : Rounds(r, begin, step, N)
  <2> HIDE DEF step
  <2>1. QED
    BY <1>2, <1>3, <1>4, RoundsExist
<1>6. \A n \in 0..N : r[n] = IF n = 0 THEN begin ELSE FillStep(r[n - 1])
  <2>1. \A n \in 0..N : r[n] = IF n = 0 THEN begin ELSE step[n][r[n - 1]]
    BY <1>5 DEF Rounds
  <2>2. ASSUME NEW n \in 0..N, n # 0
        PROVE  step[n][r[n - 1]] = FillStep(r[n - 1])
    <3>1. n \in 1..N /\ n - 1 \in 0..N
      BY <1>3, <2>2
    <3>2. r[n - 1] \in Filling
      BY <3>1
    <3>3. QED
      BY <3>1, <3>2
  <2> HIDE DEF step
  <2>3. QED
    BY <2>1, <2>2
<1>7. Is(r)
  BY <1>5, <1>6
<1>8. Is(c)
  BY <1>7
<1>9. FillLoop(s) = c[N]
  BY DEF FillLoop, begin, N
<1> HIDE DEF c
<1>10. c[0] = begin /\ \A n \in 1..N : c[n] = FillStep(c[n - 1])
  BY <1>3, <1>8
<1> DEFINE P == {n \in 0..N : c[n] \in Filling /\ Extends(s, c[n].s)}
<1>11. 0 \in P
  BY <1>1, <1>2, <1>3, <1>10 DEF Extends
<1>12. ASSUME NEW n \in 1..N, n - 1 \in P PROVE n \in P
  <2> DEFINE f == c[n - 1]
  <2>1. f \in Filling /\ Extends(s, f.s) /\ n \in 0..N
    BY <1>3, <1>12
  <2>2. c[n] = FillStep(f)
    BY <1>10
  <2> HIDE DEF f
  <2>3. FillStep(f) \in Filling /\ Extends(f.s, FillStep(f).s)
    BY <2>1, FillStepIs
  <2>4. Extends(s, FillStep(f).s)
    BY <2>1, <2>3, ExtendsTrans
  <2>5. QED
    BY <2>1, <2>2, <2>3, <2>4
<1>13. \A n \in 0..N : n \in P
  <2> HIDE DEF P
  <2>1. QED
    BY <1>3, <1>11, <1>12, EveryRound
<1>14. N \in P
  BY <1>3, <1>13
<1>15. QED
  BY <1>9, <1>14

\* fill_up_next_tracks adds to the window and touches nothing else of it.
LEMMA FillUpFine ==
  ASSUME NEW s, Bounded(s)
  PROVE  /\ Fine(s, FillUpNextTracks(s))
         /\ FillUpNextTracks(s).s.track = s.track
<1> DEFINE f == FillLoop(s)
           x == [f.s EXCEPT !.context[f.s.fillUpContext].index = f.i]
           c == GetContext(s, s.fillUpContext)
<1>1. c.some \in BOOLEAN
  BY DEF GetContext, Bounded, State, Context, ContextRecord
<1>2. CASE ~c.some
  BY <1>2, LeadsRefl DEF FillUpNextTracks, Err, Fine
<1>3. CASE c.some
  <2>1. f \in Filling /\ Extends(s, f.s)
    BY FillLoopIs
  <2>2. FillUpNextTracks(s) = [ok |-> TRUE, s |-> x]
    BY <1>3 DEF FillUpNextTracks, Ok
  <2> HIDE DEF f
  <2>3. f.s \in State /\ f.i \in Nat /\ f.s.fillUpContext \in ContextType
    BY <2>1 DEF Filling, State
  <2>4. x \in State
    BY <2>3, PutIndex
  <2>5. /\ x.track = f.s.track /\ x.prev = f.s.prev /\ x.next = f.s.next
        /\ x.active = f.s.active
    BY <2>3 DEF State
  <2> HIDE DEF x
  <2>6. Extends(s, x)
    BY <2>1, <2>4, <2>5 DEF Extends, Bounded
  <2>7. Leads(s, x) /\ x.track = s.track
    BY <2>6, ExtendsLeads DEF Extends
  <2>8. QED
    BY <2>2, <2>7 DEF Fine
<1>4. QED
  BY <1>1, <1>2, <1>3

-----------------------------------------------------------------------------
(* Moving in the window                                                    *)

LEMMA PushPrevIs ==
  ASSUME NEW p \in Seq(Track), Len(p) <= Limit(MaxPrev), NEW d \in Seq(Track)
  PROVE  PushPrev(p, d) \in Seq(Track) /\ Len(PushPrev(p, d)) <= Limit(MaxPrev)
<1> DEFINE n == IF Len(p) > MaxPrev THEN Len(p) ELSE MaxPrev
<1>1. n \in Nat /\ n <= Limit(MaxPrev)
  BY Limits
<1>2. p \o d \in Seq(Track) /\ PushPrev(p, d) = Latest(p \o d, n)
  BY DEF PushPrev
<1> DEFINE v == Latest(p \o d, n)
<1> HIDE DEF n
<1>3. v \in Seq(Track) /\ Len(v) <= n
  BY <1>1, <1>2, LatestIs
<1> HIDE DEF v
<1>4. Len(v) <= Limit(MaxPrev)
  BY <1>1, <1>3, Limits
<1>5. QED
  BY <1>2, <1>3, <1>4 DEF v

\* What is left of the window behind its first k tracks.
LEMMA RestIs ==
  ASSUME NEW v \in Seq(Track), NEW k \in 1..(Len(v) + 1)
  PROVE  /\ SubSeq(v, k + 1, Len(v)) \in Seq(Track)
         /\ Len(SubSeq(v, k + 1, Len(v))) <= Len(v)
         /\ k = 1 /\ v # <<>> => SubSeq(v, k + 1, Len(v)) = Tail(v)
<1> DEFINE w == SubSeq(v, k + 1, Len(v))
<1>1. w \in Seq(Track) /\ Len(w) <= Len(v)
  OBVIOUS
<1>2. k = 1 /\ v # <<>> => w = Tail(v)
  OBVIOUS
<1>3. QED
  BY <1>1, <1>2

\* What going on makes of a state: the first of the queued tracks is played,
\* the others follow.
Advanced(s, x) ==
  s.next # <<>> /\ IsQueue(s.next[1]) =>
    x.track = s.next[1] /\ Kept(Tail(s.next), x.next)

LEMMA NextTrackIs ==
  ASSUME NEW s, Bounded(s)
  PROVE  /\ NextTrack(s).ok \in BOOLEAN /\ NextTrack(s).found \in BOOLEAN
         /\ Bounded(NextTrack(s).s) /\ NextTrack(s).s.active = s.active
         /\ NextTrack(s).ok => Advanced(s, NextTrack(s).s)
         /\ NextTrack(s).ok /\ s.next # <<>> /\ IsQueue(s.next[1])
              => NextTrack(s).found
<1> DEFINE old == [s EXCEPT !.repeatTrack = FALSE, !.track = NoTrack]
           past == IF IsContext(s.track) \/ IsAutoplay(s.track)
                   THEN [old EXCEPT !.prev = PushPrev(@, <<s.track>>)]
                   ELSE old
           heads == {i \in DOMAIN s.next : ~IsDelimiter(s.next[i])
                                           /\ ~IsUnavailable(s.next[i])}
           ends(k) == Cardinality({i \in 1..(k - 1) : IsDelimiter(s.next[i])})
           from(k) == [past EXCEPT
                    !.prev = PushPrev(@, [i \in 1..ends(k) |-> Delimiter]),
                    !.next = SubSeq(s.next, k + 1, Len(s.next))]
           play(x, t) ==
             [(IF IsAutoplay(t) THEN SetActiveContext(x, "autoplay") ELSE x)
                EXCEPT !.track = t,
                       !.index = IF IsContext(t) /\ t.ci >= 0 THEN t.ci ELSE 0]
<1>1. s \in State /\ s.track \in Track /\ s.next \in Seq(Track)
  BY DEF Bounded, State
<1>2. Bounded(past) /\ past.active = s.active
  <2>1. old \in State /\ old.next = s.next /\ old.prev = s.prev
        /\ old.active = s.active
    BY <1>1, Constants DEF State
  <2>2. Bounded(old)
    BY <2>1 DEF Bounded
  <2> HIDE DEF old
  <2> DEFINE v == PushPrev(old.prev, <<s.track>>)
  <2>3. v \in Seq(Track) /\ Len(v) <= Limit(MaxPrev)
    <3>1. <<s.track>> \in Seq(Track)
      BY <1>1
    <3>2. old.prev \in Seq(Track) /\ Len(old.prev) <= Limit(MaxPrev)
      BY <2>2 DEF Bounded, State
    <3>3. QED
      BY <3>1, <3>2, PushPrevIs
  <2>4. past = IF IsContext(s.track) \/ IsAutoplay(s.track)
               THEN [old EXCEPT !.prev = v] ELSE old
    OBVIOUS
  <2> HIDE DEF v, past
  <2>5. QED
    BY <2>1, <2>2, <2>3, <2>4 DEF Bounded, State
<1>3. ASSUME NEW k \in 1..(Len(s.next) + 1)
      PROVE  /\ Bounded(from(k)) /\ from(k).active = s.active
             /\ k = 1 /\ s.next # <<>> => from(k).next = Tail(s.next)
  <2> DEFINE x == from(k)
             n == ends(k)
  <2>1. n \in Nat
    <3> DEFINE T == {i \in 1..(k - 1) : IsDelimiter(s.next[i])}
    <3>1. IsFiniteSet(1..(k - 1)) /\ T \subseteq 1..(k - 1)
      BY FS_Interval
    <3>2. IsFiniteSet(T)
      <4> HIDE DEF T
      <4>1. QED
        BY <3>1, FS_Subset
    <3>3. QED
      <4> HIDE DEF T
      <4>1. Cardinality(T) \in Nat
        BY <3>2, FS_CardinalityType
      <4>2. QED
        BY <4>1 DEF T
  <2> DEFINE d == [i \in 1..n |-> Delimiter]
             v == PushPrev(past.prev, d)
             w == SubSeq(s.next, k + 1, Len(s.next))
  <2>2. x = [past EXCEPT !.prev = v, !.next = w]
    OBVIOUS
  <2> HIDE DEF past, x, n
  <2>3. d \in [1..n -> Track]
    BY Constants
  <2>4. d \in Seq(Track)
    <3> HIDE DEF d
    <3>1. QED
      BY <2>1, <2>3
  <2> HIDE DEF d
  <2>5. v \in Seq(Track) /\ Len(v) <= Limit(MaxPrev)
    <3>1. past.prev \in Seq(Track) /\ Len(past.prev) <= Limit(MaxPrev)
      BY <1>2 DEF Bounded, State
    <3>2. QED
      BY <2>4, <3>1, PushPrevIs
  <2>6. /\ w \in Seq(Track) /\ Len(w) <= Limit(MaxNext)
        /\ k = 1 /\ s.next # <<>> => w = Tail(s.next)
    <3>1. Len(s.next) <= Limit(MaxNext)
      BY DEF Bounded
    <3>2. /\ w \in Seq(Track) /\ Len(w) <= Len(s.next)
          /\ k = 1 /\ s.next # <<>> => w = Tail(s.next)
      BY <1>1, RestIs
    <3> HIDE DEF w
    <3>3. Len(w) \in Nat /\ Len(s.next) \in Nat
      BY <1>1, <3>2
    <3>4. QED
      BY <3>1, <3>2, <3>3, Limits
  <2> HIDE DEF v, w
  <2>7. /\ Bounded(x) /\ x.active = past.active /\ x.next = w
    BY <1>2, <2>2, <2>5, <2>6 DEF Bounded, State
  <2>8. /\ Bounded(x) /\ x.active = s.active
        /\ k = 1 /\ s.next # <<>> => x.next = Tail(s.next)
    BY <1>2, <2>6, <2>7
  <2>9. QED
    BY <2>8 DEF x
<1>4. ASSUME NEW x, Bounded(x), NEW t \in Track
      PROVE  /\ Bounded(play(x, t)) /\ play(x, t).track = t
             /\ play(x, t).next = x.next /\ play(x, t).active = x.active
  <2> DEFINE y == IF IsAutoplay(t) THEN SetActiveContext(x, "autoplay") ELSE x
             i == IF IsContext(t) /\ t.ci >= 0 THEN t.ci ELSE 0
  <2>1. "autoplay" \in ContextType
    BY DEF ContextType
  <2>2. Bounded(y) /\ y.next = x.next /\ y.active = x.active
    BY <1>4, <2>1, SetActiveLeads DEF Leads
  <2>3. i \in Nat
    <3>1. t.ci \in Int
      BY DEF Track
    <3> HIDE DEF y
    <3>2. QED
      BY <3>1
  <2>4. play(x, t) = [y EXCEPT !.track = t, !.index = i]
    OBVIOUS
  <2> HIDE DEF y, i
  <2>5. QED
    BY <2>2, <2>3, <2>4 DEF Bounded, State
<1>5. CASE heads = {}
  <2> DEFINE x == from(Len(s.next) + 1)
  <2>1. NextTrack(s) = [ok |-> TRUE, found |-> FALSE, s |-> x]
    BY <1>5 DEF NextTrack, Gone
  <2>2. Len(s.next) + 1 \in 1..(Len(s.next) + 1)
    BY <1>1
  <2>3. ~(s.next # <<>> /\ IsQueue(s.next[1]))
    <3>1. ASSUME s.next # <<>>, IsQueue(s.next[1]) PROVE FALSE
      <4>1. 1 \in DOMAIN s.next
        BY <1>1, <3>1
      <4>2. 1 \in heads
        BY <3>1, <4>1 DEF IsQueue, IsDelimiter, IsUnavailable
      <4>3. QED
        BY <1>5, <4>2
    <3>2. QED
      BY <3>1
  <2>4. Bounded(x) /\ x.active = s.active
    BY <1>3, <2>2
  <2> HIDE DEF x
  <2>5. QED
    BY <2>1, <2>3, <2>4 DEF Advanced
<1>6. CASE heads # {}
  <2> DEFINE k == CHOOSE i \in heads : \A j \in heads : i <= j
             y == from(k)
             r == FillUpNextTracks(y)
             z == play(r.s, s.next[k])
  <2>1. heads \in SUBSET Nat /\ heads \subseteq 1..Len(s.next)
    BY <1>1
  <2>2. k \in heads /\ \A j \in heads : k <= j
    <3> HIDE DEF heads
    <3>1. \E i \in heads : \A j \in heads : i <= j
      BY <1>6, <2>1, LeastNumber
    <3>2. QED
      BY <3>1
  <2>3. k \in 1..Len(s.next) /\ k \in 1..(Len(s.next) + 1)
    <3> HIDE DEF heads, k
    <3>1. QED
      BY <1>1, <2>1, <2>2
  <2>4. s.next # <<>> /\ IsQueue(s.next[1]) => k = 1
    <3>1. ASSUME s.next # <<>>, IsQueue(s.next[1]) PROVE k = 1
      <4>1. 1 \in DOMAIN s.next
        BY <1>1, <3>1
      <4>2. 1 \in heads
        BY <3>1, <4>1 DEF IsQueue, IsDelimiter, IsUnavailable
      <4> HIDE DEF heads, k
      <4>3. QED
        BY <2>2, <2>3, <4>2
    <3>2. QED
      BY <3>1
  <2>5. NextTrack(s) = IF r.ok THEN [ok |-> TRUE, found |-> TRUE,
                                     s |-> UpdateRestrictions(z)]
                       ELSE [ok |-> FALSE, found |-> FALSE, s |-> r.s]
    BY <1>6 DEF NextTrack, Moved
  <2> HIDE DEF k
  <2>6. /\ Bounded(y) /\ y.active = s.active
        /\ s.next # <<>> /\ IsQueue(s.next[1]) => y.next = Tail(s.next)
    BY <1>3, <2>3, <2>4
  <2>7. s.next[k] \in Track
    BY <1>1, <2>3
  <2> HIDE DEF y
  <2>8. Fine(y, r)
    BY <2>6, FillUpFine
  <2>9. r.ok \in BOOLEAN /\ Bounded(r.s) /\ r.s.active = y.active
        /\ Kept(y.next, r.s.next)
    BY <2>8 DEF Fine, Leads
  <2> HIDE DEF r
  <2>10. /\ Bounded(z) /\ z.track = s.next[k] /\ z.next = r.s.next
         /\ z.active = r.s.active
    BY <1>4, <2>7, <2>9
  <2> HIDE DEF z
  <2> DEFINE u == UpdateRestrictions(z)
  <2>11. /\ Bounded(u) /\ u.track = z.track /\ u.next = z.next
         /\ u.active = z.active
    BY <2>10, RestrictionsLead DEF Leads
  <2> HIDE DEF u
  <2>12. CASE r.ok
    <3>1. NextTrack(s) = [ok |-> TRUE, found |-> TRUE, s |-> u]
      BY <2>5, <2>12 DEF u
    <3>2. Advanced(s, u)
      BY <2>4, <2>6, <2>9, <2>10, <2>11 DEF Advanced
    <3>3. QED
      BY <2>6, <2>9, <2>10, <2>11, <3>1, <3>2
  <2>13. CASE ~r.ok
    BY <2>5, <2>6, <2>9, <2>13
  <2>14. QED
    BY <2>9, <2>12, <2>13
<1>7. QED
  BY <1>5, <1>6

LEMMA FineThen ==
  ASSUME NEW s, Bounded(s), NEW r, Fine(s, r), NEW q, r.ok => Fine(r.s, q)
  PROVE  Fine(s, IF r.ok THEN q ELSE r)
<1>1. CASE r.ok
  BY <1>1, LeadsTrans DEF Fine
<1>2. CASE ~r.ok
  BY <1>2
<1>3. QED
  BY <1>1, <1>2 DEF Fine

LEMMA LeadsFine ==
  ASSUME NEW s, NEW x, NEW r, Bounded(s), Leads(s, x), Fine(x, r)
  PROVE  Fine(s, r)
BY LeadsTrans DEF Fine

LEMMA FineBounded ==
  ASSUME NEW s, NEW r, Fine(s, r)
  PROVE  r.ok \in BOOLEAN /\ Bounded(r.s)
BY DEF Fine, Leads

\* Skipping back keeps the bounds.
LEMMA PrevTrackIs ==
  ASSUME NEW s, Bounded(s)
  PROVE  /\ PrevTrack(s).ok \in BOOLEAN /\ PrevTrack(s).found \in BOOLEAN
         /\ Bounded(PrevTrack(s).s)
<1> DEFINE next == IF IsContext(s.track) \/ IsAutoplay(s.track)
                   THEN <<s.track>> \o s.next ELSE s.next
           delim == s.prev # <<>> /\ IsDelimiter(Last(s.prev))
           prev == IF delim THEN Front(s.prev) ELSE s.prev
           w == IF delim THEN <<Delimiter>> \o Clip(next, MaxNext - 1)
                ELSE Clip(next, MaxNext)
           cut == [s EXCEPT !.track = NoTrack, !.prev = prev, !.next = w]
<1>1. /\ s \in State /\ s.track \in Track /\ s.next \in Seq(Track)
      /\ s.prev \in Seq(Track) /\ Len(s.prev) <= Limit(MaxPrev)
  BY DEF Bounded, State
<1>2. /\ MaxNext \in Nat /\ MaxNext - 1 \in Nat /\ Limit(MaxPrev) \in Nat
      /\ Limit(MaxNext) \in Nat /\ MaxNext <= Limit(MaxNext)
  BY ConnectAssumption, Limits
<1>3. next \in Seq(Track)
  BY <1>1
<1>4. w \in Seq(Track) /\ Len(w) <= Limit(MaxNext)
  <2> HIDE DEF next
  <2>1. /\ Clip(next, MaxNext - 1) \in Seq(Track)
        /\ Len(Clip(next, MaxNext - 1)) <= MaxNext - 1
    BY <1>2, <1>3, ClipIs
  <2>2. /\ Clip(next, MaxNext) \in Seq(Track)
        /\ Len(Clip(next, MaxNext)) <= Limit(MaxNext)
    BY <1>2, <1>3, ClipIs
  <2>3. <<Delimiter>> \in Seq(Track) /\ Len(<<Delimiter>>) = 1
    <3>1. Delimiter \in Track
      BY Constants
    <3>2. QED
      BY <3>1
  <2> DEFINE a == Clip(next, MaxNext - 1)
             d == <<Delimiter>>
  <2> HIDE DEF a, d
  <2>4. d \o a \in Seq(Track) /\ Len(d \o a) = 1 + Len(a)
    BY <2>1, <2>3 DEF a, d
  <2>5. Len(d \o a) <= Limit(MaxNext)
    BY <1>2, <2>1, <2>4 DEF a
  <2>6. QED
    BY <2>2, <2>4, <2>5 DEF a, d
<1>5. prev \in Seq(Track) /\ Len(prev) <= Limit(MaxPrev)
  <2>1. s.prev # <<>> => Front(s.prev) \in Seq(Track)
                         /\ Len(Front(s.prev)) <= Len(s.prev)
    BY <1>1 DEF Front
  <2>2. QED
    BY <1>1, <1>2, <2>1
<1>6. PrevTrack(s) =
        IF prev = <<>> THEN Gone(cut)
        ELSE Moved(FillUpNextTracks(
               IF [cut EXCEPT !.prev = Front(prev)].activeContext = "autoplay"
                  /\ IsContext(Last(prev))
               THEN SetActiveContext([cut EXCEPT !.prev = Front(prev)],
                                     "default")
               ELSE [cut EXCEPT !.prev = Front(prev)]),
               LAMBDA x : [x EXCEPT !.track = Last(prev),
                             !.index = IF x.index = 0 THEN 0 ELSE x.index - 1])
  BY <1>1 DEF PrevTrack, State
<1> HIDE DEF next, prev, w
<1>7. cut \in State /\ cut.prev = prev /\ cut.next = w
  BY <1>1, <1>4, <1>5, Constants DEF State
<1>8. Bounded(cut)
  BY <1>4, <1>5, <1>7 DEF Bounded
<1> HIDE DEF cut
<1>9. CASE prev = <<>>
  BY <1>6, <1>8, <1>9 DEF Gone
<1>10. CASE prev # <<>>
  <2> DEFINE e == [cut EXCEPT !.prev = Front(prev)]
             h == IF e.activeContext = "autoplay" /\ IsContext(Last(prev))
                  THEN SetActiveContext(e, "default") ELSE e
             r == FillUpNextTracks(h)
             i == IF r.s.index = 0 THEN 0 ELSE r.s.index - 1
             z == [r.s EXCEPT !.track = Last(prev), !.index = i]
  <2>1. Front(prev) \in Seq(Track) /\ Len(Front(prev)) <= Limit(MaxPrev)
        /\ Last(prev) \in Track
    BY <1>2, <1>5, <1>10 DEF Front, Last
  <2>2. PrevTrack(s) = IF r.ok THEN [ok |-> TRUE, found |-> TRUE,
                                     s |-> UpdateRestrictions(z)]
                       ELSE [ok |-> FALSE, found |-> FALSE, s |-> r.s]
    BY <1>6, <1>10 DEF Moved
  <2>3. Bounded(e)
    BY <1>7, <1>8, <2>1 DEF Bounded, State
  <2> HIDE DEF e
  <2>4. Bounded(h)
    <3>1. "default" \in ContextType
      BY DEF ContextType
    <3>2. QED
      BY <2>3, <3>1, SetActiveLeads DEF Leads
  <2> HIDE DEF h
  <2>5. r.ok \in BOOLEAN /\ Bounded(r.s)
    BY <2>4, FillUpFine, FineBounded
  <2> HIDE DEF r
  <2>6. i \in Nat
    <3>1. r.s.index \in Nat
      BY <2>5 DEF Bounded, State
    <3> HIDE DEF z
    <3>2. QED
      BY <3>1
  <2> HIDE DEF i
  <2>7. Bounded(z)
    BY <2>1, <2>5, <2>6 DEF Bounded, State
  <2> HIDE DEF z
  <2>8. Bounded(UpdateRestrictions(z))
    BY <2>7, RestrictionsLead DEF Leads
  <2>9. QED
    BY <2>2, <2>5, <2>8
<1>11. QED
  BY <1>9, <1>10

LEMMA CurrentAtFine ==
  ASSUME NEW x, Bounded(x), NEW i \in Nat
  PROVE  Fine(x, CurrentAt(x, i))
<1> DEFINE y == [x EXCEPT !.fillUpContext = x.activeContext]
<1>1. y \in State /\ y.next = x.next /\ y.prev = x.prev /\ y.active = x.active
  BY DEF Bounded, State
<1>2. CurrentAt(x, i) = Ok(y) \/ CurrentAt(x, i) = SetCurrentTrack(y, i)
  BY DEF CurrentAt
<1> HIDE DEF y
<1>3. Leads(x, y) /\ Bounded(y)
  BY <1>1, SameWindow DEF Leads
<1>4. Fine(y, Ok(y))
  BY <1>3, LeadsRefl DEF Fine, Ok
<1>5. Fine(y, SetCurrentTrack(y, i))
  BY <1>3, SetCurrentFine
<1>6. QED
  BY <1>2, <1>3, <1>4, <1>5, LeadsFine

LEMMA WindowAtFine ==
  ASSUME NEW x, Bounded(x), NEW i \in Nat
  PROVE  Fine(x, WindowAt(x, i))
<1> DEFINE v == GetContext(x, x.activeContext).tracks
           w == Latest(Clip(v, i), MaxPrev)
           y == [x EXCEPT !.prev = w]
           z == ClearNextTracks(y)
<1>1. x \in State /\ v \in Seq(Track)
  BY DEF GetContext, Bounded, State, Context, ContextRecord
<1>2. w \in Seq(Track) /\ Len(w) <= Limit(MaxPrev)
  <2> HIDE DEF v
  <2>1. Clip(v, i) \in Seq(Track)
    BY <1>1, ClipIs
  <2>2. w \in Seq(Track) /\ Len(w) <= MaxPrev
    BY <2>1, Limits, LatestIs
  <2> HIDE DEF w
  <2>3. QED
    BY <2>2, Limits
<1>3. WindowAt(x, i) = FillUpNextTracks(z)
  BY DEF WindowAt
<1> HIDE DEF w
<1>4. y \in State /\ y.next = x.next /\ y.prev = w /\ y.active = x.active
  BY <1>1, <1>2 DEF State
<1> HIDE DEF y
<1>5. Leads(x, y) /\ Bounded(y)
  BY <1>2, <1>4, KeptRefl DEF Leads, Bounded
<1>6. Leads(y, z)
  BY <1>5, ClearNextLeads
<1> HIDE DEF z
<1>7. Leads(x, z) /\ Bounded(z)
  BY <1>5, <1>6, LeadsTrans DEF Leads
<1>8. Fine(z, FillUpNextTracks(z))
  BY <1>7, FillUpFine
<1>9. QED
  BY <1>3, <1>7, <1>8, LeadsFine

\* A playback set to a position of its context keeps its queue.
LEMMA ResetPlaybackFine ==
  ASSUME NEW s, Bounded(s), NEW i \in Nat
  PROVE  Fine(s, ResetPlaybackToPosition(s, i))
<1> DEFINE x0 == [s EXCEPT !.index = i]
           r1 == UpdateContextIndex(x0, s.activeContext, i + 1)
           r2 == IF r1.ok THEN CurrentAt(r1.s, i) ELSE r1
           r3 == IF r2.ok THEN WindowAt(r2.s, i) ELSE r2
           r4 == IF r3.ok THEN Ok(UpdateRestrictions(r3.s)) ELSE r3
<1>1. ResetPlaybackToPosition(s, i) = r4
  BY DEF ResetPlaybackToPosition, Then
<1>2. Leads(s, x0) /\ s.activeContext \in ContextType /\ Bounded(x0)
  <2>1. /\ x0 \in State /\ x0.next = s.next /\ x0.prev = s.prev
        /\ x0.active = s.active /\ s.activeContext \in ContextType
    BY DEF Bounded, State
  <2> HIDE DEF x0
  <2>2. QED
    BY <2>1, SameWindow DEF Leads
<1>3. Fine(s, r1)
  <2> HIDE DEF x0
  <2>1. i + 1 \in Nat
    OBVIOUS
  <2>2. Fine(x0, r1)
    BY <1>2, <2>1, UpdateIndexFine
  <2> HIDE DEF r1
  <2>3. QED
    BY <1>2, <2>2, LeadsFine
<1> HIDE DEF r1
<1>4. Fine(s, r2)
  <2> DEFINE q == CurrentAt(r1.s, i)
  <2>1. Fine(r1.s, q)
    BY <1>3, CurrentAtFine, FineBounded
  <2> HIDE DEF q
  <2>2. Fine(s, IF r1.ok THEN q ELSE r1)
    BY <1>3, <2>1, FineThen
  <2>3. QED
    BY <2>2 DEF q
<1> HIDE DEF r2
<1>5. Fine(s, r3)
  <2> DEFINE q == WindowAt(r2.s, i)
  <2>1. Fine(r2.s, q)
    BY <1>4, WindowAtFine, FineBounded
  <2> HIDE DEF q
  <2>2. Fine(s, IF r2.ok THEN q ELSE r2)
    BY <1>4, <2>1, FineThen
  <2>3. QED
    BY <2>2 DEF q
<1> HIDE DEF r3
<1>6. Fine(s, r4)
  <2> DEFINE q == Ok(UpdateRestrictions(r3.s))
  <2>1. Fine(r3.s, q)
    <3>1. Bounded(r3.s)
      BY <1>5, FineBounded
    <3>2. QED
      BY <3>1, RestrictionsLead DEF Fine, Ok
  <2> HIDE DEF q
  <2>2. Fine(s, IF r3.ok THEN q ELSE r3)
    BY <1>5, <2>1, FineThen
  <2>3. QED
    BY <2>2 DEF q
<1>7. QED
  BY <1>1, <1>6

-----------------------------------------------------------------------------
(* The queue                                                               *)

LEMMA QueuedTrack ==
  ASSUME NEW u \in Uris
  PROVE  Provided(u, "queue", -1) \in Track
<1>1. u \in Uris \cup {"", "spotify:delimiter"}
  OBVIOUS
<1>2. Provided(u, "queue", Delimiter.ci) \in Track
  <2>1. Delimiter.ci \in Int
    BY Constants DEF Track
  <2>2. QED
    BY <1>1, <2>1 DEF Provided, Track
<1>3. Delimiter.ci = -1
  BY DEF Delimiter, Provided
<1>4. QED
  BY <1>2, <1>3

\* A track is queued behind the others, also when the window is full and its
\* last track, or the new one, falls out; of a longer list, some of the queue.
LEMMA AddToQueueLeads ==
  ASSUME NEW s, Bounded(s), NEW u \in Uris
  PROVE  Leads(s, AddToQueue(s, u))
<1> DEFINE t == Provided(u, "queue", -1)
           e == QueueEnd(s)
           a == SubSeq(s.next, 1, e - 1)
           b == SubSeq(s.next, e, Len(s.next))
           v == a \o <<t>> \o b
           w == Clip(v, MaxNext)
           x == [s EXCEPT !.next = w]
<1>1. s \in State /\ s.next \in Seq(Track)
  BY DEF Bounded, State
<1>2. MaxNext \in Nat
  BY ConnectAssumption
<1>3. t \in Track
  BY QueuedTrack
<1>4. /\ e \in 1..(Len(s.next) + 1)
      /\ e <= Len(s.next) => ~IsQueue(s.next[e])
  BY <1>1, QueueEndIs
<1>5. AddToQueue(s, u) = UpdateRestrictions(x)
  BY DEF AddToQueue, InsertAt
<1> HIDE DEF t, e
<1>6. /\ a \in Seq(Track) /\ Len(a) = e - 1
      /\ \A i \in 1..(e - 1) : a[i] = s.next[i]
  BY <1>1, <1>4
<1>7. b \in Seq(Track) /\ <<t>> \in Seq(Track)
  BY <1>1, <1>3, <1>4
<1> HIDE DEF a, b
<1>8. /\ v \in Seq(Track) /\ Len(v) >= e - 1
      /\ \A i \in 1..(e - 1) : v[i] = a[i]
  BY <1>4, <1>6, <1>7
<1> HIDE DEF v
<1>9. /\ w \in Seq(Track) /\ Len(w) <= Limit(MaxNext)
      /\ \A i \in 1..Len(w) : w[i] = v[i]
      /\ Len(w) = IF Len(v) < MaxNext THEN Len(v) ELSE MaxNext
  <2>1. /\ w \in Seq(Track) /\ \A i \in 1..Len(w) : w[i] = v[i]
        /\ Len(w) = IF Len(v) < MaxNext THEN Len(v) ELSE MaxNext
    BY <1>2, <1>8, ClipIs
  <2> HIDE DEF w
  <2>2. Len(v) \in Nat
    BY <1>8
  <2>3. Len(w) <= Limit(MaxNext)
    BY <2>1, <2>2, Limits
  <2>4. QED
    BY <2>1, <2>3
<1> HIDE DEF w
<1>10. x \in State /\ x.next = w /\ x.prev = s.prev /\ x.active = s.active
  BY <1>1, <1>9 DEF State
<1>11. Kept(s.next, w)
  <2> SUFFICES ASSUME "setQueue" \notin scene.inputs, NEW i \in 1..Len(s.next),
                      \A j \in 1..i : IsQueue(s.next[j])
               PROVE  i <= Len(w) /\ w[i] = s.next[i]
    BY DEF Kept
  <2>1. ~(e \in 1..i)
    BY <1>4
  <2>2. i \in 1..(e - 1)
    BY <1>1, <1>4, <2>1
  <2>3. Len(w) \in Nat /\ Len(v) \in Nat /\ Len(s.next) \in Nat /\ e \in Nat
    BY <1>1, <1>4, <1>8, <1>9
  <2>4. Len(s.next) <= MaxNext
    BY Limits DEF Bounded
  <2>5. i <= Len(v) /\ i <= MaxNext
    BY <1>2, <1>8, <2>2, <2>3, <2>4
  <2>6. i \in 1..Len(w)
    BY <1>2, <1>9, <2>3, <2>5
  <2>7. w[i] = v[i] /\ v[i] = a[i] /\ a[i] = s.next[i]
    BY <1>6, <1>8, <1>9, <2>2, <2>6
  <2>8. QED
    BY <2>6, <2>7
<1> HIDE DEF x
<1>12. Leads(s, x) /\ Bounded(x)
  BY <1>9, <1>10, <1>11 DEF Leads, Bounded
<1>13. Leads(x, UpdateRestrictions(x))
  BY <1>12, RestrictionsLead
<1>14. QED
  BY <1>5, <1>12, <1>13, LeadsTrans

LEMMA RetainIs ==
  ASSUME NEW v \in Seq(Track), NEW u
  PROVE  Retain(v, u) \in Seq(Track) /\ Len(Retain(v, u)) <= Len(v)
<1> DEFINE N == Len(v)
           S == Seq(Track)
           body(n, w) == IF v[n].uri = u THEN w ELSE Append(w, v[n])
           step == [n \in 1..N |-> [w \in S |-> body(n, w)]]
           Is(r) == r = [n \in 0..N |-> IF n = 0 THEN <<>>
                                        ELSE IF v[n].uri = u THEN r[n - 1]
                                        ELSE Append(r[n - 1], v[n])]
           c == CHOOSE r : Is(r)
<1>1. N \in Nat /\ <<>> \in S
  OBVIOUS
<1>2. \A n \in 1..N : v[n] \in Track
  OBVIOUS
<1>3. ASSUME NEW n \in 1..N, NEW w \in S PROVE body(n, w) \in S
  BY <1>2
<1> HIDE DEF S
<1>4. step \in [1..N -> [S -> S]]
  BY <1>3
<1>5. PICK r \in [0..N -> S] : Rounds(r, <<>>, step, N)
  <2> HIDE DEF step, N
  <2>1. QED
    BY <1>1, <1>4, RoundsExist
<1>6. \A n \in 0..N : r[n] = IF n = 0 THEN <<>> ELSE body(n, r[n - 1])
  <2>1. \A n \in 0..N : r[n] = IF n = 0 THEN <<>> ELSE step[n][r[n - 1]]
    BY <1>5 DEF Rounds
  <2>2. ASSUME NEW n \in 0..N, n # 0
        PROVE  step[n][r[n - 1]] = body(n, r[n - 1])
    <3>1. n \in 1..N /\ n - 1 \in 0..N
      BY <1>1, <2>2
    <3>2. r[n - 1] \in S
      BY <3>1
    <3>3. QED
      BY <3>1, <3>2
  <2> HIDE DEF step
  <2>3. QED
    BY <2>1, <2>2
<1>7. Is(r)
  BY <1>5, <1>6
<1>8. Is(c)
  BY <1>7
<1>9. Retain(v, u) = c[N]
  BY DEF Retain
<1> HIDE DEF c
<1>10. c[0] = <<>> /\ \A n \in 1..N : c[n] = body(n, c[n - 1])
  <2> HIDE DEF N
  <2>1. \A n \in 0..N : c[n] = IF n = 0 THEN <<>> ELSE body(n, c[n - 1])
    BY <1>8
  <2>2. 0 \in 0..N /\ \A n \in 1..N : n \in 0..N /\ n # 0
    BY <1>1
  <2>3. QED
    BY <2>1, <2>2
<1> DEFINE P == {n \in 0..N : c[n] \in Seq(Track) /\ Len(c[n]) <= n}
<1>11. 0 \in P
  <2>1. c[0] \in Seq(Track) /\ Len(c[0]) <= 0
    <3>1. <<>> \in Seq(Track) /\ Len(<<>>) <= 0
      OBVIOUS
    <3>2. QED
      BY <1>10, <3>1
  <2>2. 0 \in 0..N
    BY <1>1
  <2> HIDE DEF N
  <2>3. QED
    BY <2>1, <2>2
<1>12. ASSUME NEW n \in 1..N, n - 1 \in P PROVE n \in P
  <2> DEFINE w == c[n - 1]
  <2>1. w \in Seq(Track) /\ Len(w) <= n - 1 /\ n \in 0..N
    BY <1>1, <1>12
  <2>2. c[n] = w \/ c[n] = Append(w, v[n])
    BY <1>10
  <2> HIDE DEF w
  <2>3. c[n] \in Seq(Track) /\ Len(c[n]) <= n
    <3>1. v[n] \in Track
      BY <1>2
    <3> DEFINE t == v[n]
    <3> HIDE DEF t
    <3>2. Append(w, t) \in Seq(Track) /\ Len(Append(w, t)) = Len(w) + 1
          /\ Len(w) \in Nat
      BY <2>1, <3>1 DEF t
    <3>3. Len(w) <= n /\ Len(w) + 1 <= n
      <4> DEFINE l == Len(w)
      <4> HIDE DEF l
      <4>1. l \in Nat /\ l <= n - 1 /\ n \in Nat
        BY <1>1, <2>1, <3>2 DEF l
      <4>2. l <= n /\ l + 1 <= n
        BY <4>1
      <4>3. QED
        BY <4>2 DEF l
    <3>4. QED
      BY <2>1, <2>2, <3>2, <3>3 DEF t
  <2>4. QED
    BY <2>1, <2>3
<1>13. \A n \in 0..N : n \in P
  <2> HIDE DEF P, N
  <2>1. QED
    BY <1>1, <1>11, <1>12, EveryRound
<1>14. N \in P
  BY <1>1, <1>13
<1>15. QED
  BY <1>9, <1>14

LEMMA MarkUnavailableIs ==
  ASSUME NEW s, Bounded(s), NEW u \in Text
  PROVE  /\ MarkUnavailable(s, u).ok \in BOOLEAN
         /\ Bounded(MarkUnavailable(s, u).s)
<1> DEFINE v == Retain(s.next, u)
           w == Retain(s.prev, u)
           U == s.unavailable \cup {u}
           x == [s EXCEPT !.next = v, !.prev = w, !.unavailable = U]
<1>1. /\ s \in State /\ s.next \in Seq(Track) /\ s.prev \in Seq(Track)
      /\ Len(s.next) <= Limit(MaxNext) /\ Len(s.prev) <= Limit(MaxPrev)
      /\ U \in SUBSET Text
  BY DEF Bounded, State
<1>2. Limit(MaxNext) \in Nat /\ Limit(MaxPrev) \in Nat
  BY Limits
<1>3. /\ v \in Seq(Track) /\ Len(v) <= Len(s.next)
      /\ w \in Seq(Track) /\ Len(w) <= Len(s.prev)
  BY <1>1, RetainIs
<1>4. MarkUnavailable(s, u) = FillUpNextTracks(x)
  BY DEF MarkUnavailable
<1> HIDE DEF v, w, U
<1>5. x \in State /\ x.next = v /\ x.prev = w
  BY <1>1, <1>3 DEF State
<1> HIDE DEF x
<1>6. Len(v) <= Limit(MaxNext) /\ Len(w) <= Limit(MaxPrev)
  BY <1>1, <1>2, <1>3
<1>7. Bounded(x)
  BY <1>5, <1>6 DEF Bounded
<1>8. QED
  BY <1>4, <1>7, FillUpFine, FineBounded

-----------------------------------------------------------------------------
(* Shuffle and repeat                                                      *)

LEMMA ShuffleFromFine ==
  ASSUME NEW s, Bounded(s), NEW how, NEW u \in Text
  PROVE  Fine(s, ShuffleFrom(s, how, u))
<1> DEFINE a == [s EXCEPT !.prev = <<>>]
           b == ClearNextTracks(a)
           e == ResetContext(b, "index")
           d == [ShuffleWithSeed(e.context["default"], how, u)
                   EXCEPT !.initial = u]
           x == [e EXCEPT !.context["default"] = d]
<1>1. a \in State /\ a.next = s.next /\ a.prev = <<>> /\ a.active = s.active
  <2>1. <<>> \in Seq(Track)
    OBVIOUS
  <2>2. QED
    BY <2>1 DEF Bounded, State
<1>2. ShuffleFrom(s, how, u) = IF ~e.context["default"].some THEN Err(e)
                               ELSE FillUpNextTracks(x)
  BY DEF ShuffleFrom
<1> HIDE DEF a
<1>3. Leads(s, a) /\ Bounded(a)
  BY <1>1, SameWindow DEF Leads
<1>4. Leads(a, b) /\ Bounded(b)
  BY <1>3, ClearNextLeads DEF Leads
<1> HIDE DEF b
<1>5. Leads(b, e) /\ Bounded(e)
  BY <1>4, ResetContextLeads DEF Leads
<1> HIDE DEF e
<1>6. Leads(s, e)
  <2>1. Leads(a, e)
    BY <1>3, <1>4, <1>5, LeadsTrans
  <2>2. QED
    BY <1>3, <2>1, LeadsTrans
<1>7. e \in State /\ "default" \in ContextType /\ e.context["default"] \in Context
  BY <1>5 DEF Bounded, State, ContextType
<1>8. d \in Context
  <2>1. ShuffleWithSeed(e.context["default"], how, u) \in Context
    BY <1>7, ShuffleIs
  <2>2. QED
    BY <2>1 DEF Context, ContextRecord
<1> HIDE DEF d
<1>9. x \in State /\ x.next = e.next /\ x.prev = e.prev /\ x.active = e.active
  BY <1>7, <1>8 DEF State
<1> HIDE DEF x
<1>10. Leads(e, x) /\ Bounded(x)
  BY <1>5, <1>9, SameWindow DEF Leads
<1>11. Fine(x, FillUpNextTracks(x))
  BY <1>10, FillUpFine
<1>12. Fine(s, FillUpNextTracks(x))
  BY <1>5, <1>6, <1>10, <1>11, LeadsFine
<1>13. Fine(s, Err(e))
  BY <1>6 DEF Fine, Err
<1>14. QED
  BY <1>2, <1>12, <1>13

LEMMA ErrFine ==
  ASSUME NEW s, Bounded(s)
  PROVE  Fine(s, Err(s)) /\ Fine(s, Ok(s))
BY LeadsRefl DEF Fine, Err, Ok

LEMMA ShuffleNewFine ==
  ASSUME NEW s, Bounded(s), NEW how
  PROVE  Fine(s, ShuffleNew(s, how))
<1>1. s.track.uri \in Text
  BY TrackUri DEF Bounded, State
<1>2. Fine(s, Err(s)) /\ Fine(s, ShuffleFrom(s, how, s.track.uri))
  BY <1>1, ErrFine, ShuffleFromFine
<1>3. QED
  BY <1>2 DEF ShuffleNew

LEMMA ShuffleRestoreFine ==
  ASSUME NEW s, Bounded(s), NEW how, NEW u \in Text
  PROVE  Fine(s, ShuffleRestore(s, how, u))
<1>1. /\ Fine(s, Err(s)) /\ Fine(s, ShuffleFrom(s, how, u))
      /\ Fine(s, ShuffleNew(s, how))
  BY ErrFine, ShuffleFromFine, ShuffleNewFine
<1>2. QED
  BY <1>1 DEF ShuffleRestore

LEMMA HandleShuffleFine ==
  ASSUME NEW s, Bounded(s), NEW on \in BOOLEAN, NEW how
  PROVE  Fine(s, HandleShuffle(s, on, how))
<1> DEFINE set == [s EXCEPT !.shuffle = on]
           plain == ResetContext(set, "index")
           c == plain.context["default"]
           found == PositionOf(c.tracks, s.track.uri)
           r == HandleShuffle(s, on, how)
<1>1. /\ set \in State /\ set.next = s.next /\ set.prev = s.prev
      /\ set.active = s.active /\ s.track \in Track
  BY DEF Bounded, State
<1>2. r = IF on THEN ShuffleNew(set, how)
          ELSE IF s.track = NoTrack THEN Ok(plain)
          ELSE IF s.track.ci >= 0
          THEN ResetPlaybackToPosition(plain, s.track.ci)
          ELSE IF ~c.some \/ found = 0 THEN Err(plain)
          ELSE ResetPlaybackToPosition(plain, found - 1)
  BY DEF HandleShuffle
<1> HIDE DEF set, r
<1>3. Leads(s, set) /\ Bounded(set)
  BY <1>1, SameWindow DEF Leads
<1>4. Leads(set, plain) /\ Bounded(plain)
  BY <1>3, ResetContextLeads DEF Leads
<1> HIDE DEF plain
<1>5. Leads(s, plain)
  BY <1>3, <1>4, LeadsTrans
<1>6. found \in Nat
  <2>1. c.tracks \in Seq(Track)
    BY <1>4 DEF Bounded, State, Context, ContextRecord, ContextType
  <2> HIDE DEF c
  <2>2. QED
    BY <2>1, PositionIs
<1> HIDE DEF found, c
<1>7. Fine(s, ShuffleNew(set, how))
  BY <1>3, ShuffleNewFine, LeadsFine
<1>8. Fine(s, Ok(plain)) /\ Fine(s, Err(plain))
  BY <1>4, <1>5, ErrFine, LeadsFine
<1>9. \A i \in Nat : Fine(s, ResetPlaybackToPosition(plain, i))
  BY <1>4, <1>5, ResetPlaybackFine, LeadsFine
<1>10. found # 0 => found - 1 \in Nat
  BY <1>6
<1>11. s.track.ci >= 0 => s.track.ci \in Nat
  <2>1. s.track.ci \in Int
    BY <1>1 DEF Track
  <2>2. QED
    BY <2>1
<1>12. QED
  BY <1>2, <1>7, <1>8, <1>9, <1>10, <1>11 DEF r

LEMMA HandleRepeatFine ==
  ASSUME NEW s, Bounded(s), NEW on \in BOOLEAN
  PROVE  Fine(s, HandleSetRepeatContext(s, on))
<1> DEFINE f == IF on THEN "default" ELSE s.fillUpContext
           set == [s EXCEPT !.repeatContext = on, !.fillUpContext = f]
           c == set.context["default"]
           found == PositionOf(c.tracks, s.track.uri)
           r == HandleSetRepeatContext(s, on)
<1>1. f \in ContextType
  BY DEF Bounded, State, ContextType
<1>2. r = IF ~c.some \/ found = 0 THEN Err(set)
          ELSE ResetPlaybackToPosition(set, found - 1)
  BY DEF HandleSetRepeatContext, Bounded, State
<1> HIDE DEF f
<1>3. /\ set \in State /\ set.next = s.next /\ set.prev = s.prev
      /\ set.active = s.active
  BY <1>1 DEF Bounded, State
<1> HIDE DEF set, r
<1>4. Leads(s, set) /\ Bounded(set)
  BY <1>3, SameWindow DEF Leads
<1>5. found \in Nat
  <2>1. c.tracks \in Seq(Track)
    BY <1>4 DEF Bounded, State, Context, ContextRecord, ContextType
  <2> HIDE DEF c
  <2>2. QED
    BY <2>1, PositionIs
<1> HIDE DEF found, c
<1>6. Fine(s, Err(set))
  BY <1>4, ErrFine, LeadsFine
<1>7. \A i \in Nat : Fine(s, ResetPlaybackToPosition(set, i))
  BY <1>4, ResetPlaybackFine, LeadsFine
<1>8. found # 0 => found - 1 \in Nat
  BY <1>5
<1>9. QED
  BY <1>2, <1>6, <1>7, <1>8 DEF r

LEMMA ResetOptionsLead ==
  ASSUME NEW s, Bounded(s)
  PROVE  Leads(s, ResetOptions(s))
<1>1. /\ ResetOptions(s) \in State /\ ResetOptions(s).next = s.next
      /\ ResetOptions(s).prev = s.prev /\ ResetOptions(s).active = s.active
  BY DEF ResetOptions, Bounded, State
<1>2. QED
  BY <1>1, SameWindow

LEMMA BecameInactiveIs ==
  ASSUME NEW s, Bounded(s)
  PROVE  Bounded(BecameInactive(s)) /\ ~BecameInactive(s).active
<1> DEFINE x == ResetPlayer(s)
<1>1. x \in State /\ x.next = <<>> /\ x.prev = <<>> /\ x.active = FALSE
  <2>1. NoTrack \in Track
    BY Constants
  <2>2. <<>> \in Seq(Track) /\ "" \in Text /\ "unset" \in Text
    BY DEF Text
  <2>3. QED
    BY <2>1, <2>2 DEF ResetPlayer, Bounded, State
<1> HIDE DEF x
<1>2. Bounded(x)
  BY <1>1, Limits DEF Bounded
<1>3. Leads(x, ResetContext(x, "completely"))
  BY <1>2, ResetContextLeads
<1>4. QED
  BY <1>1, <1>3 DEF BecameInactive, Leads, x

-----------------------------------------------------------------------------
(* Contexts and transfers                                                  *)

Page == [tracks : Seq(Uris), inline : BOOLEAN, url : Text]
Handover == {x \in Transfer : x.playingQueue => x.queue # <<>>}

LEMMA ProvidedIs ==
  ASSUME NEW s, NEW uris \in Seq(Uris), NEW prov \in {"context", "autoplay"},
         NEW n \in Nat
  PROVE  ProvidedTracks(s, uris, prov, n) \in Seq(Track)
<1> DEFINE w == ProvidedTracks(s, uris, prov, n)
           e(i) == Provided(uris[i],
                     IF uris[i] \in s.unavailable THEN "unavailable" ELSE prov,
                     IF prov = "autoplay" THEN -1 ELSE n + i - 1)
<1>1. ASSUME NEW i \in 1..Len(uris) PROVE e(i) \in Track
  <2> DEFINE u == uris[i]
             p == IF uris[i] \in s.unavailable THEN "unavailable" ELSE prov
             m == IF prov = "autoplay" THEN -1 ELSE n + i - 1
  <2>1. u \in Uris /\ p \in {"context", "autoplay", "unavailable"}
    OBVIOUS
  <2>2. m \in Int
    <3>1. Delimiter.ci \in Int /\ Delimiter.ci = -1
      BY Constants DEF Track, Delimiter, Provided
    <3>2. n + i - 1 \in Int
      OBVIOUS
    <3>3. QED
      BY <3>1, <3>2
  <2>3. e(i) = [uri |-> u, prov |-> p, ci |-> m]
    BY DEF Provided
  <2> HIDE DEF u, p, m
  <2>4. [uri |-> u, prov |-> p, ci |-> m] \in Track
    BY <2>1, <2>2 DEF Track
  <2> HIDE DEF e
  <2>5. QED
    BY <2>3, <2>4
<1>2. w = [i \in 1..Len(uris) |-> e(i)]
  BY DEF ProvidedTracks
<1> HIDE DEF e
<1>3. w \in [1..Len(uris) -> Track] /\ Len(uris) \in Nat
  BY <1>1, <1>2
<1> HIDE DEF w
<1>4. w \in Seq(Track)
  BY <1>3
<1>5. QED
  BY <1>4 DEF w

\* The context grows; the window stays.
LEMMA FillContextFine ==
  ASSUME NEW s, Bounded(s), NEW uris \in Seq(Uris)
  PROVE  Fine(s, FillContextFromPage(s, uris))
<1> DEFINE c == s.context["default"]
           w == ProvidedTracks(s, uris, "context", Len(c.tracks))
           v == c.tracks \o w
           d == [c EXCEPT !.tracks = v]
           x == [s EXCEPT !.context["default"] = d]
<1>1. c \in Context /\ s \in State /\ "default" \in ContextType
  BY DEF Bounded, State, ContextType
<1>2. c \in ContextRecord /\ c.tracks \in Seq(Track) /\ Len(c.tracks) \in Nat
      /\ c.undo.first \in Nat /\ c.undo.first <= Len(c.tracks)
  BY <1>1 DEF Context, ContextRecord, Undo
<1>3. w \in Seq(Track)
  <2> HIDE DEF c
  <2>1. QED
    BY <1>2, ProvidedIs
<1>4. FillContextFromPage(s, uris) = IF ~c.some THEN Err(s) ELSE Ok(x)
  BY <1>1 DEF FillContextFromPage, State
<1> HIDE DEF c, w
<1>5. v \in Seq(Track) /\ Len(c.tracks) <= Len(v) /\ Len(v) \in Nat
  BY <1>2, <1>3
<1> HIDE DEF v
<1>6. d \in ContextRecord /\ d.tracks = v /\ d.undo = c.undo
  BY <1>2, <1>5 DEF ContextRecord
<1> HIDE DEF d
<1>7. d \in Context
  BY <1>2, <1>5, <1>6 DEF Context
<1>8. x \in State /\ x.next = s.next /\ x.prev = s.prev /\ x.active = s.active
  BY <1>1, <1>7 DEF State
<1> HIDE DEF x
<1>9. Leads(s, x) /\ Leads(s, s)
  BY <1>8, SameWindow, LeadsRefl
<1>10. QED
  BY <1>4, <1>9 DEF Fine, Ok, Err

LEMMA FillPagesLead ==
  ASSUME NEW s, Bounded(s), NEW pages \in Seq(Page), pages # <<>>
  PROVE  Leads(s, FillContextFromPages(s, pages))
<1> DEFINE N == Len(pages) - 1
           S == {x \in State : Leads(s, x)}
           body(n, x) == IF ~pages[n + 1].inline THEN x
                         ELSE FillContextFromPage(x, pages[n + 1].tracks).s
           step == [n \in 1..N |-> [x \in S |-> body(n, x)]]
           Is(r) == r = [n \in 0..N |->
                           IF n = 0 THEN s
                           ELSE IF ~pages[n + 1].inline THEN r[n - 1]
                           ELSE FillContextFromPage(r[n - 1],
                                                    pages[n + 1].tracks).s]
           c == CHOOSE r : Is(r)
<1>1. N \in Nat /\ \A n \in 1..N : n + 1 \in 1..Len(pages)
  OBVIOUS
<1>2. s \in S
  BY LeadsRefl DEF Bounded
<1>3. ASSUME NEW n \in 1..N, NEW x \in S PROVE body(n, x) \in S
  <2> DEFINE y == FillContextFromPage(x, pages[n + 1].tracks).s
  <2>1. pages[n + 1].tracks \in Seq(Uris)
    <3>1. pages[n + 1] \in Page
      BY <1>1
    <3>2. QED
      BY <3>1 DEF Page
  <2>2. Leads(s, x) /\ Bounded(x)
    BY <1>3 DEF Leads
  <2>3. Leads(x, y)
    <3> DEFINE us == pages[n + 1].tracks
    <3> HIDE DEF us
    <3>1. us \in Seq(Uris)
      BY <2>1 DEF us
    <3>2. Leads(x, FillContextFromPage(x, us).s)
      BY <2>2, <3>1, FillContextFine DEF Fine
    <3>3. QED
      BY <3>2 DEF us
  <2> HIDE DEF y
  <2>4. Leads(s, y) /\ y \in State
    BY <2>2, <2>3, LeadsTrans DEF Leads, Bounded
  <2>5. QED
    BY <2>2, <2>4 DEF y
<1> HIDE DEF S, N
<1>4. step \in [1..N -> [S -> S]]
  BY <1>3
<1>5. PICK r \in [0..N -> S] : Rounds(r, s, step, N)
  <2> HIDE DEF step
  <2>1. QED
    BY <1>1, <1>2, <1>4, RoundsExist
<1>6. \A n \in 0..N : r[n] = IF n = 0 THEN s ELSE body(n, r[n - 1])
  <2>1. \A n \in 0..N : r[n] = IF n = 0 THEN s ELSE step[n][r[n - 1]]
    BY <1>5 DEF Rounds
  <2>2. ASSUME NEW n \in 0..N, n # 0
        PROVE  step[n][r[n - 1]] = body(n, r[n - 1])
    <3>1. n \in 1..N /\ n - 1 \in 0..N
      BY <1>1, <2>2
    <3>2. r[n - 1] \in S
      BY <3>1
    <3>3. QED
      BY <3>1, <3>2
  <2> HIDE DEF step
  <2>3. QED
    BY <2>1, <2>2
<1>7. Is(r)
  BY <1>5, <1>6
<1>8. Is(c)
  BY <1>7
<1>9. FillContextFromPages(s, pages) = c[N]
  BY DEF FillContextFromPages, N
<1> HIDE DEF c
<1>10. c[0] = s /\ \A n \in 1..N : c[n] = body(n, c[n - 1])
  <2>1. \A n \in 0..N : c[n] = IF n = 0 THEN s ELSE body(n, c[n - 1])
    BY <1>8
  <2>2. 0 \in 0..N /\ \A n \in 1..N : n \in 0..N /\ n # 0
    BY <1>1
  <2>3. QED
    BY <2>1, <2>2
<1>11. \A n \in 1..N : c[n - 1] \in S => c[n] \in S
  BY <1>3, <1>10
<1>12. \A n \in 0..N : c[n] \in S
  BY <1>1, <1>2, <1>10, <1>11, StaysIn
<1>13. c[N] \in S
  BY <1>1, <1>12
<1>14. QED
  BY <1>9, <1>13 DEF S

LEMMA LastIndexIs ==
  ASSUME NEW s, Bounded(s), NEW v \in Seq(Track)
  PROVE  /\ LastIndexInNewContext(s, v).found \in BOOLEAN
         /\ LastIndexInNewContext(s, v).i \in Nat
<1> DEFINE c == s.context["default"]
           inNew == {i \in DOMAIN s.prev : PositionOf(v, s.prev[i].uri) > 0}
           prev == IF inNew = {} THEN 0
                   ELSE PositionOf(v, s.prev[CHOOSE i \in inNew :
                                         \A j \in inNew : j <= i].uri)
           found == IF c.index >= MaxNext THEN c.index - MaxNext + 1
                    ELSE IF IsQueue(s.track) THEN prev
                    ELSE PositionOf(v, s.track.uri)
<1>1. LastIndexInNewContext(s, v) =
        IF found > 0 THEN [found |-> TRUE, i |-> found]
        ELSE [found |-> FALSE, i |-> s.index]
  BY DEF LastIndexInNewContext
<1>2. \A u : PositionOf(v, u) \in Nat
  BY PositionIs
<1>3. c.index \in Nat /\ s.index \in Nat /\ MaxNext \in Nat
  BY ConnectAssumption DEF Bounded, State, Context, ContextRecord, ContextType
<1>4. prev \in Nat
  BY <1>2
<1> HIDE DEF c, prev
<1>5. found \in Nat
  BY <1>2, <1>3, <1>4
<1> HIDE DEF found
<1>6. QED
  BY <1>1, <1>3, <1>5

\* A context that is replaced, and one that is refreshed, leave the queue.
LEMMA UpdateContextFine ==
  ASSUME NEW s, Bounded(s), NEW ty \in ContextType, NEW u \in Text,
         NEW pages \in Seq(Page), pages # <<>>
  PROVE  Fine(s, UpdateContext(s, ty, u, pages))
<1> DEFINE prov == IF ty = "autoplay" THEN "autoplay" ELSE "context"
           first == ProvidedTracks(s, pages[1].tracks, prov, 0)
           fresh == [NoContext EXCEPT !.some = TRUE, !.tracks = first]
           last == LastIndexInNewContext(s, first)
           same == ty = "default" /\ s.uri = u /\ s.context["default"].some
           j == IF last.found THEN s.index ELSE 0
           a == [s EXCEPT !.context["autoplay"].index = 0, !.index = j]
           base == IF same THEN ClearNextTracks(a) ELSE s
           d == IF same THEN [fresh EXCEPT !.index = last.i] ELSE fresh
           set == [base EXCEPT !.context[ty] = d,
                     !.uri = IF ty = "default" THEN u ELSE base.uri]
<1>1. pages[1].tracks \in Seq(Uris)
  <2>1. pages[1] \in Page
    OBVIOUS
  <2>2. QED
    BY <2>1 DEF Page
<1>2. first \in Seq(Track)
  BY <1>1, ProvidedIs
<1>3. UpdateContext(s, ty, u, pages) =
        IF \A i \in DOMAIN pages : ~pages[i].inline THEN Err(s)
        ELSE Ok(FillContextFromPages(set, pages))
  BY DEF UpdateContext, Bounded, State
<1> HIDE DEF first
<1>4. fresh \in Context /\ fresh.undo = NoUndo
  <2>1. NoContext \in Context /\ NoUndo.first = 0
    BY Constants DEF NoUndo
  <2>2. Len(first) \in Nat
    BY <1>2
  <2>3. /\ fresh \in ContextRecord /\ fresh.tracks = first
        /\ fresh.undo = NoUndo
    <3>1. NoContext.undo = NoUndo
      BY DEF NoContext
    <3>2. QED
      BY <1>2, <2>1, <3>1 DEF Context, ContextRecord
  <2> HIDE DEF fresh
  <2>4. QED
    BY <2>1, <2>2, <2>3 DEF Context
<1>5. last.i \in Nat /\ last.found \in BOOLEAN
  BY <1>2, LastIndexIs
<1> HIDE DEF fresh, last
<1>6. d \in Context
  <2>1. [fresh EXCEPT !.index = last.i] \in Context
    BY <1>4, <1>5, ContextIndex
  <2>2. QED
    BY <1>4, <2>1
<1>7. Leads(s, base) /\ Bounded(base)
  <2>1. CASE same
    <3> DEFINE b == [s EXCEPT !.context["autoplay"].index = 0]
    <3>1. b \in State /\ s \in State
      <4>1. "autoplay" \in ContextType /\ 0 \in Nat /\ s \in State
        BY DEF ContextType, Bounded
      <4>2. QED
        BY <4>1, PutIndex
    <3>2. /\ b.next = s.next /\ b.prev = s.prev /\ b.active = s.active
      BY <3>1 DEF State
    <3>3. j \in Nat
      BY <3>1 DEF State
    <3>4. a = [b EXCEPT !.index = j]
      BY <3>1 DEF State
    <3> HIDE DEF b, j
    <3>5. a \in State /\ a.next = s.next /\ a.prev = s.prev
          /\ a.active = s.active
      BY <3>1, <3>2, <3>3, <3>4 DEF State
    <3> HIDE DEF a
    <3>6. Leads(s, a) /\ Bounded(a)
      BY <3>5, SameWindow DEF Leads
    <3>7. Leads(a, ClearNextTracks(a))
      BY <3>6, ClearNextLeads
    <3>8. Leads(s, ClearNextTracks(a))
      BY <3>6, <3>7, LeadsTrans
    <3>9. QED
      BY <2>1, <3>8 DEF Leads
  <2>2. CASE ~same
    BY <2>2, LeadsRefl
  <2>3. QED
    BY <2>1, <2>2
<1> HIDE DEF d, base, same
<1>8. Leads(base, set) /\ Bounded(set)
  <2> DEFINE y == IF ty = "default" THEN u ELSE base.uri
  <2>1. base \in State /\ y \in Text
    BY <1>7 DEF Bounded, State
  <2> HIDE DEF y
  <2>2. /\ set \in State /\ set.next = base.next /\ set.prev = base.prev
        /\ set.active = base.active
    BY <1>6, <2>1 DEF State, y
  <2> HIDE DEF set
  <2>3. QED
    BY <1>7, <2>2, SameWindow DEF Leads
<1> HIDE DEF set
<1>9. Leads(s, set)
  BY <1>7, <1>8, LeadsTrans
<1>10. Leads(set, FillContextFromPages(set, pages))
  BY <1>8, FillPagesLead
<1>11. Leads(s, FillContextFromPages(set, pages))
  BY <1>8, <1>9, <1>10, LeadsTrans
<1>12. Leads(s, s)
  BY LeadsRefl
<1>13. QED
  BY <1>3, <1>11, <1>12 DEF Fine, Ok, Err

LEMMA TransferFields ==
  ASSUME NEW t \in Handover
  PROVE  /\ t.uri \in Text /\ t.track \in Uris /\ t.tracks \in Seq(Uris)
         /\ t.queue \in Seq(Uris) /\ t.playingQueue \in BOOLEAN
         /\ t.paused \in BOOLEAN /\ t.shuffle \in BOOLEAN
         /\ t.initial \in Text /\ (t.playingQueue => t.queue # <<>>)
BY DEF Handover, Transfer, Text

LEMMA TransferTrack ==
  ASSUME NEW s, NEW t \in Handover
  PROVE  CurrentTrackFromTransfer(s, t) \in Track
<1> DEFINE u == IF t.playingQueue THEN t.queue[1] ELSE t.track
           p == IF u \in s.unavailable THEN "unavailable"
                ELSE IF t.playingQueue THEN "queue" ELSE "context"
<1>1. u \in Uris
  <2>1. t.queue # <<>> => t.queue[1] \in Uris
    <3>1. t.queue \in Seq(Uris)
      BY TransferFields
    <3>2. QED
      BY <3>1
  <2>2. QED
    BY <2>1, TransferFields
<1>2. CurrentTrackFromTransfer(s, t) = Provided(u, p, -1)
  BY DEF CurrentTrackFromTransfer
<1>3. p \in {"unavailable", "queue", "context"}
  OBVIOUS
<1> HIDE DEF u, p
<1>4. Delimiter.ci \in Int /\ Delimiter.ci = -1
  BY Constants DEF Track, Delimiter, Provided
<1> DEFINE m == Delimiter.ci
<1> HIDE DEF m
<1>5. Provided(u, p, m) \in Track
  BY <1>1, <1>3, <1>4 DEF Provided, Track, m
<1>6. QED
  BY <1>2, <1>4, <1>5 DEF m

LEMMA InitialTransferLeads ==
  ASSUME NEW s, Bounded(s), NEW t \in Handover, NEW u \in Text
  PROVE  /\ Leads(s, HandleInitialTransfer(s, t, u))
         /\ HandleInitialTransfer(s, t, u).track = s.track
<1> DEFINE f == IF t.paused THEN "paused" ELSE "playing"
           x == [s EXCEPT !.flag = f, !.shuffle = t.shuffle,
                   !.repeatContext = FALSE, !.repeatTrack = FALSE,
                   !.barred = FALSE, !.prev = <<>>, !.uri = u]
<1>1. f \in Text /\ t.shuffle \in BOOLEAN /\ <<>> \in Seq(Track)
  <2>1. t.shuffle \in BOOLEAN
    BY TransferFields
  <2>2. f \in Text
    BY DEF Text
  <2>3. QED
    BY <2>1, <2>2
<1>2. HandleInitialTransfer(s, t, u) = ClearNextTracks(x)
  BY DEF HandleInitialTransfer
<1> HIDE DEF f
<1>3. /\ x \in State /\ x.next = s.next /\ x.prev = <<>>
      /\ x.active = s.active /\ x.track = s.track
  BY <1>1 DEF Bounded, State
<1> HIDE DEF x
<1>4. Leads(s, x) /\ Bounded(x)
  BY <1>3, SameWindow DEF Leads
<1>5. QED
  BY <1>2, <1>3, <1>4, ClearNextLeads, LeadsTrans

LEMMA QueueAllLeads ==
  ASSUME NEW s, Bounded(s), NEW uris \in Seq(Uris)
  PROVE  Leads(s, QueueAll(s, uris))
<1> DEFINE N == Len(uris)
           S == {x \in State : Leads(s, x)}
           body(n, x) == AddToQueue(x, uris[n])
           step == [n \in 1..N |-> [x \in S |-> body(n, x)]]
           Is(r) == r = [n \in 0..N |->
                           IF n = 0 THEN s ELSE AddToQueue(r[n - 1], uris[n])]
           c == CHOOSE r : Is(r)
<1>1. N \in Nat
  OBVIOUS
<1>2. s \in S
  BY LeadsRefl DEF Bounded
<1>3. ASSUME NEW n \in 1..N, NEW x \in S PROVE body(n, x) \in S
  <2> DEFINE u == uris[n]
             y == AddToQueue(x, u)
  <2>1. u \in Uris
    OBVIOUS
  <2>2. Leads(s, x) /\ Bounded(x)
    BY <1>3 DEF Leads
  <2> HIDE DEF u
  <2>3. Leads(x, y)
    BY <2>1, <2>2, AddToQueueLeads
  <2> HIDE DEF y
  <2>4. Leads(s, y) /\ y \in State
    BY <2>2, <2>3, LeadsTrans DEF Leads, Bounded
  <2>5. QED
    BY <2>4 DEF y, u
<1> HIDE DEF S, N
<1>4. step \in [1..N -> [S -> S]]
  BY <1>3
<1>5. PICK r \in [0..N -> S] : Rounds(r, s, step, N)
  <2> HIDE DEF step
  <2>1. QED
    BY <1>1, <1>2, <1>4, RoundsExist
<1>6. \A n \in 0..N : r[n] = IF n = 0 THEN s ELSE body(n, r[n - 1])
  <2>1. \A n \in 0..N : r[n] = IF n = 0 THEN s ELSE step[n][r[n - 1]]
    BY <1>5 DEF Rounds
  <2>2. ASSUME NEW n \in 0..N, n # 0
        PROVE  step[n][r[n - 1]] = body(n, r[n - 1])
    <3>1. n \in 1..N /\ n - 1 \in 0..N
      BY <1>1, <2>2
    <3>2. r[n - 1] \in S
      BY <3>1
    <3>3. QED
      BY <3>1, <3>2
  <2> HIDE DEF step
  <2>3. QED
    BY <2>1, <2>2
<1>7. Is(r)
  BY <1>5, <1>6
<1>8. Is(c)
  BY <1>7
<1>9. QueueAll(s, uris) = c[N]
  BY DEF QueueAll, N
<1> HIDE DEF c
<1>10. c[0] = s /\ \A n \in 1..N : c[n] = body(n, c[n - 1])
  <2>1. \A n \in 0..N : c[n] = IF n = 0 THEN s ELSE body(n, c[n - 1])
    BY <1>8
  <2>2. 0 \in 0..N /\ \A n \in 1..N : n \in 0..N /\ n # 0
    BY <1>1
  <2>3. QED
    BY <2>1, <2>2
<1>11. \A n \in 1..N : c[n - 1] \in S => c[n] \in S
  BY <1>3, <1>10
<1>12. \A n \in 0..N : c[n] \in S
  BY <1>1, <1>2, <1>10, <1>11, StaysIn
<1>13. c[N] \in S
  BY <1>1, <1>12
<1>14. QED
  BY <1>9, <1>13 DEF S

\* The other device's queue comes behind the one here.
LEMMA FinishTransferFine ==
  ASSUME NEW s, Bounded(s), NEW t \in Handover, NEW how
  PROVE  Fine(s, FinishTransfer(s, t, how))
<1> DEFINE cur == IF s.track = NoTrack THEN CurrentTrackFromTransfer(s, t)
                  ELSE s.track
           ty == IF IsAutoplay(s.track) THEN "autoplay" ELSE "default"
           act == [SetActiveContext(s, ty) EXCEPT !.fillUpContext = ty]
           v == GetContext(act, ty).tracks
           found == PositionOf(v, IF IsQueue(cur) THEN t.track ELSE cur.uri)
           i == IF IsQueue(cur) /\ found > 1 THEN found - 2
                ELSE IF found > 0 THEN found - 1 ELSE 0
           at == [act EXCEPT !.track = cur,
                             !.index = IF found > 0 THEN i ELSE act.index]
           later == IF t.playingQueue THEN Tail(t.queue) ELSE t.queue
           x == QueueAll(at, later)
           r0 == SetCurrentTrack(x, i)
           r1 == IF x.shuffle
                 THEN IF r0.ok THEN ShuffleRestore(r0.s, how, t.initial) ELSE r0
                 ELSE ResetPlaybackToPosition(x, i)
           r2 == IF r1.ok THEN Ok(UpdateRestrictions(r1.s)) ELSE r1
<1>1. cur \in Track
  <2>1. s.track \in Track
    BY DEF Bounded, State
  <2>2. QED
    BY <2>1, TransferTrack
<1>2. ty \in ContextType
  BY DEF ContextType
<1>3. later \in Seq(Uris)
  <2>1. /\ t.queue \in Seq(Uris) /\ t.playingQueue \in BOOLEAN
        /\ t.playingQueue => t.queue # <<>>
    BY TransferFields
  <2>2. QED
    BY <2>1
<1>4. /\ Leads(s, act) /\ Bounded(act) /\ act \in State
  <2> DEFINE b == SetActiveContext(s, ty)
  <2>1. Leads(s, b) /\ Bounded(b)
    BY <1>2, SetActiveLeads DEF Leads
  <2> HIDE DEF b, ty
  <2> DEFINE y == [b EXCEPT !.fillUpContext = ty]
  <2>2. /\ y \in State /\ y.next = b.next /\ y.prev = b.prev
        /\ y.active = b.active
    BY <1>2, <2>1 DEF Bounded, State
  <2> HIDE DEF y
  <2>3. Leads(b, y) /\ Bounded(y)
    BY <2>1, <2>2, SameWindow DEF Leads
  <2>4. Leads(s, y)
    BY <2>1, <2>3, LeadsTrans
  <2>5. QED
    BY <2>2, <2>3, <2>4 DEF y, b
<1>5. FinishTransfer(s, t, how) =
        IF ~GetContext(act, ty).some THEN Err(act) ELSE r2
  BY <1>4 DEF FinishTransfer, Then, State
<1> HIDE DEF act, ty, cur, later
<1>6. found \in Nat
  <2>1. v \in Seq(Track)
    BY <1>2, <1>4 DEF GetContext, State, Context, ContextRecord
  <2> HIDE DEF v
  <2>2. QED
    BY <2>1, PositionIs
<1> HIDE DEF found
<1>7. i \in Nat
  BY <1>6
<1> HIDE DEF i
<1>8. Leads(act, at) /\ Bounded(at)
  <2> DEFINE n == IF found > 0 THEN i ELSE act.index
  <2>1. n \in Nat
    BY <1>4, <1>7 DEF State
  <2> HIDE DEF n
  <2>2. /\ at \in State /\ at.next = act.next /\ at.prev = act.prev
        /\ at.active = act.active
    BY <1>1, <1>4, <2>1 DEF State, n
  <2> HIDE DEF at
  <2>3. QED
    BY <1>4, <2>2, SameWindow DEF Leads
<1> HIDE DEF at
<1>9. Leads(s, x) /\ Bounded(x)
  <2>1. Leads(at, x)
    BY <1>3, <1>8, QueueAllLeads
  <2> HIDE DEF x
  <2>2. Leads(act, x)
    BY <1>4, <1>8, <2>1, LeadsTrans
  <2>3. QED
    BY <1>4, <2>2, LeadsTrans DEF Leads
<1> HIDE DEF x
<1>10. Fine(s, r1)
  <2>1. Fine(x, r0)
    BY <1>7, <1>9, SetCurrentFine
  <2> HIDE DEF r0
  <2> DEFINE q == ShuffleRestore(r0.s, how, t.initial)
             p == IF r0.ok THEN q ELSE r0
  <2>2. Fine(r0.s, q)
    <3>1. t.initial \in Text
      BY TransferFields
    <3>2. Bounded(r0.s)
      BY <2>1, FineBounded
    <3>3. QED
      BY <3>1, <3>2, ShuffleRestoreFine
  <2> HIDE DEF q
  <2>3. Fine(x, p)
    BY <1>9, <2>1, <2>2, FineThen
  <2>4. Fine(x, ResetPlaybackToPosition(x, i))
    BY <1>7, <1>9, ResetPlaybackFine
  <2>5. Fine(s, p) /\ Fine(s, ResetPlaybackToPosition(x, i))
    <3> HIDE DEF p
    <3>1. QED
      BY <1>9, <2>3, <2>4, LeadsFine
  <2>6. QED
    BY <2>5 DEF q
<1> HIDE DEF r1
<1>11. Fine(s, r2)
  <2> DEFINE q == Ok(UpdateRestrictions(r1.s))
  <2>1. Fine(r1.s, q)
    <3>1. Bounded(r1.s)
      BY <1>10, FineBounded
    <3>2. QED
      BY <3>1, RestrictionsLead DEF Fine, Ok
  <2> HIDE DEF q
  <2>2. Fine(s, IF r1.ok THEN q ELSE r1)
    BY <1>10, <2>1, FineThen
  <2>3. QED
    BY <2>2 DEF q
<1> HIDE DEF r2
<1>12. Fine(s, Err(act))
  BY <1>4 DEF Fine, Err
<1>13. QED
  BY <1>5, <1>11, <1>12

-----------------------------------------------------------------------------
(* The task                                                                *)

Entry == [uri : Text, fallback : Text, update : ContextType,
          action : {"replace", "append"}]
Cmd == [cmd : {"Load", "Play", "Pause", "Stop"}, track : Text, play : BOOLEAN]

Task ==
  [cs : State, established : BOOLEAN, requestId : Nat, status : PlayStatus,
   queue : Seq(Entry), refused : SUBSET Entry,
   transfer : Handover \cup {NoTransfer}, autoplay : BOOLEAN,
   updateState : BOOLEAN, volume : 0..MaxVolume, mixer : 0..MaxVolume,
   updateVolume : BOOLEAN, cmds : Seq(Cmd), stuck : BOOLEAN, ended : BOOLEAN,
   failed : BOOLEAN]

Good(t) == t \in Task /\ Bounded(t.cs)

\* What a handler may make of a task, and its outcome.
Holds(t, x) == Good(x) /\ Kept(t.cs.next, x.cs.next)
Result(t, r) == r.ok \in BOOLEAN /\ Holds(t, r.s)

LEMMA HoldsRefl ==
  ASSUME NEW t, Good(t)
  PROVE  Holds(t, t)
BY KeptRefl DEF Holds

LEMMA HoldsTrans ==
  ASSUME NEW t, NEW x, NEW y, Good(t), Holds(t, x), Holds(x, y)
  PROVE  Holds(t, y)
BY KeptTrans DEF Holds, Good, Bounded, State

LEMMA HoldsResult ==
  ASSUME NEW t, NEW x, NEW r, Good(t), Holds(t, x), Result(x, r)
  PROVE  Result(t, r)
BY HoldsTrans DEF Result

LEMMA ResultThen ==
  ASSUME NEW t, Good(t), NEW r, Result(t, r), NEW q, r.ok => Result(r.s, q)
  PROVE  Result(t, IF r.ok THEN q ELSE r)
<1>1. CASE r.ok
  BY <1>1, HoldsTrans DEF Result
<1>2. CASE ~r.ok
  BY <1>2
<1>3. QED
  BY <1>1, <1>2 DEF Result

LEMMA OkResult ==
  ASSUME NEW t, NEW x, Holds(t, x)
  PROVE  Result(t, Ok(x)) /\ Result(t, Err(x))
BY DEF Result, Ok, Err

\* A step that leaves the window of the task as it is.
LEMMA SameCs ==
  ASSUME NEW t, Good(t), NEW x \in Task, x.cs = t.cs
  PROVE  Holds(t, x)
BY KeptRefl DEF Holds, Good

LEMMA PutCs ==
  ASSUME NEW t, Good(t), NEW s, Leads(t.cs, s)
  PROVE  /\ Holds(t, [t EXCEPT !.cs = s])
         /\ [t EXCEPT !.cs = s].cs = s
<1> DEFINE x == [t EXCEPT !.cs = s]
<1>1. s \in State /\ t \in Task
  BY DEF Leads, Bounded, Good
<1>2. x \in Task /\ x.cs = s
  BY <1>1 DEF Task
<1> HIDE DEF x
<1>3. Holds(t, x)
  BY <1>2 DEF Leads, Holds, Good
<1>4. QED
  BY <1>2, <1>3 DEF x

LEMMA LiftResult ==
  ASSUME NEW t, Good(t), NEW r, Fine(t.cs, r)
  PROVE  /\ Result(t, Lift(t, r)) /\ Lift(t, r).s.cs = r.s
         /\ Lift(t, r).ok = r.ok
<1> DEFINE x == [t EXCEPT !.cs = r.s]
<1>1. Leads(t.cs, r.s) /\ r.ok \in BOOLEAN
  BY DEF Fine
<1>2. Holds(t, x) /\ x.cs = r.s
  BY <1>1, PutCs
<1>3. Lift(t, r) = [ok |-> r.ok, s |-> x]
  BY DEF Lift
<1> HIDE DEF x
<1>4. QED
  BY <1>1, <1>2, <1>3 DEF Result

LEMMA SendHolds ==
  ASSUME NEW t, Good(t), NEW c \in {"Load", "Play", "Pause", "Stop"},
         NEW u \in Text, NEW play \in BOOLEAN
  PROVE  /\ Holds(t, Send(t, c, u, play))
         /\ Send(t, c, u, play).cs = t.cs
<1> DEFINE m == [cmd |-> c, track |-> u, play |-> play]
           w == Append(t.cmds, m)
           x == [t EXCEPT !.cmds = w]
<1>1. t \in Task /\ t.cmds \in Seq(Cmd)
  BY DEF Good, Task
<1>2. m \in Cmd
  BY DEF Cmd
<1>3. Send(t, c, u, play) = t \/ Send(t, c, u, play) = x
  BY DEF Send
<1> HIDE DEF m
<1>4. w \in Seq(Cmd)
  BY <1>1, <1>2
<1> HIDE DEF w
<1>5. x \in Task /\ x.cs = t.cs
  BY <1>1, <1>4 DEF Task
<1> HIDE DEF x
<1>6. QED
  BY <1>3, <1>5, SameCs, HoldsRefl

LEMMA NotifyHolds ==
  ASSUME NEW t, Good(t)
  PROVE  Holds(t, Notify(t)) /\ Notify(t).cs.track = t.cs.track
<1> DEFINE s == SetStatus(t.cs, t.status)
<1>1. Leads(t.cs, s) /\ s.track = t.cs.track
  BY SetStatusLeads DEF Good
<1>2. Notify(t) = [t EXCEPT !.cs = s]
  BY DEF Notify
<1> HIDE DEF s
<1>3. QED
  BY <1>1, <1>2, PutCs

\* Stopping keeps the queue, and a device that is not active stays so.
LEMMA StopHolds ==
  ASSUME NEW t, Good(t)
  PROVE  Holds(t, HandleStop(t)) /\ HandleStop(t).cs.active = t.cs.active
<1> DEFINE a == Send(t, "Stop", "", FALSE)
           b == ClearNextTracks(t.cs)
           r == ResetPlaybackToPosition(b, 0)
           s == r.s
<1>1. "" \in Text
  BY DEF Text
<1>2. Holds(t, a) /\ a.cs = t.cs
  BY <1>1, SendHolds
<1>3. HandleStop(t) = [a EXCEPT !.cs = s]
  BY <1>2 DEF HandleStop, Holds, Good, Task
<1> HIDE DEF a
<1>4. Leads(t.cs, b) /\ Bounded(b)
  BY ClearNextLeads DEF Good, Leads
<1> HIDE DEF b
<1>5. Leads(b, s)
  BY <1>4, ResetPlaybackFine DEF Fine
<1> HIDE DEF s
<1>6. Leads(t.cs, s)
  BY <1>4, <1>5, LeadsTrans DEF Good
<1>7. Good(a)
  BY <1>2 DEF Holds
<1>8. Holds(a, [a EXCEPT !.cs = s]) /\ [a EXCEPT !.cs = s].cs = s
  BY <1>2, <1>6, <1>7, PutCs
<1>9. Holds(t, HandleStop(t)) /\ HandleStop(t).cs = s
  BY <1>2, <1>3, <1>8, HoldsTrans
<1>10. QED
  BY <1>6, <1>9 DEF Leads

\* Loading the current track keeps the queue, and the track if it is queued.
LEMMA LoadTrackResult ==
  ASSUME NEW t, Good(t), NEW play \in BOOLEAN
  PROVE  /\ Result(t, LoadTrack(t, play))
         /\ LoadTrack(t, play).ok /\ IsQueue(t.cs.track)
              => LoadTrack(t, play).s.cs.track = t.cs.track
<1> DEFINE st == IF play THEN "LoadingPlay" ELSE "LoadingPause"
           a == Send(t, "Load", t.cs.track.uri, play)
           s == SetStatus(a.cs, st)
           x == [a EXCEPT !.status = st, !.cs = s]
<1>1. t.cs.track.uri \in Text
  BY TrackUri DEF Good, Bounded, State
<1>2. Holds(t, a) /\ a.cs = t.cs /\ Good(a)
  BY <1>1, SendHolds DEF Holds
<1>3. \/ t.cs.track = NoTrack /\ LoadTrack(t, play) = Ok(HandleStop(t))
      \/ t.cs.track = Delimiter /\ LoadTrack(t, play) = Err(t)
      \/ LoadTrack(t, play) = Ok(x)
  <2>1. CASE t.cs.track = NoTrack
    BY <2>1 DEF LoadTrack
  <2>2. CASE t.cs.track # NoTrack /\ t.cs.track = Delimiter
    BY <2>2 DEF LoadTrack
  <2>3. CASE t.cs.track # NoTrack /\ t.cs.track # Delimiter
    <3>1. LoadTrack(t, play) = Ok([a EXCEPT !.status = st, !.cs = s])
      BY <1>2, <2>3 DEF LoadTrack, Good, Task
    <3>2. QED
      BY <3>1
  <2>4. QED
    BY <2>1, <2>2, <2>3
<1>4. st \in PlayStatus
  BY DEF PlayStatus
<1> HIDE DEF a, st
<1>5. Leads(t.cs, s) /\ s.track = t.cs.track
  BY <1>2, SetStatusLeads DEF Good
<1> HIDE DEF s
<1>6. x \in Task /\ x.cs = s
  BY <1>2, <1>4, <1>5 DEF Good, Task, Leads, Bounded
<1> HIDE DEF x
<1>7. Holds(t, x)
  BY <1>5, <1>6 DEF Holds, Leads, Good
<1>8. /\ Result(t, Ok(x)) /\ Result(t, Err(t)) /\ Result(t, Ok(HandleStop(t)))
  BY <1>7, OkResult, HoldsRefl, StopHolds
<1>9. Ok(x).s.cs.track = t.cs.track /\ ~Err(t).ok /\ ~IsQueue(NoTrack)
  BY <1>5, <1>6, Constants DEF Ok, Err
<1>10. QED
  BY <1>3, <1>8, <1>9

LEMMA SetVolumeHolds ==
  ASSUME NEW t, Good(t), NEW v \in 0..MaxVolume
  PROVE  Holds(t, SetVolume(t, v)) /\ SetVolume(t, v).cs = t.cs
<1> DEFINE x == [t EXCEPT !.volume = v, !.mixer = v, !.updateVolume = TRUE]
<1>1. x \in Task /\ x.cs = t.cs
  BY DEF Good, Task
<1>2. SetVolume(t, v) = t \/ SetVolume(t, v) = x
  BY DEF SetVolume
<1> HIDE DEF x
<1>3. QED
  BY <1>1, <1>2, SameCs, HoldsRefl

LEMMA SetPlayStatus ==
  ASSUME NEW t, Good(t), NEW a, Holds(t, a), a.cs = t.cs,
         NEW st \in PlayStatus
  PROVE  /\ Holds(t, [a EXCEPT !.status = st])
         /\ [a EXCEPT !.status = st].cs = t.cs
         /\ [a EXCEPT !.status = st].mixer = a.mixer
<1> DEFINE x == [a EXCEPT !.status = st]
<1>1. x \in Task /\ x.cs = t.cs /\ x.mixer = a.mixer
  BY DEF Holds, Good, Task
<1> HIDE DEF x
<1>2. Holds(t, x)
  BY <1>1, SameCs
<1>3. QED
  BY <1>1, <1>2 DEF x

LEMMA SendStatus ==
  ASSUME NEW t, Good(t), NEW c \in {"Play", "Pause"}, NEW st \in PlayStatus
  PROVE  /\ Holds(t, [Send(t, c, "", FALSE) EXCEPT !.status = st])
         /\ [Send(t, c, "", FALSE) EXCEPT !.status = st].cs = t.cs
<1> DEFINE a == Send(t, c, "", FALSE)
<1>1. "" \in Text /\ FALSE \in BOOLEAN
      /\ c \in {"Load", "Play", "Pause", "Stop"}
  BY DEF Text
<1>2. Holds(t, a) /\ a.cs = t.cs
  BY <1>1, SendHolds
<1> HIDE DEF a
<1>3. /\ Holds(t, [a EXCEPT !.status = st])
      /\ [a EXCEPT !.status = st].cs = t.cs
  BY <1>2, SetPlayStatus
<1>4. QED
  BY <1>3 DEF a

LEMMA PauseHolds ==
  ASSUME NEW t, Good(t)
  PROVE  Holds(t, HandlePause(t))
<1> DEFINE a(st) == [Send(t, "Pause", "", FALSE) EXCEPT !.status = st]
<1>1. Holds(t, a("Paused")) /\ Holds(t, a("LoadingPause")) /\ Holds(t, t)
  BY SendStatus, HoldsRefl DEF PlayStatus
<1>2. \/ HandlePause(t) = t \/ HandlePause(t) = a("Paused")
      \/ HandlePause(t) = a("LoadingPause")
  BY DEF HandlePause
<1> HIDE DEF a
<1>3. QED
  BY <1>1, <1>2

LEMMA PlayHolds ==
  ASSUME NEW t, Good(t)
  PROVE  Holds(t, HandlePlay(t))
<1> DEFINE a(st) == [Send(t, "Play", "", FALSE) EXCEPT !.status = st]
           b(st) == SetVolume(a(st), t.mixer)
<1>1. t.mixer \in 0..MaxVolume
  BY DEF Good, Task
<1>2. ASSUME NEW st \in PlayStatus PROVE Holds(t, b(st))
  <2> DEFINE x == a(st)
             v == t.mixer
  <2>1. Holds(t, x)
    BY SendStatus
  <2> HIDE DEF x, v
  <2>2. Holds(x, SetVolume(x, v))
    BY <1>1, <2>1, SetVolumeHolds DEF Holds, v
  <2>3. Holds(t, SetVolume(x, v))
    BY <2>1, <2>2, HoldsTrans
  <2>4. QED
    BY <2>3 DEF x, v
<1>3. Holds(t, t) /\ Holds(t, b("Playing")) /\ Holds(t, b("LoadingPlay"))
  BY <1>2, HoldsRefl DEF PlayStatus
<1>4. \/ HandlePlay(t) = t \/ HandlePlay(t) = b("Playing")
      \/ HandlePlay(t) = b("LoadingPlay")
  BY DEF HandlePlay
<1> HIDE DEF a, b
<1>5. QED
  BY <1>3, <1>4

LEMMA PlayPauseHolds ==
  ASSUME NEW t, Good(t)
  PROVE  Holds(t, HandlePlayPause(t))
BY PlayHolds, PauseHolds DEF HandlePlayPause

-----------------------------------------------------------------------------
(* The context resolver                                                    *)

LEMMA ResolveIs ==
  ASSUME NEW u \in Text, NEW f \in Text, NEW ty \in ContextType,
         NEW a \in {"replace", "append"}
  PROVE  Resolve(u, f, ty, a) \in Entry
BY DEF Resolve, Entry

LEMMA ResolverAddHolds ==
  ASSUME NEW t, Good(t), NEW e \in Entry
  PROVE  /\ Holds(t, ResolverAdd(t, e)) /\ ResolverAdd(t, e).cs = t.cs
         /\ HasNext(t) => HasNext(ResolverAdd(t, e))
<1> DEFINE w == Append(t.queue, e)
           x == [t EXCEPT !.queue = w]
<1>1. t \in Task /\ t.queue \in Seq(Entry)
  BY DEF Good, Task
<1>2. w \in Seq(Entry)
  BY <1>1
<1>3. ResolverAdd(t, e) = t \/ ResolverAdd(t, e) = x
  BY DEF ResolverAdd
<1>4. ASSUME NEW i \in DOMAIN t.queue PROVE i \in DOMAIN w /\ w[i] = t.queue[i]
  BY <1>1
<1> HIDE DEF w
<1>5. x \in Task /\ x.cs = t.cs /\ x.queue = w
  BY <1>1, <1>2 DEF Task
<1> HIDE DEF x
<1>6. HasNext(t) => HasNext(x)
  BY <1>4, <1>5 DEF HasNext
<1>7. QED
  BY <1>3, <1>5, <1>6, SameCs, HoldsRefl

\* The next request is one of the queue.
LEMMA NextPositionIs ==
  ASSUME NEW t, Good(t), HasNext(t)
  PROVE  /\ NextPosition(t) \in 1..Len(t.queue) /\ FindNext(t) \in Entry
<1> DEFINE T == {i \in DOMAIN t.queue : Valid(t.queue[i])}
           Is(i) == /\ i \in DOMAIN t.queue /\ Valid(t.queue[i])
                    /\ \A j \in 1..(i - 1) : ~Valid(t.queue[j])
<1>1. t.queue \in Seq(Entry)
  BY DEF Good, Task
<1>2. T \in SUBSET Nat /\ T # {} /\ T \subseteq 1..Len(t.queue)
  BY <1>1 DEF HasNext
<1>3. PICK i \in T : \A j \in T : i <= j
  <2> HIDE DEF T
  <2>1. QED
    BY <1>2, LeastNumber
<1>4. Is(i)
  <2>1. \A j \in 1..(i - 1) : j \in DOMAIN t.queue /\ ~(i <= j)
    BY <1>1, <1>2, <1>3
  <2>2. QED
    BY <1>3, <2>1
<1>5. NextPosition(t) \in DOMAIN t.queue
  BY <1>4 DEF NextPosition
<1>6. NextPosition(t) \in 1..Len(t.queue)
  BY <1>1, <1>5
<1> DEFINE p == NextPosition(t)
<1> HIDE DEF p
<1>7. t.queue[p] \in Entry
  BY <1>1, <1>6 DEF p
<1>8. QED
  BY <1>6, <1>7 DEF FindNext, p

LEMMA RemoveUsedHolds ==
  ASSUME NEW t, Good(t)
  PROVE  Holds(t, RemoveUsed(t)) /\ RemoveUsed(t).cs = t.cs
<1> DEFINE p == NextPosition(t)
           w == IF t.queue = <<>> THEN t.queue
                ELSE IF HasNext(t) THEN SubSeq(t.queue, p + 1, Len(t.queue))
                ELSE Tail(t.queue)
           x == [t EXCEPT !.queue = w]
<1>1. t \in Task /\ t.queue \in Seq(Entry)
  BY DEF Good, Task
<1>2. RemoveUsed(t) = x
  BY DEF RemoveUsed
<1>3. HasNext(t) => p \in 1..Len(t.queue)
  BY NextPositionIs
<1> HIDE DEF p
<1>4. w \in Seq(Entry)
  <2>1. CASE t.queue = <<>>
    BY <1>1, <2>1
  <2>2. CASE t.queue # <<>> /\ HasNext(t)
    <3>1. SubSeq(t.queue, p + 1, Len(t.queue)) \in Seq(Entry)
      BY <1>1, <1>3, <2>2
    <3>2. QED
      BY <2>2, <3>1
  <2>3. CASE t.queue # <<>> /\ ~HasNext(t)
    BY <1>1, <2>3
  <2>4. QED
    BY <2>1, <2>2, <2>3
<1> HIDE DEF w
<1>5. x \in Task /\ x.cs = t.cs
  BY <1>1, <1>4 DEF Task
<1> HIDE DEF x
<1>6. QED
  BY <1>2, <1>5, SameCs

LEMMA AddAutoplayHolds ==
  ASSUME NEW t, Good(t)
  PROVE  /\ Holds(t, AddAutoplayWhenRequired(t))
         /\ AddAutoplayWhenRequired(t).cs = t.cs
<1> DEFINE a == IF t.cs.context["autoplay"].tracks # <<>> THEN "append"
                ELSE "replace"
           e == Resolve(t.cs.uri, t.cs.track.uri, "autoplay", a)
<1>1. t.cs.uri \in Text /\ t.cs.track \in Track
  BY DEF Good, Bounded, State
<1>2. a \in {"replace", "append"} /\ "autoplay" \in ContextType
  BY DEF ContextType
<1>3. \/ AddAutoplayWhenRequired(t) = t
      \/ AddAutoplayWhenRequired(t) = ResolverAdd(t, e)
  BY DEF AddAutoplayWhenRequired
<1> HIDE DEF a
<1>4. e \in Entry
  BY <1>1, <1>2, TrackUri, ResolveIs
<1> HIDE DEF e
<1>5. QED
  BY <1>3, <1>4, ResolverAddHolds, HoldsRefl

LEMMA AskForPagesHolds ==
  ASSUME NEW t, Good(t), NEW pages \in Seq(Page), pages # <<>>
  PROVE  Holds(t, AskForPages(t, pages)) /\ AskForPages(t, pages).cs = t.cs
<1> DEFINE N == Len(pages) - 1
           S == {x \in Task : x.cs = t.cs}
           ask(n) == Resolve(pages[n + 1].url, "", "default", "append")
           body(n, x) == IF pages[n + 1].inline THEN x
                         ELSE ResolverAdd(x, ask(n))
           step == [n \in 1..N |-> [x \in S |-> body(n, x)]]
           Is(r) == r = [n \in 0..N |->
                           IF n = 0 THEN t
                           ELSE IF pages[n + 1].inline THEN r[n - 1]
                           ELSE ResolverAdd(r[n - 1],
                                  Resolve(pages[n + 1].url, "", "default",
                                          "append"))]
           c == CHOOSE r : Is(r)
<1>1. N \in Nat /\ \A n \in 1..N : n + 1 \in 1..Len(pages)
  OBVIOUS
<1>2. t \in S
  BY DEF Good
<1>3. ASSUME NEW n \in 1..N, NEW x \in S PROVE body(n, x) \in S
  <2> DEFINE e == ask(n)
             y == ResolverAdd(x, e)
             u == pages[n + 1].url
  <2>1. u \in Text
    <3>1. pages[n + 1] \in Page
      BY <1>1
    <3>2. QED
      BY <3>1 DEF Page
  <2>2. Good(x) /\ x.cs = t.cs /\ x \in Task
    BY <1>3 DEF Good
  <2>3. e = Resolve(u, "", "default", "append")
    OBVIOUS
  <2> HIDE DEF u, e
  <2>4. e \in Entry
    <3>1. "" \in Text /\ "default" \in ContextType
      BY DEF Text, ContextType
    <3>2. QED
      BY <2>1, <2>3, <3>1, ResolveIs
  <2>5. y \in Task /\ y.cs = t.cs
    BY <2>2, <2>4, ResolverAddHolds DEF Holds, Good
  <2> HIDE DEF y
  <2>6. QED
    BY <2>2, <2>5 DEF y, e
<1> HIDE DEF S, N
<1>4. step \in [1..N -> [S -> S]]
  BY <1>3
<1>5. PICK r \in [0..N -> S] : Rounds(r, t, step, N)
  <2> HIDE DEF step
  <2>1. QED
    BY <1>1, <1>2, <1>4, RoundsExist
<1>6. \A n \in 0..N : r[n] = IF n = 0 THEN t ELSE body(n, r[n - 1])
  <2>1. \A n \in 0..N : r[n] = IF n = 0 THEN t ELSE step[n][r[n - 1]]
    BY <1>5 DEF Rounds
  <2>2. ASSUME NEW n \in 0..N, n # 0
        PROVE  step[n][r[n - 1]] = body(n, r[n - 1])
    <3>1. n \in 1..N /\ n - 1 \in 0..N
      BY <1>1, <2>2
    <3>2. r[n - 1] \in S
      BY <3>1
    <3>3. QED
      BY <3>1, <3>2
  <2> HIDE DEF step
  <2>3. QED
    BY <2>1, <2>2
<1>7. Is(r)
  BY <1>5, <1>6
<1>8. Is(c)
  BY <1>7
<1>9. AskForPages(t, pages) = c[N]
  BY DEF AskForPages, N
<1> HIDE DEF c
<1>10. c[0] = t /\ \A n \in 1..N : c[n] = body(n, c[n - 1])
  <2>1. \A n \in 0..N : c[n] = IF n = 0 THEN t ELSE body(n, c[n - 1])
    BY <1>8
  <2>2. 0 \in 0..N /\ \A n \in 1..N : n \in 0..N /\ n # 0
    BY <1>1
  <2>3. QED
    BY <2>1, <2>2
<1>11. \A n \in 1..N : c[n - 1] \in S => c[n] \in S
  BY <1>3, <1>10
<1>12. \A n \in 0..N : c[n] \in S
  BY <1>1, <1>2, <1>10, <1>11, StaysIn
<1>13. c[N] \in S
  BY <1>1, <1>12
<1> DEFINE z == c[N]
<1> HIDE DEF z
<1>14. z \in Task /\ z.cs = t.cs
  BY <1>13 DEF S, z
<1>15. QED
  BY <1>9, <1>14, SameCs DEF z

LEMMA ApplyNextHolds ==
  ASSUME NEW t, Good(t), HasNext(t), NEW pages \in Seq(Page), pages # <<>>
  PROVE  Holds(t, ApplyNextContext(t, pages))
<1> DEFINE e == FindNext(t)
           us == pages[1].tracks
           r == IF e.action = "replace"
                THEN UpdateContext(t.cs, e.update, e.uri, pages)
                ELSE IF Len(pages) = 1
                THEN FillContextFromPage(t.cs, us) ELSE Err(t.cs)
           x == Lift(t, r).s
<1>1. e.update \in ContextType /\ e.uri \in Text
  BY NextPositionIs DEF Entry
<1>2. us \in Seq(Uris)
  <2>1. pages[1] \in Page
    OBVIOUS
  <2>2. QED
    BY <2>1 DEF Page
<1>3. ApplyNextContext(t, pages) =
        IF r.ok /\ e.action = "replace" THEN AskForPages(x, pages) ELSE x
  BY DEF ApplyNextContext
<1> HIDE DEF e, us
<1>4. Bounded(t.cs)
  BY DEF Good
<1>5. Fine(t.cs, r)
  <2> DEFINE s == t.cs
  <2> HIDE DEF s
  <2>1. /\ Fine(s, UpdateContext(s, e.update, e.uri, pages))
        /\ Fine(s, FillContextFromPage(s, us)) /\ Fine(s, Err(s))
    BY <1>1, <1>2, <1>4, UpdateContextFine, FillContextFine, ErrFine DEF s
  <2>2. QED
    BY <2>1 DEF s
<1> HIDE DEF r
<1>6. Holds(t, x)
  BY <1>5, LiftResult DEF Result
<1> HIDE DEF x
<1>7. Holds(x, AskForPages(x, pages))
  BY <1>6, AskForPagesHolds DEF Holds
<1>8. QED
  BY <1>3, <1>6, <1>7, HoldsTrans

\* The window is set up, or handed over, without loss to the queue.
LEMMA TryFinishHolds ==
  ASSUME NEW t, Good(t), NEW how
  PROVE  TryFinish(t, how).done \in BOOLEAN /\ Holds(t, TryFinish(t, how).t)
<1> DEFINE e == FindNext(t)
           same == {i \in DOMAIN t.queue : t.queue[i].update = e.update}
           c == GetContext(t.cs, t.cs.activeContext)
           found == PositionOf(c.tracks, t.cs.track.uri)
           n == IF found = 0 THEN 0 ELSE found - 1
           r == IF t.transfer # NoTransfer
                THEN FinishTransfer(t.cs, t.transfer, how)
                ELSE IF t.cs.shuffle /\ e.update = "default"
                THEN ShuffleNew(t.cs, how)
                ELSE IF c.some /\ c.index = 0
                THEN ResetPlaybackToPosition(t.cs, n)
                ELSE FillUpNextTracks(t.cs)
           s == UpdateRestrictions(r.s)
           x == [t EXCEPT !.cs = s, !.transfer = NoTransfer]
<1>1. /\ t \in Task /\ Bounded(t.cs)
      /\ t.transfer # NoTransfer => t.transfer \in Handover
  BY DEF Good, Task
<1>2. TryFinish(t, how) =
        IF \/ Cardinality(same) # 1
           \/ e.update = "default" /\ t.cs.activeContext # "default"
        THEN [done |-> FALSE, t |-> t] ELSE [done |-> TRUE, t |-> x]
  BY DEF TryFinish
<1>3. n \in Nat
  <2>1. c.tracks \in Seq(Track)
    BY <1>1 DEF GetContext, Bounded, State, Context, ContextRecord
  <2> HIDE DEF c
  <2>2. found \in Nat
    BY <2>1, PositionIs
  <2> HIDE DEF found
  <2>3. QED
    BY <2>2
<1> HIDE DEF e, same, c, n
<1>4. Fine(t.cs, r)
  <2> DEFINE y == t.cs
             tr == t.transfer
  <2> HIDE DEF y, tr
  <2>1. /\ Fine(y, ShuffleNew(y, how)) /\ Fine(y, FillUpNextTracks(y))
        /\ Fine(y, ResetPlaybackToPosition(y, n))
    BY <1>1, <1>3, ShuffleNewFine, FillUpFine, ResetPlaybackFine DEF y
  <2>2. tr # NoTransfer => Fine(y, FinishTransfer(y, tr, how))
    BY <1>1, FinishTransferFine DEF y, tr
  <2>3. QED
    BY <2>1, <2>2 DEF y, tr
<1> HIDE DEF r
<1>5. Leads(t.cs, s)
  <2>1. Leads(t.cs, r.s) /\ Bounded(r.s)
    BY <1>4 DEF Fine, Leads
  <2>2. Leads(r.s, s)
    BY <2>1, RestrictionsLead
  <2>3. QED
    BY <1>1, <2>1, <2>2, LeadsTrans
<1> HIDE DEF s
<1>6. x \in Task /\ x.cs = s
  BY <1>1, <1>5 DEF Task, Leads, Bounded
<1> HIDE DEF x
<1>7. Holds(t, x) /\ Holds(t, t)
  BY <1>5, <1>6, HoldsRefl DEF Holds, Leads, Good
<1>8. QED
  BY <1>2, <1>7

LEMMA NextContextHolds ==
  ASSUME NEW t, Good(t), HasNext(t), NEW answer \in Seq(Page), NEW how
  PROVE  /\ HandleNextContext(t, answer, how).done \in BOOLEAN
         /\ Holds(t, HandleNextContext(t, answer, how).t)
<1>1. CASE answer = NoAnswer
  <2> DEFINE R == t.refused \cup {FindNext(t)}
             x == [t EXCEPT !.refused = R]
  <2>1. R \in SUBSET Entry /\ t \in Task
    BY NextPositionIs DEF Good, Task
  <2>2. HandleNextContext(t, answer, how) = [done |-> FALSE, t |-> RemoveUsed(x)]
    BY <1>1 DEF HandleNextContext
  <2> HIDE DEF R
  <2>3. x \in Task /\ x.cs = t.cs
    BY <2>1 DEF Task
  <2> HIDE DEF x
  <2>4. Holds(t, x)
    BY <2>3, SameCs
  <2>5. Holds(t, RemoveUsed(x))
    BY <2>4, RemoveUsedHolds, HoldsTrans DEF Holds
  <2>6. QED
    BY <2>2, <2>5
<1>2. CASE answer # NoAnswer
  <2> DEFINE a == ApplyNextContext(t, answer)
             fin == TryFinish(a, how)
             b == IF fin.done THEN AddAutoplayWhenRequired(fin.t) ELSE fin.t
  <2>1. Holds(t, a)
    BY <1>2, ApplyNextHolds DEF NoAnswer
  <2>2. HandleNextContext(t, answer, how) = [fin EXCEPT !.t = RemoveUsed(b)]
    BY <1>2 DEF HandleNextContext
  <2> HIDE DEF a
  <2>3. fin.done \in BOOLEAN /\ Holds(a, fin.t)
    BY <2>1, TryFinishHolds DEF Holds
  <2>4. fin = [done |-> fin.done, t |-> fin.t]
    BY DEF TryFinish
  <2> HIDE DEF fin
  <2>5. Holds(t, fin.t)
    BY <2>1, <2>3, HoldsTrans
  <2>6. Holds(t, b)
    <3> DEFINE y == fin.t
    <3> HIDE DEF y
    <3>1. Holds(t, y) /\ Good(y)
      BY <2>5 DEF y, Holds
    <3>2. Holds(t, AddAutoplayWhenRequired(y))
      BY <3>1, AddAutoplayHolds, HoldsTrans
    <3>3. QED
      BY <3>1, <3>2 DEF y
  <2> HIDE DEF b
  <2>7. Holds(t, RemoveUsed(b))
    BY <2>6, RemoveUsedHolds, HoldsTrans DEF Holds
  <2>8. QED
    BY <2>2, <2>3, <2>4, <2>7
<1>3. QED
  BY <1>1, <1>2

-----------------------------------------------------------------------------
(* Going on and back                                                       *)

Skip == {g \in [ok : BOOLEAN, found : BOOLEAN, s : State, done : BOOLEAN] :
           Bounded(g.s)}

LEMMA SkipToIs ==
  ASSUME NEW cs, Bounded(cs), NEW u
  PROVE  /\ SkipTo(cs, u) \in Skip
         /\ u = "" => /\ SkipTo(cs, u).done
                      /\ SkipTo(cs, u).ok => Advanced(cs, SkipTo(cs, u).s)
                      /\ SkipTo(cs, u).ok /\ cs.next # <<>>
                         /\ IsQueue(cs.next[1]) => SkipTo(cs, u).found
<1> DEFINE reached(r) == [ok |-> r.ok, found |-> r.found, s |-> r.s,
                          done |-> ~r.ok \/ u = "" \/ r.s.track.uri = u]
           l == Len(cs.context["default"].tracks)
           m == Len(cs.context["autoplay"].tracks)
           N == Len(cs.next) + 4 + 2 * (l + m)
           round(g) == IF g.done THEN g ELSE reached(NextTrack(g.s))
           b == [ok |-> TRUE, found |-> FALSE, s |-> cs, done |-> FALSE]
           step == [n \in 1..N |-> [g \in Skip |-> round(g)]]
           Is(r) == r = [n \in 0..N |-> IF n = 0 THEN b ELSE round(r[n - 1])]
           c == CHOOSE r : Is(r)
<1>1. N \in Nat /\ N > 0
  <2>1. Len(cs.next) \in Nat /\ l \in Nat /\ m \in Nat
    BY DEF Bounded, State, Context, ContextRecord, ContextType
  <2> HIDE DEF l, m
  <2> DEFINE k == Len(cs.next)
  <2> HIDE DEF k
  <2>2. k \in Nat /\ N = k + 4 + 2 * (l + m)
    BY <2>1 DEF k
  <2> HIDE DEF N
  <2>3. QED
    BY <2>1, <2>2
<1>2. b \in Skip /\ ~b.done /\ b.s = cs
  BY DEF Skip, Bounded
<1>3. ASSUME NEW g \in Skip PROVE round(g) \in Skip
  <2> DEFINE r == NextTrack(g.s)
             d == ~r.ok \/ u = "" \/ r.s.track.uri = u
  <2>1. g.done \in BOOLEAN /\ Bounded(g.s)
    BY <1>3 DEF Skip
  <2>2. r.ok \in BOOLEAN /\ r.found \in BOOLEAN /\ Bounded(r.s)
    BY <2>1, NextTrackIs
  <2>3. round(g) = IF g.done THEN g
                   ELSE [ok |-> r.ok, found |-> r.found, s |-> r.s, done |-> d]
    OBVIOUS
  <2> HIDE DEF r
  <2>4. d \in BOOLEAN
    OBVIOUS
  <2> HIDE DEF d
  <2>5. [ok |-> r.ok, found |-> r.found, s |-> r.s, done |-> d] \in Skip
    BY <2>2, <2>4 DEF Skip, Bounded
  <2>6. QED
    BY <1>3, <2>3, <2>5
<1>4. SkipTo(cs, u) = c[N]
  BY DEF SkipTo
<1> HIDE DEF N
<1>5. step \in [1..N -> [Skip -> Skip]]
  BY <1>3
<1>6. PICK r \in [0..N -> Skip] : Rounds(r, b, step, N)
  <2> HIDE DEF step, b
  <2>1. QED
    BY <1>1, <1>2, <1>5, RoundsExist
<1>7. \A n \in 0..N : r[n] = IF n = 0 THEN b ELSE round(r[n - 1])
  <2> HIDE DEF b
  <2>1. \A n \in 0..N : r[n] = IF n = 0 THEN b ELSE step[n][r[n - 1]]
    BY <1>6 DEF Rounds
  <2>2. ASSUME NEW n \in 0..N, n # 0
        PROVE  step[n][r[n - 1]] = round(r[n - 1])
    <3>1. n \in 1..N /\ n - 1 \in 0..N
      BY <1>1, <2>2
    <3>2. r[n - 1] \in Skip
      BY <3>1
    <3>3. QED
      BY <3>1, <3>2
  <2> HIDE DEF step
  <2>3. QED
    BY <2>1, <2>2
<1>8. Is(c)
  <2>1. Is(r)
    BY <1>6, <1>7
  <2>2. QED
    BY <2>1
<1> HIDE DEF c
<1>9. c[0] = b /\ \A n \in 1..N : c[n] = round(c[n - 1])
  <2> HIDE DEF b
  <2>1. \A n \in 0..N : c[n] = IF n = 0 THEN b ELSE round(c[n - 1])
    BY <1>8
  <2>2. 0 \in 0..N /\ \A n \in 1..N : n \in 0..N /\ n # 0
    BY <1>1
  <2>3. QED
    BY <2>1, <2>2
<1>10. \A n \in 1..N : c[n - 1] \in Skip => c[n] \in Skip
  BY <1>3, <1>9
<1>11. \A n \in 0..N : c[n] \in Skip
  <2> HIDE DEF b
  <2>1. QED
    BY <1>1, <1>2, <1>9, <1>10, StaysIn
<1>12. c[N] \in Skip
  BY <1>1, <1>11
<1>13. ASSUME u = ""
       PROVE  /\ c[N].done
              /\ c[N].ok => Advanced(cs, c[N].s)
              /\ c[N].ok /\ cs.next # <<>> /\ IsQueue(cs.next[1]) => c[N].found
  <2> DEFINE q == NextTrack(cs)
             g == reached(q)
  <2>1. c[1] = g
    <3>1. 1 \in 1..N /\ 1 - 1 = 0
      BY <1>1
    <3>2. c[1] = round(b)
      BY <1>9, <3>1
    <3>3. QED
      BY <1>2, <3>2
  <2>2. g.done /\ g.ok = q.ok /\ g.found = q.found /\ g.s = q.s
    BY <1>13
  <2> HIDE DEF g
  <2> DEFINE P == {n \in 0..N : n = 0 \/ c[n] = g}
  <2>3. 0 \in P
    BY <1>1
  <2>4. ASSUME NEW n \in 1..N, n - 1 \in P PROVE n \in P
    <3>1. n \in 0..N
      BY <1>1
    <3>2. CASE n = 1
      BY <2>1, <3>1, <3>2
    <3>3. CASE n # 1
      <4>1. c[n - 1] = g
        BY <2>4, <3>3
      <4>2. c[n] = round(g)
        BY <1>9, <4>1
      <4>3. c[n] = g
        BY <2>2, <4>2
      <4>4. QED
        BY <3>1, <4>3
    <3>4. QED
      BY <3>2, <3>3
  <2>5. \A n \in 0..N : n \in P
    <3> HIDE DEF P
    <3>1. QED
      BY <1>1, <2>3, <2>4, EveryRound
  <2>6. c[N] = g
    BY <1>1, <2>5
  <2>7. /\ q.ok => Advanced(cs, q.s)
        /\ q.ok /\ cs.next # <<>> /\ IsQueue(cs.next[1]) => q.found
    BY NextTrackIs
  <2> HIDE DEF q
  <2>8. QED
    BY <2>2, <2>6, <2>7
<1>14. QED
  BY <1>4, <1>12, <1>13

\* The queue is kept, or its first track is played and the others are kept.
Moves(t, x) ==
  \/ Kept(t.cs.next, x.cs.next)
  \/ /\ t.cs.next # <<>> /\ IsQueue(t.cs.next[1])
     /\ x.cs.track = t.cs.next[1] /\ Kept(Tail(t.cs.next), x.cs.next)

LEMMA NoQueueKept ==
  ASSUME NEW v \in Seq(Track), ~(v # <<>> /\ IsQueue(v[1])), NEW w
  PROVE  Kept(v, w)
<1>1. ASSUME NEW i \in 1..Len(v), \A j \in 1..i : IsQueue(v[j]) PROVE FALSE
  <2>1. v # <<>> /\ 1 \in 1..i
    BY <1>1
  <2>2. QED
    BY <1>1, <2>1
<1>2. QED
  BY <1>1 DEF Kept

LEMMA HandleNextIs ==
  ASSUME NEW t, Good(t), NEW u
  PROVE  /\ HandleNext(t, u).ok \in BOOLEAN /\ Good(HandleNext(t, u).s)
         /\ (u = "" \/ u = t.cs.track.uri) /\ HandleNext(t, u).ok
              => Moves(t, HandleNext(t, u).s)
<1> DEFINE here == u # "" /\ t.cs.track.uri = u
           stay == [ok |-> TRUE, found |-> TRUE, s |-> t.cs, done |-> TRUE]
           g == IF here THEN stay ELSE SkipTo(t.cs, u)
           x == [t EXCEPT !.cs = g.s]
           z == [x EXCEPT !.stuck = TRUE]
           p == IsPlaying(t.cs)
           r == HandleNext(t, u)
           v == t.cs.next
           queued == v # <<>> /\ IsQueue(v[1])
           a == AddAutoplayWhenRequired(x)
           l == LoadTrack(a, p)
<1>1. r = IF ~g.done THEN Ok(z) ELSE IF ~g.ok THEN Err(x)
          ELSE IF g.found THEN l ELSE Ok(HandleStop(x))
  BY DEF HandleNext, With
<1>2. Bounded(t.cs) /\ t \in Task /\ v \in Seq(Track) /\ p \in BOOLEAN
  BY DEF Good, Bounded, State, IsPlaying
<1>3. stay \in Skip
  BY <1>2 DEF Skip, Bounded
<1>4. g \in Skip
  BY <1>2, <1>3, SkipToIs
<1>5. here => g = stay
  OBVIOUS
<1>6. u = "" => /\ g.done /\ (g.ok => Advanced(t.cs, g.s))
                /\ (g.ok /\ queued => g.found)
  <2>1. u = "" => g = SkipTo(t.cs, u)
    OBVIOUS
  <2> HIDE DEF g
  <2>2. QED
    BY <1>2, <2>1, SkipToIs
<1> HIDE DEF g, r, p
<1>7. g.s \in State /\ Bounded(g.s) /\ g.done \in BOOLEAN /\ g.ok \in BOOLEAN
      /\ g.found \in BOOLEAN
  BY <1>4 DEF Skip
<1>8. x \in Task /\ x.cs = g.s
  BY <1>2, <1>7 DEF Task
<1>9. z \in Task /\ z.cs = g.s
  BY <1>2, <1>7 DEF Task
<1> HIDE DEF x, z
<1>10. Good(x) /\ Good(z)
  BY <1>7, <1>8, <1>9 DEF Good
<1>11. Holds(x, a) /\ a.cs = x.cs /\ Good(a)
  BY <1>10, AddAutoplayHolds DEF Holds
<1> HIDE DEF a
<1>12. /\ Result(a, l)
       /\ l.ok /\ IsQueue(a.cs.track) => l.s.cs.track = a.cs.track
  BY <1>2, <1>11, LoadTrackResult
<1> HIDE DEF l
<1>13. Holds(x, HandleStop(x))
  BY <1>10, StopHolds
<1> DEFINE h == HandleStop(x)
<1> HIDE DEF h
<1>14. r.ok \in BOOLEAN /\ Good(r.s)
  BY <1>1, <1>10, <1>12, <1>13 DEF Ok, Err, Result, Holds
<1>15. ASSUME u = "" \/ u = t.cs.track.uri, r.ok PROVE Moves(t, r.s)
  <2>1. CASE here
    <3>1. g = stay /\ x.cs = t.cs
      <4>1. g = stay
        BY <1>5, <2>1
      <4>2. stay.s = t.cs
        OBVIOUS
      <4> HIDE DEF stay
      <4>3. QED
        BY <1>8, <4>1, <4>2
    <3>2. r = l
      BY <1>1, <3>1
    <3>3. Kept(v, l.s.cs.next)
      BY <1>11, <1>12, <3>1 DEF Result, Holds
    <3>4. QED
      BY <3>2, <3>3 DEF Moves
  <2>2. CASE ~here
    <3>1. u = ""
      BY <1>15, <2>2
    <3>2. /\ g.done /\ (g.ok => Advanced(t.cs, g.s))
          /\ (g.ok /\ queued => g.found)
      BY <1>6, <3>1
    <3>3. g.ok
      BY <1>1, <1>7, <1>15, <3>2 DEF Err
    <3>4. CASE ~queued
      BY <1>2, <3>4, NoQueueKept DEF Moves
    <3>5. CASE queued
      <4>1. r = l
        BY <1>1, <3>2, <3>3, <3>5
      <4>2. x.cs.track = v[1] /\ Kept(Tail(v), x.cs.next)
        BY <1>8, <3>2, <3>3, <3>5 DEF Advanced
      <4>3. l.s.cs.track = v[1]
        BY <1>11, <1>12, <1>15, <3>5, <4>1, <4>2
      <4>4. Kept(Tail(v), l.s.cs.next)
        <5>1. /\ Tail(v) \in Seq(Track) /\ x.cs.next \in Seq(Track)
              /\ l.s.cs.next \in Seq(Track)
          <6>1. Tail(v) \in Seq(Track)
            BY <1>2, <3>5
          <6>2. Bounded(x.cs) /\ Bounded(l.s.cs)
            BY <1>10, <1>12 DEF Good, Result, Holds
          <6>3. QED
            BY <6>1, <6>2 DEF Bounded, State
        <5>2. Kept(x.cs.next, l.s.cs.next)
          BY <1>11, <1>12 DEF Result, Holds
        <5> HIDE DEF v
        <5>3. QED
          BY <4>2, <5>1, <5>2, KeptTrans
      <4>5. QED
        BY <3>5, <4>1, <4>3, <4>4 DEF Moves
    <3>6. QED
      BY <3>4, <3>5
  <2>3. QED
    BY <2>1, <2>2
<1>16. QED
  BY <1>14, <1>15 DEF r

\* Skipping back keeps the bounds; it does not keep the queue.
LEMMA HandlePrevIs ==
  ASSUME NEW t, Good(t), NEW early \in BOOLEAN
  PROVE  HandlePrev(t, early).ok \in BOOLEAN /\ Good(HandlePrev(t, early).s)
<1> DEFINE q == PrevTrack(t.cs)
           x == [t EXCEPT !.cs = q.s]
           l == LoadTrack(x, IsPlaying(x.cs))
           k == Lift(x, ResetPlaybackToPosition(x.cs, 0))
           y == k.s
           m == IF y.cs.repeatContext THEN y ELSE HandleStop(y)
           r == HandlePrev(t, early)
<1>1. r = IF ~early THEN Ok(t) ELSE IF ~q.ok THEN Err(x)
          ELSE IF q.found THEN l ELSE IF k.ok THEN Ok(m) ELSE k
  BY DEF HandlePrev, With, Then
<1> HIDE DEF r
<1>2. q.ok \in BOOLEAN /\ q.found \in BOOLEAN /\ Bounded(q.s)
  BY PrevTrackIs DEF Good
<1> HIDE DEF q
<1>3. x \in Task /\ x.cs = q.s
  BY <1>2 DEF Good, Task, Bounded
<1> HIDE DEF x
<1>4. Good(x)
  BY <1>2, <1>3 DEF Good
<1>5. l.ok \in BOOLEAN /\ Good(l.s)
  <2> DEFINE p == IsPlaying(x.cs)
  <2>1. p \in BOOLEAN
    BY DEF IsPlaying
  <2> HIDE DEF p
  <2>2. Result(x, LoadTrack(x, p))
    BY <1>4, <2>1, LoadTrackResult
  <2>3. QED
    BY <2>2 DEF Result, Holds, p
<1> HIDE DEF l
<1>6. k.ok \in BOOLEAN /\ Good(y)
  <2>1. Fine(x.cs, ResetPlaybackToPosition(x.cs, 0))
    BY <1>4, ResetPlaybackFine DEF Good
  <2>2. QED
    BY <1>4, <2>1, LiftResult DEF Result, Holds
<1> HIDE DEF k
<1>7. Good(m)
  BY <1>6, StopHolds DEF Holds
<1> HIDE DEF m
<1>8. QED
  <2>1. \/ r = Ok(t) \/ r = Err(x) \/ r = l \/ r = Ok(m)
        \/ r = k /\ ~k.ok
    BY <1>1, <1>6
  <2>2. /\ \A w : Ok(w).ok \in BOOLEAN /\ Ok(w).s = w
        /\ \A w : Err(w).ok \in BOOLEAN /\ Err(w).s = w
    BY DEF Ok, Err
  <2>3. r.ok \in BOOLEAN /\ Good(r.s)
    BY <1>4, <1>5, <1>6, <1>7, <2>1, <2>2
  <2>4. QED
    BY <2>3 DEF r

-----------------------------------------------------------------------------
(* Loads, transfers and the end of a playback                              *)

LEMMA ActivateHolds ==
  ASSUME NEW t, Good(t)
  PROVE  Holds(t, HandleActivate(t)) /\ HandleActivate(t).cs.next = t.cs.next
<1> DEFINE s == [t.cs EXCEPT !.active = TRUE]
           x == [t EXCEPT !.cs = s]
<1>1. t \in Task /\ t.cs \in State /\ Bounded(t.cs)
  BY DEF Good, Task
<1>2. HandleActivate(t) = x
  BY <1>1 DEF HandleActivate, Task
<1>3. s \in State /\ s.next = t.cs.next /\ s.prev = t.cs.prev
  BY <1>1 DEF State
<1> HIDE DEF s
<1>4. x \in Task /\ x.cs = s
  BY <1>1, <1>3 DEF Task
<1> HIDE DEF x
<1>5. Bounded(s)
  BY <1>1, <1>3 DEF Bounded
<1>6. QED
  BY <1>2, <1>3, <1>4, <1>5, KeptRefl DEF Holds, Good

\* After a disconnection the device is not active, unless the first request
\* failed, which leaves the queue.
LEMMA DisconnectIs ==
  ASSUME NEW t, Good(t), NEW net \in Net
  PROVE  /\ HandleDisconnect(t, net).ok \in BOOLEAN
         /\ Good(HandleDisconnect(t, net).s)
         /\ ~HandleDisconnect(t, net).s.cs.active
              \/ Holds(t, HandleDisconnect(t, net).s)
         /\ HandleDisconnect(t, net).ok
              => ~HandleDisconnect(t, net).s.cs.active
<1> DEFINE a == [t EXCEPT !.queue = <<>>, !.status = "Stopped"]
           off == Notify(a)
           s == BecameInactive(off.cs)
           gone == [off EXCEPT !.cs = s]
           r == HandleDisconnect(t, net)
<1>1. a \in Task /\ a.cs = t.cs
  <2>1. <<>> \in Seq(Entry) /\ "Stopped" \in PlayStatus
    BY DEF PlayStatus
  <2>2. QED
    BY <2>1 DEF Good, Task
<1>2. r = Err(off) \/ r = Err(gone) \/ r = Ok(gone)
  BY DEF HandleDisconnect, Net
<1> HIDE DEF a, r
<1>3. Holds(t, a) /\ Good(a)
  BY <1>1, SameCs DEF Holds
<1>4. Holds(t, off) /\ Good(off)
  BY <1>3, NotifyHolds, HoldsTrans DEF Holds
<1> HIDE DEF off
<1>5. Bounded(s) /\ ~s.active
  BY <1>4, BecameInactiveIs DEF Good
<1> HIDE DEF s
<1>6. gone \in Task /\ gone.cs = s
  BY <1>4, <1>5 DEF Good, Task, Bounded
<1> HIDE DEF gone
<1>7. Good(gone)
  BY <1>5, <1>6 DEF Good
<1>8. /\ \A w : Ok(w).ok = TRUE /\ Ok(w).s = w
      /\ \A w : Err(w).ok = FALSE /\ Err(w).s = w
  BY DEF Ok, Err
<1>9. /\ r.ok \in BOOLEAN /\ Good(r.s)
      /\ (~r.s.cs.active \/ Holds(t, r.s))
      /\ r.ok => ~r.s.cs.active
  BY <1>2, <1>4, <1>5, <1>6, <1>7, <1>8
<1>10. QED
  BY <1>9 DEF r

LEMMA LoadContextHolds ==
  ASSUME NEW t, Good(t), NEW u \in Text, NEW answer \in Seq(Page), NEW how
  PROVE  Holds(t, LoadContextFromUri(t, u, answer, how))
<1> DEFINE h == HandleActivate(t)
           s == SetActiveContext(h.cs, "default")
           a == [h EXCEPT !.cs = s]
           b == [a EXCEPT !.queue = <<>>]
           e == Resolve(u, u, "default", "replace")
           q == ResolverAdd(b, e)
           n == HandleNextContext(q, answer, how).t
           x == LoadContextFromUri(t, u, answer, how)
<1>1. Holds(t, h) /\ Good(h)
  BY ActivateHolds DEF Holds
<1>2. x = IF a.cs.uri = u THEN a ELSE IF HasNext(q) THEN n ELSE q
  BY DEF LoadContextFromUri
<1> HIDE DEF h, x
<1>3. Leads(h.cs, s)
  BY <1>1, SetActiveLeads DEF Good, ContextType
<1> HIDE DEF s
<1>4. Holds(h, a) /\ Good(a)
  BY <1>1, <1>3, PutCs DEF Holds
<1> HIDE DEF a
<1>5. Holds(t, a)
  BY <1>1, <1>4, HoldsTrans
<1>6. b \in Task /\ b.cs = a.cs
  <2>1. <<>> \in Seq(Entry)
    OBVIOUS
  <2>2. QED
    BY <1>4, <2>1 DEF Good, Task
<1> HIDE DEF b
<1>7. Holds(a, b) /\ Good(b)
  BY <1>4, <1>6, SameCs DEF Holds
<1>8. e \in Entry
  BY ResolveIs DEF ContextType
<1> HIDE DEF e
<1>9. Holds(b, q) /\ Good(q)
  BY <1>7, <1>8, ResolverAddHolds DEF Holds
<1> HIDE DEF q
<1>10. Holds(t, q)
  <2>1. Holds(a, q)
    BY <1>4, <1>7, <1>9, HoldsTrans
  <2>2. QED
    BY <1>5, <2>1, HoldsTrans
<1>11. HasNext(q) => Holds(q, n)
  BY <1>9, NextContextHolds
<1> HIDE DEF n
<1>12. HasNext(q) => Holds(t, n)
  BY <1>9, <1>10, <1>11, HoldsTrans
<1>13. Holds(t, x)
  BY <1>2, <1>5, <1>10, <1>12
<1>14. QED
  BY <1>13 DEF x

LEMMA LoadTracksResult ==
  ASSUME NEW t, Good(t), NEW uris \in Seq(Uris)
  PROVE  Result(t, LoadContextFromTracks(t, uris))
<1> DEFINE p == [tracks |-> uris, inline |-> TRUE, url |-> ""]
           pages == <<p>>
           s == t.cs
           r == UpdateContext(s, "default", "spotify:web-api", pages)
<1>1. p \in Page
  BY DEF Page, Text
<1>2. LoadContextFromTracks(t, uris) = Lift(t, r)
  BY DEF LoadContextFromTracks
<1> HIDE DEF p
<1>3. pages \in Seq(Page) /\ pages # <<>>
  BY <1>1
<1> HIDE DEF pages
<1>4. "spotify:web-api" \in Text /\ "default" \in ContextType
  BY DEF Text, ContextType
<1>5. Fine(t.cs, r)
  BY <1>3, <1>4, UpdateContextFine DEF Good
<1> HIDE DEF r
<1>6. QED
  BY <1>2, <1>5, LiftResult

\* A load keeps what was queued.
LEMMA HandleLoadResult ==
  ASSUME NEW t, Good(t), NEW u \in Text, NEW answer \in Seq(Page),
         NEW i \in Nat, NEW shuffle \in BOOLEAN, NEW how
  PROVE  Result(t, HandleLoad(t, u, answer, i, shuffle, how))
<1> DEFINE w == WhenDifferent(t.cs, u)
           s0 == ResetOptions(ResetContext(t.cs, w))
           r == [t EXCEPT !.cs = s0]
           c == LoadContextFromUri(r, u, answer, how)
           s1 == ClearRestrictions(ClearNextTracks(
                                     SetActiveContext(c.cs, "default")))
           s2 == [s1 EXCEPT !.shuffle = shuffle]
           o == [c EXCEPT !.cs = s2]
           r1 == Lift(o, SetCurrentTrack(o.cs, i))
           x == r1.s
           k == Lift(x, IF shuffle THEN ShuffleNew(x.cs, how)
                        ELSE ResetPlaybackToPosition(x.cs, i))
           y == IF k.ok THEN Ok(AddAutoplayWhenRequired(k.s)) ELSE k
           b == IF shuffle /\ HasNext(x) THEN Ok(x) ELSE y
           r2 == IF r1.ok THEN b ELSE r1
           r3 == IF r2.ok THEN LoadTrack(r2.s, TRUE) ELSE r2
<1>1. HandleLoad(t, u, answer, i, shuffle, how) = r3
  BY DEF HandleLoad, Then
<1>2. Holds(t, r) /\ Good(r)
  <2> DEFINE d == ResetContext(t.cs, w)
  <2>1. w \in {"completely", "index", "keep"}
    BY DEF WhenDifferent
  <2> HIDE DEF w
  <2>2. Leads(t.cs, d) /\ Bounded(d)
    BY <2>1, ResetContextLeads DEF Good, Leads
  <2> HIDE DEF d
  <2>3. Leads(d, ResetOptions(d))
    BY <2>2, ResetOptionsLead
  <2>4. Leads(t.cs, s0)
    BY <2>2, <2>3, LeadsTrans DEF Good, d
  <2> HIDE DEF s0
  <2>5. QED
    BY <2>4, PutCs DEF Holds
<1> HIDE DEF r
<1>3. Holds(t, c) /\ Good(c)
  BY <1>2, LoadContextHolds, HoldsTrans DEF Holds
<1> HIDE DEF c
<1>4. Holds(t, o) /\ Good(o)
  <2> DEFINE d == SetActiveContext(c.cs, "default")
             e == ClearNextTracks(d)
  <2>1. Leads(c.cs, d) /\ Bounded(d)
    BY <1>3, SetActiveLeads DEF Good, Leads, ContextType
  <2>2. Leads(d, e) /\ Bounded(e)
    <3> HIDE DEF d
    <3>1. QED
      BY <2>1, ClearNextLeads DEF Leads
  <2>3. Leads(e, s1) /\ Bounded(s1)
    <3> HIDE DEF e
    <3>1. Leads(e, ClearRestrictions(e))
      BY <2>2, RestrictionsLead
    <3>2. QED
      BY <3>1 DEF Leads, e
  <2> HIDE DEF d, e, s1
  <2>4. Leads(c.cs, s1)
    <3>1. Leads(c.cs, e)
      BY <1>3, <2>1, <2>2, LeadsTrans DEF Good
    <3>2. QED
      BY <1>3, <2>3, <3>1, LeadsTrans DEF Good
  <2>5. /\ s2 \in State /\ s2.next = s1.next /\ s2.prev = s1.prev
        /\ s2.active = s1.active
    BY <2>3 DEF Bounded, State
  <2> HIDE DEF s2
  <2>6. Leads(s1, s2)
    BY <2>3, <2>5, SameWindow
  <2>7. Leads(c.cs, s2)
    BY <1>3, <2>4, <2>6, LeadsTrans DEF Good
  <2>8. Holds(c, o)
    BY <1>3, <2>7, PutCs
  <2>9. QED
    BY <1>3, <2>8, HoldsTrans DEF Holds
<1> HIDE DEF o
<1>5. Result(o, r1) /\ Good(x)
  <2>1. Fine(o.cs, SetCurrentTrack(o.cs, i))
    BY <1>4, SetCurrentFine DEF Good
  <2>2. QED
    BY <1>4, <2>1, LiftResult DEF Result, Holds
<1> HIDE DEF r1
<1>6. Result(x, k)
  <2> DEFINE q == IF shuffle THEN ShuffleNew(x.cs, how)
                  ELSE ResetPlaybackToPosition(x.cs, i)
             d == x.cs
  <2>1. Bounded(d)
    BY <1>5 DEF Good
  <2> HIDE DEF d
  <2>2. Fine(d, ShuffleNew(d, how)) /\ Fine(d, ResetPlaybackToPosition(d, i))
    BY <2>1, ShuffleNewFine, ResetPlaybackFine
  <2>3. Fine(x.cs, q)
    BY <2>2 DEF d
  <2> HIDE DEF q
  <2>4. Result(x, Lift(x, q))
    BY <1>5, <2>3, LiftResult
  <2>5. QED
    BY <2>4 DEF q
<1> HIDE DEF k
<1>7. Result(x, y)
  <2> DEFINE z == k.s
             q == Ok(AddAutoplayWhenRequired(z))
  <2>1. Good(z)
    BY <1>6 DEF Result, Holds
  <2> HIDE DEF z
  <2>2. Result(z, q)
    BY <2>1, AddAutoplayHolds, OkResult
  <2> HIDE DEF q
  <2>3. Result(k.s, q)
    BY <2>2 DEF z
  <2>4. Result(x, IF k.ok THEN q ELSE k)
    BY <1>5, <1>6, <2>3, ResultThen
  <2>5. QED
    BY <2>4 DEF q, z
<1> HIDE DEF y
<1>8. Result(x, b)
  <2> DEFINE v == x
  <2> HIDE DEF v
  <2>1. Result(v, Ok(v))
    BY <1>5, HoldsRefl, OkResult DEF v
  <2>2. QED
    BY <1>7, <2>1 DEF v
<1> HIDE DEF b
<1>9. Result(o, r2)
  BY <1>4, <1>5, <1>8, ResultThen
<1> HIDE DEF r2
<1>10. Result(o, r3)
  <2> DEFINE z == r2.s
             q == LoadTrack(z, TRUE)
  <2>1. Good(z)
    BY <1>9 DEF Result, Holds
  <2> HIDE DEF z
  <2>2. Result(z, q)
    BY <2>1, LoadTrackResult
  <2> HIDE DEF q
  <2>3. Result(r2.s, q)
    BY <2>2 DEF z
  <2>4. Result(o, IF r2.ok THEN q ELSE r2)
    BY <1>4, <1>9, <2>3, ResultThen
  <2>5. QED
    BY <2>4 DEF q, z
<1> HIDE DEF r3
<1>11. QED
  BY <1>1, <1>4, <1>10, HoldsResult

\* The device takes a transfer over.
Ready(y, x, u) ==
  [HandleActivate(y) EXCEPT
     !.cs = [HandleInitialTransfer(@, x, u) EXCEPT !.activeContext = "default"]]

LEMMA ReadyHolds ==
  ASSUME NEW y, Good(y), NEW x \in Handover, NEW u \in Text
  PROVE  Holds(y, Ready(y, x, u))
<1> DEFINE h == HandleActivate(y)
           s == HandleInitialTransfer(h.cs, x, u)
           z == [s EXCEPT !.activeContext = "default"]
           w == [h EXCEPT !.cs = z]
<1>1. Ready(y, x, u) = w
  BY DEF Ready
<1>2. Holds(y, h) /\ Good(h)
  BY ActivateHolds DEF Holds
<1> HIDE DEF h
<1>3. Leads(h.cs, s) /\ Bounded(s)
  BY <1>2, InitialTransferLeads DEF Good, Leads
<1> HIDE DEF s
<1>4. /\ z \in State /\ z.next = s.next /\ z.prev = s.prev
      /\ z.active = s.active
  BY <1>3 DEF Bounded, State, ContextType
<1> HIDE DEF z
<1>5. Leads(s, z)
  BY <1>3, <1>4, SameWindow
<1>6. Leads(h.cs, z)
  BY <1>2, <1>3, <1>5, LeadsTrans DEF Good
<1>7. Holds(h, w)
  BY <1>2, <1>6, PutCs
<1> HIDE DEF w
<1>8. QED
  BY <1>1, <1>2, <1>7, HoldsTrans

\* A transfer whose context is asked for is kept until the answer is there.
LEMMA KeepTransfer ==
  ASSUME NEW t, Good(t), NEW x \in Handover, NEW play \in BOOLEAN
  PROVE  Result(t, LoadTrack([t EXCEPT !.transfer = x], play))
<1> DEFINE y == [t EXCEPT !.transfer = x]
<1>1. y \in Task /\ y.cs = t.cs
  BY DEF Good, Task
<1> HIDE DEF y
<1>2. Holds(t, y) /\ Good(y)
  BY <1>1, SameCs DEF Holds
<1>3. Result(t, LoadTrack(y, play))
  BY <1>2, LoadTrackResult, HoldsResult
<1>4. QED
  BY <1>3 DEF y

\* A transfer keeps what was queued.
LEMMA HandleTransferResult ==
  ASSUME NEW t, Good(t), NEW x \in Handover
  PROVE  Result(t, HandleTransfer(t, x))
<1> DEFINE how == IF x.uri = "" THEN "completely" ELSE WhenDifferent(t.cs, x.uri)
           d == ResetContext(t.cs, how)
           cur == CurrentTrackFromTransfer(t.cs, x)
           s0 == [d EXCEPT !.track = cur]
           r == [t EXCEPT !.cs = s0]
           ru == r.cs.track.uri
           e == Resolve(x.uri, ru, "default", "replace")
           asked == ResolverAdd(r, e)
           listed == LoadContextFromTracks(r, x.tracks)
           p == ~x.paused
           y1 == Ready(asked, x, x.uri)
           y2 == Ready(r, x, ru)
           y3 == Ready(listed.s, x, "spotify:unknown")
           found == PositionOf(y3.cs.context["default"].tracks, y3.cs.track.uri)
           placed == IF found = 0 THEN Err(y3)
                     ELSE Lift(y3, ResetPlaybackToPosition(y3.cs, found - 1))
           l2 == IF listed.ok THEN placed ELSE listed
           l3 == IF l2.ok THEN LoadTrack(l2.s, p) ELSE l2
           l1 == LoadTrack([y1 EXCEPT !.transfer = x], p)
           l0 == LoadTrack([y2 EXCEPT !.transfer = x], p)
<1>1. HandleTransfer(t, x) =
        IF x.uri # "" THEN l1 ELSE IF x.tracks = <<>> THEN l0 ELSE l3
  BY DEF HandleTransfer, Then, Ready
<1>2. /\ x.uri \in Text /\ x.tracks \in Seq(Uris) /\ p \in BOOLEAN
      /\ "spotify:unknown" \in Text /\ "default" \in ContextType
  BY TransferFields DEF Text, ContextType
<1>3. how \in {"completely", "index", "keep"}
  BY DEF WhenDifferent
<1>4. cur \in Track
  BY TransferTrack
<1> HIDE DEF how, cur, p
<1>5. Leads(t.cs, d) /\ Bounded(d)
  BY <1>3, ResetContextLeads DEF Good, Leads
<1> HIDE DEF d
<1>6. Leads(t.cs, s0) /\ s0.track = cur
  <2>1. /\ s0 \in State /\ s0.next = d.next /\ s0.prev = d.prev
        /\ s0.active = d.active /\ s0.track = cur
    BY <1>4, <1>5 DEF Bounded, State
  <2> HIDE DEF s0
  <2>2. Leads(d, s0)
    BY <1>5, <2>1, SameWindow
  <2>3. QED
    BY <1>5, <2>1, <2>2, LeadsTrans DEF Good
<1> HIDE DEF s0
<1>7. Holds(t, r) /\ Good(r) /\ r.cs = s0
  BY <1>6, PutCs DEF Holds
<1>8. ru \in Text
  BY <1>4, <1>6, <1>7, TrackUri
<1> HIDE DEF r, ru
<1>9. e \in Entry
  BY <1>2, <1>8, ResolveIs
<1> HIDE DEF e
<1>10. Holds(r, asked) /\ Good(asked)
  BY <1>7, <1>9, ResolverAddHolds DEF Holds
<1>11. Result(r, listed) /\ Good(listed.s)
  BY <1>2, <1>7, LoadTracksResult DEF Result, Holds
<1> HIDE DEF asked, listed
<1>12. /\ Holds(asked, y1) /\ Holds(r, y2) /\ Holds(listed.s, y3)
       /\ Good(y1) /\ Good(y2) /\ Good(y3)
  BY <1>2, <1>7, <1>8, <1>10, <1>11, ReadyHolds DEF Holds
<1> HIDE DEF y1, y2, y3
<1>13. Result(y1, l1) /\ Result(y2, l0)
  BY <1>2, <1>12, KeepTransfer
<1> HIDE DEF l1, l0
<1>14. Result(r, l1) /\ Result(r, l0)
  <2>1. Holds(r, y1)
    BY <1>7, <1>10, <1>12, HoldsTrans
  <2>2. QED
    BY <1>7, <1>12, <1>13, <2>1, HoldsResult
<1>15. Result(y3, placed)
  <2> DEFINE v == y3.cs.context["default"].tracks
             q == ResetPlaybackToPosition(y3.cs, found - 1)
  <2>1. Bounded(y3.cs)
    BY <1>12 DEF Good
  <2>2. v \in Seq(Track)
    BY <2>1 DEF Bounded, State, Context, ContextRecord, ContextType
  <2>3. found \in Nat
    <3> DEFINE u == y3.cs.track.uri
    <3> HIDE DEF v, u
    <3>1. PositionOf(v, u) \in 0..Len(v)
      BY <2>2, PositionIs
    <3>2. Len(v) \in Nat
      BY <2>2
    <3>3. PositionOf(v, u) \in Nat
      BY <3>1, <3>2
    <3>4. QED
      BY <3>3 DEF v, u
  <2> HIDE DEF found
  <2>4. ASSUME found # 0 PROVE Result(y3, Lift(y3, q))
    <3> DEFINE n == found - 1
    <3>1. n \in Nat
      BY <2>3, <2>4
    <3> HIDE DEF n
    <3>2. Fine(y3.cs, ResetPlaybackToPosition(y3.cs, n))
      BY <2>1, <3>1, ResetPlaybackFine
    <3>3. Fine(y3.cs, q)
      BY <3>2 DEF n
    <3> HIDE DEF q
    <3>4. QED
      BY <1>12, <3>3, LiftResult
  <2>5. Result(y3, Err(y3))
    BY <1>12, HoldsRefl, OkResult
  <2>6. QED
    BY <2>4, <2>5
<1> HIDE DEF placed
<1>16. Result(listed.s, placed)
  BY <1>11, <1>12, <1>15, HoldsResult
<1>17. Result(r, l2)
  BY <1>7, <1>11, <1>16, ResultThen
<1> HIDE DEF l2
<1>18. Result(r, l3)
  <2> DEFINE z == l2.s
             q == LoadTrack(z, p)
  <2>1. Good(z)
    BY <1>17 DEF Result, Holds
  <2> HIDE DEF z
  <2>2. Result(z, q)
    BY <1>2, <2>1, LoadTrackResult
  <2> HIDE DEF q
  <2>3. Result(l2.s, q)
    BY <2>2 DEF z
  <2>4. Result(r, IF l2.ok THEN q ELSE l2)
    BY <1>7, <1>17, <2>3, ResultThen
  <2>5. QED
    BY <2>4 DEF q, z
<1> HIDE DEF l3
<1>19. Result(r, HandleTransfer(t, x))
  BY <1>1, <1>14, <1>18
<1>20. QED
  BY <1>7, <1>19, HoldsResult

-----------------------------------------------------------------------------
(* The branches of the task's loop                                         *)

\* What a branch may make of the task while nothing edits the queue.
Served(t, x) ==
  Good(x) /\ (x.cs.active /\ ~x.failed => Moves(t, x))

LEMMA HoldsServed ==
  ASSUME NEW t, NEW x, Holds(t, x)
  PROVE  Good(x) /\ Served(t, x)
BY DEF Holds, Served, Moves

LEMMA SameServed ==
  ASSUME NEW t, Good(t), NEW x \in Task, x.cs = t.cs
  PROVE  Good(x) /\ Served(t, x)
BY SameCs, HoldsServed

LEMMA PutGood ==
  ASSUME NEW t, Good(t), NEW s, Bounded(s)
  PROVE  Good([t EXCEPT !.cs = s]) /\ [t EXCEPT !.cs = s].cs = s
<1> DEFINE x == [t EXCEPT !.cs = s]
<1>1. x \in Task /\ x.cs = s
  BY DEF Good, Bounded, Task
<1> HIDE DEF x
<1>2. Good(x)
  BY <1>1 DEF Good
<1>3. QED
  BY <1>1, <1>2 DEF x

LEMMA MovesThen ==
  ASSUME NEW t, Good(t), NEW y, Good(y), Moves(t, y), NEW x, Holds(y, x),
         x.cs.track = y.cs.track
  PROVE  Moves(t, x)
<1> DEFINE v == t.cs.next
           w == y.cs.next
           z == x.cs.next
<1>1. v \in Seq(Track) /\ w \in Seq(Track) /\ z \in Seq(Track) /\ Kept(w, z)
  BY DEF Good, Holds, Bounded, State
<1>2. v # <<>> => Tail(v) \in Seq(Track)
  BY <1>1
<1>3. /\ Kept(v, w) => Kept(v, z)
      /\ v # <<>> /\ Kept(Tail(v), w) => Kept(Tail(v), z)
  <2> HIDE DEF v, w, z
  <2>1. QED
    BY <1>1, <1>2, KeptTrans
<1>4. QED
  BY <1>3 DEF Moves

\* A branch that ends with a notification, one that has it sent later, and
\* one that fails.
LEMMA AfterGood ==
  ASSUME NEW r, r.ok \in BOOLEAN, Good(r.s)
  PROVE  Good(AfterCommand(r)) /\ Good(AfterRequest(r)) /\ Good(Failed(r.s))
<1> DEFINE t == r.s
           f == [t EXCEPT !.failed = TRUE]
           u == [t EXCEPT !.updateState = TRUE]
<1>1. f \in Task /\ f.cs = t.cs /\ u \in Task /\ u.cs = t.cs
  BY DEF Good, Task
<1>2. Failed(t) = f
  BY DEF Failed
<1>3. AfterCommand(r) = IF r.ok THEN Notify(t) ELSE f
  BY <1>2 DEF AfterCommand
<1>4. AfterRequest(r) = IF r.ok THEN u ELSE f
  BY <1>2 DEF AfterRequest
<1> HIDE DEF t, f, u
<1>5. Good(t)
  BY DEF t
<1>6. Good(f) /\ Good(u) /\ Good(Notify(t))
  BY <1>1, <1>5, SameServed, NotifyHolds DEF Holds
<1>7. QED
  BY <1>2, <1>3, <1>4, <1>6 DEF t

LEMMA AfterServed ==
  ASSUME NEW t, Good(t), NEW r, r.ok \in BOOLEAN, Good(r.s),
         r.ok => Moves(t, r.s)
  PROVE  Served(t, AfterCommand(r)) /\ Served(t, AfterRequest(r))
<1> DEFINE y == r.s
           f == [y EXCEPT !.failed = TRUE]
           u == [y EXCEPT !.updateState = TRUE]
<1>1. f \in Task /\ f.failed /\ u \in Task /\ u.cs = y.cs
  BY DEF Good, Task
<1>2. AfterCommand(r) = IF r.ok THEN Notify(y) ELSE f
  BY DEF AfterCommand, Failed
<1>3. AfterRequest(r) = IF r.ok THEN u ELSE f
  BY DEF AfterRequest, Failed
<1> HIDE DEF y, f, u
<1>4. Good(y) /\ (r.ok => Moves(t, y))
  BY DEF y
<1>5. CASE r.ok
  <2>1. Holds(y, Notify(y)) /\ Notify(y).cs.track = y.cs.track
    BY <1>4, NotifyHolds
  <2>2. Holds(y, u) /\ u.cs.track = y.cs.track
    BY <1>1, <1>4, SameCs
  <2>3. Moves(t, Notify(y)) /\ Moves(t, u)
    BY <1>4, <1>5, <2>1, <2>2, MovesThen
  <2>4. QED
    BY <1>2, <1>3, <1>5, <2>1, <2>2, <2>3 DEF Served, Holds
<1>6. CASE ~r.ok
  <2>1. AfterCommand(r) = f /\ AfterRequest(r) = f
    BY <1>2, <1>3, <1>6
  <2>2. Good(AfterCommand(r))
    BY AfterGood
  <2>3. QED
    BY <1>1, <2>1, <2>2 DEF Served
<1>7. QED
  BY <1>5, <1>6

LEMMA ResultServed ==
  ASSUME NEW t, Good(t), NEW r, Result(t, r)
  PROVE  /\ r.ok \in BOOLEAN /\ Good(r.s) /\ (r.ok => Moves(t, r.s))
         /\ Served(t, AfterCommand(r)) /\ Served(t, AfterRequest(r))
<1>1. r.ok \in BOOLEAN /\ Good(r.s) /\ Moves(t, r.s)
  BY DEF Result, Holds, Moves
<1>2. QED
  BY <1>1, AfterServed

\* What a command or a request may come to.
Outcome(t, kind, r) ==
  /\ r.ok \in BOOLEAN /\ Good(r.s)
  /\ kind # "prev" /\ r.ok => Moves(t, r.s)

LEMMA ResultOutcome ==
  ASSUME NEW t, Good(t), NEW kind, NEW r, Result(t, r)
  PROVE  Outcome(t, kind, r)
BY ResultServed DEF Outcome

LEMMA EffectsAre ==
  ASSUME NEW t, Good(t), NEW kind \in Kinds, NEW r \in Effects(t, kind)
  PROVE  Outcome(t, kind, r)
<1>1. CASE kind \in {"play", "pause", "playPause"}
  <2> DEFINE a == Ok(HandlePlay(t))
             b == Ok(HandlePause(t))
             c == Ok(HandlePlayPause(t))
  <2>1. r \in {a, b, c}
    <3> HIDE DEF a, b, c
    <3>1. kind = "play" => Effects(t, kind) = {a}
      BY DEF Effects, a
    <3>2. kind = "pause" => Effects(t, kind) = {b}
      BY DEF Effects, b
    <3>3. kind = "playPause" => Effects(t, kind) = {c}
      BY DEF Effects, c
    <3>4. QED
      BY <1>1, <3>1, <3>2, <3>3
  <2>2. Result(t, r)
    BY <2>1, PlayHolds, PauseHolds, PlayPauseHolds, OkResult
  <2>3. QED
    BY <2>2, ResultOutcome
<1>2. CASE kind = "next"
  <2>1. r = HandleNextTrack(t)
    BY <1>2 DEF Effects
  <2>2. QED
    BY <2>1, HandleNextIs DEF Outcome, HandleNextTrack
<1>3. CASE kind = "prev"
  <2>1. \E early \in BOOLEAN : r = HandlePrev(t, early)
    <3> DEFINE B == IF t.status = "Stopped" THEN {TRUE} ELSE BOOLEAN
    <3>1. B \subseteq BOOLEAN
      OBVIOUS
    <3> HIDE DEF B
    <3>2. kind = "prev"
            => Effects(t, kind) = {HandlePrev(t, early) : early \in B}
      BY DEF Effects, B
    <3>3. QED
      BY <1>3, <3>1, <3>2
  <2>2. QED
    BY <1>3, <2>1, HandlePrevIs DEF Outcome
<1>4. CASE kind = "shuffle"
  <2>1. PICK on \in BOOLEAN, how \in Arrangements :
               r = Lift(t, HandleShuffle(t.cs, on, how))
    BY <1>4 DEF Effects
  <2>2. Fine(t.cs, HandleShuffle(t.cs, on, how))
    BY HandleShuffleFine DEF Good
  <2>3. Result(t, r)
    BY <2>1, <2>2, LiftResult
  <2>4. QED
    BY <2>3, ResultOutcome
<1>5. CASE kind = "repeat"
  <2>1. PICK on \in BOOLEAN : r = Lift(t, HandleSetRepeatContext(t.cs, on))
    BY <1>5 DEF Effects
  <2>2. Fine(t.cs, HandleSetRepeatContext(t.cs, on))
    BY HandleRepeatFine DEF Good
  <2>3. Result(t, r)
    BY <2>1, <2>2, LiftResult
  <2>4. QED
    BY <2>3, ResultOutcome
<1>6. CASE kind = "repeatTrack"
  <2> DEFINE s == [t.cs EXCEPT !.repeatTrack = ~t.cs.repeatTrack]
             x == [t EXCEPT !.cs = s]
  <2>1. t \in Task /\ t.cs \in State /\ Bounded(t.cs)
    BY DEF Good, Task
  <2>2. r = Ok(x)
    <3>1. r = Ok([t EXCEPT !.cs.repeatTrack = ~t.cs.repeatTrack])
      BY <1>6 DEF Effects
    <3>2. [t EXCEPT !.cs.repeatTrack = ~t.cs.repeatTrack] = x
      BY <2>1 DEF Task
    <3>3. QED
      BY <3>1, <3>2
  <2>3. /\ s \in State /\ s.next = t.cs.next /\ s.prev = t.cs.prev
        /\ s.active = t.cs.active
    BY <2>1 DEF State
  <2> HIDE DEF s
  <2>4. Leads(t.cs, s)
    BY <2>1, <2>3, SameWindow
  <2>5. Holds(t, x)
    BY <2>4, PutCs
  <2> HIDE DEF x
  <2>6. QED
    BY <2>2, <2>5, OkResult, ResultOutcome
<1>7. CASE kind = "queue"
  <2>1. PICK u \in Uris : r = Ok([t EXCEPT !.cs = AddToQueue(t.cs, u)])
    BY <1>7 DEF Effects
  <2> DEFINE s == AddToQueue(t.cs, u)
  <2>2. Leads(t.cs, s)
    BY AddToQueueLeads DEF Good
  <2> HIDE DEF s
  <2>3. Holds(t, [t EXCEPT !.cs = s])
    BY <2>2, PutCs
  <2>4. Result(t, Ok([t EXCEPT !.cs = s]))
    BY <2>3, OkResult
  <2>5. QED
    BY <2>1, <2>4, ResultOutcome DEF s
<1>8. CASE kind = "volume"
  <2>1. PICK v \in 0..MaxVolume : r = Ok(SetVolume(t, v))
    BY <1>8 DEF Effects
  <2>2. QED
    BY <2>1, SetVolumeHolds, OkResult, ResultOutcome
<1>9. QED
  BY <1>1, <1>2, <1>3, <1>4, <1>5, <1>6, <1>7, <1>8 DEF Kinds

-----------------------------------------------------------------------------
(* The inductive invariant                                                 *)

PlayerStatus == {"Loading", "Playing", "Paused", "Stopped", "Unavailable",
                 "EndOfTrack"}
Playback == [status : PlayerStatus \cup {"none"}, id : Nat, track : Text,
             play : BOOLEAN]
EventRecord == [event : PlayerStatus \cup {"PlayRequestIdChanged"}, id : Nat,
                track : Text]

\* A track is found to be unavailable only in a scene where that occurs.
Events == {e \in EventRecord :
             e.event = "Unavailable" => "unavailable" \in scene.inputs}

SpircInv ==
  /\ Good(task) /\ scene \in Scenes /\ pl \in Playback /\ pev \in Seq(Events)

\* The inputs that edit the queue.
Edits == {"prev", "setQueue", "skip", "unavailable"}

\* What a step does to the task.
Stepped == Good(task') /\ (Edits \cap scene.inputs = {} => Served(task, task'))

LEMMA HoldsStepped ==
  ASSUME Good(task), Holds(task, task')
  PROVE  Stepped
BY HoldsServed DEF Stepped

LEMMA SameStepped ==
  ASSUME Good(task), task' \in Task, task'.cs = task.cs
  PROVE  Stepped
BY SameCs, HoldsStepped

LEMMA AnswersArePages ==
  /\ NoAnswer \in Seq(Page) /\ Stations \subseteq Seq(Page)
  /\ \A u \in DOMAIN Content : Content[u] \subseteq Seq(Page)
<1>1. [tracks : Seq(Uris), inline : BOOLEAN, url : STRING] \subseteq Page
  BY DEF Page, Text
<1> DEFINE P == [tracks : Seq(Uris), inline : BOOLEAN, url : STRING]
<1>2. Pages = Seq(P)
  BY DEF Pages
<1> HIDE DEF P
<1>3. Seq(P) \subseteq Seq(Page)
  <2>1. P \subseteq Page
    BY <1>1 DEF P
  <2>2. ASSUME NEW v \in Seq(P) PROVE v \in Seq(Page)
    <3>1. v \in [1..Len(v) -> Page] /\ Len(v) \in Nat
      BY <2>1
    <3>2. QED
      BY <3>1
  <2>3. QED
    BY <2>2
<1>4. NoAnswer \in Seq(Page)
  BY DEF NoAnswer
<1>5. QED
  BY <1>2, <1>3, <1>4, SpircAssumption

LEMMA TransfersAreHandovers == Transfers \subseteq Handover
BY SpircAssumption DEF Handover

LEMMA LoadsAre ==
  ASSUME NEW t, Good(t), scene \in Scenes, NEW r \in Loads(t)
  PROVE  Result(t, r)
<1>1. PICK l \in scene.loads :
        \E a \in Content[l.uri] \cup {NoAnswer}, how \in Arrangements :
          r = HandleLoad(t, l.uri, a, l.index, l.shuffle, how)
  BY DEF Loads
<1>2. l \in [uri : DOMAIN Content, index : Nat, shuffle : BOOLEAN]
  BY SpircAssumption
<1>3. l.uri \in DOMAIN Content /\ l.index \in Nat /\ l.shuffle \in BOOLEAN
  BY <1>2
<1>4. l.uri \in Text
  BY <1>3, SpircAssumption DEF Text
<1>5. Content[l.uri] \cup {NoAnswer} \subseteq Seq(Page)
  BY <1>3, AnswersArePages
<1>6. PICK a \in Content[l.uri] \cup {NoAnswer}, how \in Arrangements :
             r = HandleLoad(t, l.uri, a, l.index, l.shuffle, how)
  BY <1>1
<1>7. a \in Seq(Page)
  BY <1>5
<1>8. QED
  BY <1>3, <1>4, <1>6, <1>7, HandleLoadResult

LEMMA PlayerEventIs ==
  ASSUME NEW t, Good(t), NEW e \in EventRecord
  PROVE  /\ Good(PlayerEvent(t, e))
         /\ e.event # "Unavailable" => Served(t, PlayerEvent(t, e))
<1> DEFINE due == [t EXCEPT !.updateState = TRUE]
           to(st) == [due EXCEPT !.status = st]
           id == [t EXCEPT !.requestId = e.id]
           u == IF t.cs.repeatTrack THEN t.cs.track.uri ELSE ""
           n == HandleNext(t, u)
           r1 == Lift(t, MarkUnavailable(t.cs, e.track))
           x == r1.s
           sk == IF x.cs.track.uri = e.track THEN HandleNextTrack(x) ELSE Ok(x)
           r2 == IF r1.ok THEN sk ELSE r1
           p == PlayerEvent(t, e)
<1>1. \/ p \in {t, due, id, to("Playing"), to("Paused"), to("Stopped")}
      \/ p = AfterRequest(n)
      \/ p = AfterRequest(r2) /\ e.event = "Unavailable"
  BY DEF PlayerEvent, Then, EventRecord, PlayerStatus
<1> HIDE DEF p
<1>2. CASE p \in {t, due, id, to("Playing"), to("Paused"), to("Stopped")}
  <2>1. t \in Task /\ e.id \in Nat
    BY DEF Good, EventRecord
  <2>2. due \in Task /\ due.cs = t.cs
    BY <2>1 DEF Task
  <2>3. id \in Task /\ id.cs = t.cs
    BY <2>1 DEF Task
  <2> HIDE DEF due, id
  <2>4. ASSUME NEW st \in PlayStatus PROVE to(st) \in Task /\ to(st).cs = t.cs
    BY <2>2 DEF Task
  <2>5. {"Playing", "Paused", "Stopped"} \subseteq PlayStatus
    BY DEF PlayStatus
  <2> HIDE DEF to
  <2>6. p \in Task /\ p.cs = t.cs
    BY <1>2, <2>1, <2>2, <2>3, <2>4, <2>5
  <2>7. Good(p) /\ Served(t, p)
    BY <2>6, SameServed
  <2>8. QED
    BY <2>7 DEF p
<1>3. CASE p = AfterRequest(n)
  <2>1. n.ok \in BOOLEAN /\ Good(n.s) /\ (n.ok => Moves(t, n.s))
    <3>1. u = "" \/ u = t.cs.track.uri
      OBVIOUS
    <3> HIDE DEF u
    <3>2. QED
      BY <3>1, HandleNextIs
  <2> HIDE DEF n
  <2>2. Good(p) /\ Served(t, p)
    BY <1>3, <2>1, AfterGood, AfterServed
  <2>3. QED
    BY <2>2 DEF p
<1>4. CASE p = AfterRequest(r2) /\ e.event = "Unavailable"
  <2> DEFINE m == MarkUnavailable(t.cs, e.track)
             s == m.s
  <2>1. e.track \in Text
    BY DEF EventRecord
  <2>2. m.ok \in BOOLEAN /\ Bounded(s)
    BY <2>1, MarkUnavailableIs DEF Good
  <2>3. r1 = [ok |-> m.ok, s |-> [t EXCEPT !.cs = s]]
    BY DEF Lift
  <2> HIDE DEF m, s
  <2>4. r1.ok \in BOOLEAN /\ Good(x)
    BY <2>2, <2>3, PutGood
  <2> HIDE DEF r1
  <2> DEFINE y == x
  <2> HIDE DEF y
  <2>5. HandleNext(y, "").ok \in BOOLEAN /\ Good(HandleNext(y, "").s)
    BY <2>4, HandleNextIs DEF y
  <2>6. Ok(y).ok \in BOOLEAN /\ Ok(y).s = y
    BY DEF Ok
  <2>7. sk.ok \in BOOLEAN /\ Good(sk.s)
    BY <2>4, <2>5, <2>6 DEF y, HandleNextTrack
  <2> HIDE DEF sk
  <2>8. r2.ok \in BOOLEAN /\ Good(r2.s)
    BY <2>4, <2>7
  <2> HIDE DEF r2
  <2>9. Good(p)
    BY <1>4, <2>8, AfterGood
  <2>10. QED
    BY <1>4, <2>9 DEF p
<1>5. QED
  BY <1>1, <1>2, <1>3, <1>4

-----------------------------------------------------------------------------
(* One lemma per action                                                    *)

LEMMA ConnectionIdStep ==
  ASSUME SpircInv, ConnectionId
  PROVE  Stepped
<1>1. Good(task) /\ task \in Task
  BY DEF SpircInv, Good
<1>2. CASE task' = [task EXCEPT !.established = TRUE]
  <2>1. task' \in Task /\ task'.cs = task.cs
    BY <1>1, <1>2 DEF Task
  <2>2. QED
    BY <1>1, <2>1, SameStepped
<1>3. CASE task' = [task EXCEPT !.ended = TRUE]
  <2>1. task' \in Task /\ task'.cs = task.cs
    BY <1>1, <1>3 DEF Task
  <2>2. QED
    BY <1>1, <2>1, SameStepped
<1> DEFINE t == [task EXCEPT !.established = TRUE]
<1>4. ASSUME NEW x \in Transfers,
             task' = IF HandleTransfer(t, x).ok THEN HandleTransfer(t, x).s
                     ELSE Failed(HandleTransfer(t, x).s)
      PROVE  Stepped
  <2> DEFINE r == HandleTransfer(t, x)
  <2>1. t \in Task /\ t.cs = task.cs
    BY <1>1 DEF Task
  <2> HIDE DEF t
  <2>2. Holds(task, t) /\ Good(t)
    BY <1>1, <2>1, SameCs DEF Holds
  <2>3. Result(t, r)
    BY <2>2, TransfersAreHandovers, HandleTransferResult
  <2> HIDE DEF r
  <2>4. Result(task, r)
    BY <1>1, <2>2, <2>3, HoldsResult
  <2>5. CASE r.ok
    <3>1. Holds(task, task')
      BY <1>4, <2>4, <2>5 DEF Result, r
    <3>2. QED
      BY <1>1, <3>1, HoldsStepped
  <2>6. CASE ~r.ok
    <3>1. task' = AfterRequest(r)
      BY <1>4, <2>6 DEF AfterRequest, r
    <3>2. Served(task, task')
      BY <1>1, <2>4, <3>1, ResultServed
    <3>3. QED
      BY <3>2 DEF Stepped, Served
  <2>7. QED
    BY <2>5, <2>6
<1>5. QED
  BY <1>2, <1>3, <1>4 DEF ConnectionId

LEMMA CommandStep ==
  ASSUME SpircInv, NEW kind \in Kinds, Command(kind)
  PROVE  Stepped
<1>1. Good(task) /\ kind \in scene.inputs
  BY DEF SpircInv, Command, Input
<1>2. PICK r \in IF task.cs.active THEN Effects(task, kind) ELSE {Ok(task)} :
             task' = AfterCommand(r)
  BY DEF Command
<1>3. Outcome(task, kind, r)
  <2>1. Result(task, Ok(task))
    BY <1>1, HoldsRefl, OkResult
  <2>2. Outcome(task, kind, Ok(task))
    BY <1>1, <2>1, ResultOutcome
  <2>3. QED
    BY <1>1, <1>2, <2>2, EffectsAre
<1>4. Good(task')
  BY <1>2, <1>3, AfterGood DEF Outcome
<1>5. ASSUME kind # "prev" PROVE Served(task, task')
  BY <1>1, <1>2, <1>3, <1>5, AfterServed DEF Outcome
<1>6. QED
  BY <1>1, <1>4, <1>5 DEF Stepped, Edits

LEMMA RequestStep ==
  ASSUME SpircInv, NEW kind \in Kinds, Request(kind)
  PROVE  Stepped
<1>1. Good(task) /\ kind \in scene.inputs
  BY DEF SpircInv, Request, Input
<1>2. PICK r \in IF kind = "play" /\ task.status = "Stopped"
                 THEN {LoadTrack(task, TRUE)} ELSE Effects(task, kind) :
             task' = AfterRequest(r)
  BY DEF Request
<1>3. Outcome(task, kind, r)
  <2>1. Result(task, LoadTrack(task, TRUE))
    BY <1>1, LoadTrackResult
  <2>2. Outcome(task, kind, LoadTrack(task, TRUE))
    BY <1>1, <2>1, ResultOutcome
  <2>3. QED
    BY <1>1, <1>2, <2>2, EffectsAre
<1>4. Good(task')
  BY <1>2, <1>3, AfterGood DEF Outcome
<1>5. ASSUME kind # "prev" PROVE Served(task, task')
  BY <1>1, <1>2, <1>3, <1>5, AfterServed DEF Outcome
<1>6. QED
  BY <1>1, <1>4, <1>5 DEF Stepped, Edits

LEMMA LoadStep ==
  ASSUME SpircInv, LoadCommand \/ PlayRequest
  PROVE  Stepped
<1>1. Good(task) /\ scene \in Scenes
  BY DEF SpircInv
<1>2. CASE LoadCommand
  <2>1. PICK r \in Loads(task) : task' = AfterCommand(r)
    BY <1>2 DEF LoadCommand
  <2>2. Result(task, r)
    BY <1>1, LoadsAre
  <2>3. Served(task, task')
    BY <1>1, <2>1, <2>2, ResultServed
  <2>4. QED
    BY <2>3 DEF Stepped, Served
<1>3. CASE PlayRequest
  <2> DEFINE t == HandleActivate(task)
  <2>1. PICK r \in Loads(t) : task' = AfterRequest(r)
    BY <1>3 DEF PlayRequest
  <2>2. Holds(task, t) /\ Good(t)
    BY <1>1, ActivateHolds DEF Holds
  <2> HIDE DEF t
  <2>3. Result(t, r)
    BY <1>1, <2>2, LoadsAre
  <2>4. Result(task, r)
    BY <1>1, <2>2, <2>3, HoldsResult
  <2>5. Served(task, task')
    BY <1>1, <2>1, <2>4, ResultServed
  <2>6. QED
    BY <2>5 DEF Stepped, Served
<1>4. QED
  BY <1>2, <1>3

LEMMA ActivateStep ==
  ASSUME SpircInv, ActivateCommand
  PROVE  Stepped
<1> DEFINE t == HandleActivate(task)
<1>1. Good(task) /\ task' = Notify(t)
  BY DEF SpircInv, ActivateCommand
<1>2. Holds(task, t) /\ Good(t)
  BY <1>1, ActivateHolds DEF Holds
<1> HIDE DEF t
<1>3. Holds(task, Notify(t))
  BY <1>1, <1>2, NotifyHolds, HoldsTrans
<1>4. QED
  BY <1>1, <1>3, HoldsStepped

LEMMA TransferStep ==
  ASSUME SpircInv, TransferRequest
  PROVE  Stepped
<1>1. PICK x \in Transfers : task' = AfterCommand(HandleTransfer(task, x))
  BY DEF TransferRequest
<1>2. Good(task)
  BY DEF SpircInv
<1> DEFINE r == HandleTransfer(task, x)
<1>3. Result(task, r)
  BY <1>2, TransfersAreHandovers, HandleTransferResult
<1> HIDE DEF r
<1>4. Served(task, AfterCommand(r))
  BY <1>2, <1>3, ResultServed
<1>5. QED
  BY <1>1, <1>4 DEF Stepped, Served, r

\* A skip to a track may pass over others of the queue.
LEMMA SkipNextStep ==
  ASSUME SpircInv, SkipNextRequest
  PROVE  Stepped
<1>1. PICK u \in Uris : task' = AfterRequest(HandleNext(task, u))
  BY DEF SkipNextRequest
<1>2. Good(task) /\ "skip" \in scene.inputs
  BY DEF SpircInv, SkipNextRequest, Input
<1> DEFINE r == HandleNext(task, u)
<1>3. r.ok \in BOOLEAN /\ Good(r.s)
  BY <1>2, HandleNextIs
<1> HIDE DEF r
<1>4. Good(AfterRequest(r))
  BY <1>3, AfterGood
<1>5. QED
  BY <1>1, <1>2, <1>4 DEF Stepped, Edits, r

LEMMA SetQueueStep ==
  ASSUME SpircInv, SetQueueRequest
  PROVE  Stepped
<1> DEFINE v == task.cs.next
           U == IF Len(v) < MaxSent THEN Uris ELSE {}
           most == [i \in 1..MaxSent |->
                      Provided(task.cs.track.uri, "queue", -1)]
<1>1. PICK next \in {RemoveAt(v, i) : i \in DOMAIN v}
                 \cup {<<Provided(u, "queue", -1)>> \o v : u \in U},
           p \in {task.cs.prev, most} :
        task' = [task EXCEPT !.updateState = TRUE,
                   !.cs = HandleSetQueue(task.cs, next, p)]
  BY DEF SetQueueRequest
<1>2. /\ task \in Task /\ Bounded(task.cs) /\ "setQueue" \in scene.inputs
      /\ v \in Seq(Track) /\ Len(v) <= MaxSent /\ MaxSent \in Nat
      /\ Limit(MaxNext) = MaxSent /\ Limit(MaxPrev) = MaxSent
  BY Limits DEF SpircInv, Good, Bounded, State, SetQueueRequest, Input
<1>3. next \in Seq(Track) /\ Len(next) <= MaxSent
  <2> HIDE DEF v
  <2>1. ASSUME NEW i \in DOMAIN v
        PROVE  RemoveAt(v, i) \in Seq(Track) /\ Len(RemoveAt(v, i)) <= MaxSent
    <3> DEFINE a == SubSeq(v, 1, i - 1)
               b == SubSeq(v, i + 1, Len(v))
    <3>1. i \in 1..Len(v)
      BY <1>2
    <3>2. a \in Seq(Track) /\ Len(a) = i - 1
      BY <1>2, <3>1
    <3>3. b \in Seq(Track) /\ Len(b) = Len(v) - i
      BY <1>2, <3>1
    <3>4. RemoveAt(v, i) = a \o b
      BY DEF RemoveAt
    <3> HIDE DEF a, b
    <3>5. a \o b \in Seq(Track) /\ Len(a \o b) = Len(a) + Len(b)
      BY <3>2, <3>3
    <3>6. QED
      BY <1>2, <3>1, <3>2, <3>3, <3>4, <3>5
  <2>2. ASSUME NEW u \in U
        PROVE  /\ <<Provided(u, "queue", -1)>> \o v \in Seq(Track)
               /\ Len(<<Provided(u, "queue", -1)>> \o v) <= MaxSent
    <3> DEFINE q == Provided(u, "queue", -1)
    <3>1. Len(v) < MaxSent /\ u \in Uris
      OBVIOUS
    <3>2. q \in Track
      <4>1. Delimiter.ci \in Int /\ Delimiter.ci = -1
        BY Constants DEF Track, Delimiter, Provided
      <4>2. QED
        BY <3>1, <4>1 DEF Provided, Track
    <3> HIDE DEF q
    <3>3. <<q>> \o v \in Seq(Track) /\ Len(<<q>> \o v) = Len(v) + 1
      BY <1>2, <3>2
    <3>4. Len(<<q>> \o v) <= MaxSent
      BY <1>2, <3>1, <3>3
    <3>5. QED
      BY <3>3, <3>4 DEF q
  <2>3. QED
    BY <1>1, <2>1, <2>2
<1> DEFINE s == HandleSetQueue(task.cs, next, p)
<1>4. p \in Seq(Track) /\ Len(p) <= MaxSent /\ task.cs \in State
  <2>1. /\ task.cs \in State /\ task.cs.track \in Track
        /\ task.cs.prev \in Seq(Track) /\ Len(task.cs.prev) <= MaxSent
    BY <1>2 DEF Bounded, State
  <2> DEFINE q == Provided(task.cs.track.uri, "queue", -1)
  <2>2. q \in Track
    <3>1. Delimiter.ci \in Int /\ Delimiter.ci = -1
      BY Constants DEF Track, Delimiter, Provided
    <3>2. QED
      BY <2>1, <3>1 DEF Provided, Track
  <2> HIDE DEF q
  <2>3. most = [i \in 1..MaxSent |-> q]
    BY DEF q
  <2> HIDE DEF most
  <2>4. most \in [1..MaxSent -> Track]
    BY <2>2, <2>3
  <2>5. most \in Seq(Track) /\ Len(most) = MaxSent
    BY <1>2, <2>3, <2>4
  <2>6. QED
    BY <1>1, <1>2, <2>1, <2>5
<1>5. Bounded(s)
  <2>1. s \in State /\ s.next = next /\ s.prev = p
    BY <1>3, <1>4 DEF HandleSetQueue, State
  <2> HIDE DEF s
  <2>2. QED
    BY <1>2, <1>3, <1>4, <2>1 DEF Bounded
<1> HIDE DEF s
<1>6. task' = [task EXCEPT !.updateState = TRUE, !.cs = s]
  BY <1>1 DEF s
<1>7. task' \in Task /\ task'.cs = s
  BY <1>2, <1>5, <1>6 DEF Task, Bounded
<1>8. Good(task')
  BY <1>5, <1>7 DEF Good
<1>9. QED
  BY <1>2, <1>8 DEF Stepped, Edits

LEMMA ContextChangedStep ==
  ASSUME SpircInv, ContextChanged
  PROVE  Stepped
<1>1. Good(task) /\ task.cs.uri \in Text /\ task.cs.track \in Track
  BY DEF SpircInv, Good, Bounded, State
<1> DEFINE e1 == Resolve("", "", "default", "replace")
           e2 == Resolve(task.cs.uri, task.cs.track.uri, "default", "replace")
<1>2. task' = ResolverAdd(task, e1) \/ task' = ResolverAdd(task, e2)
  BY DEF ContextChanged
<1>3. e1 \in Entry /\ e2 \in Entry
  <2>1. "" \in Text /\ "default" \in ContextType /\ task.cs.track.uri \in Text
    BY <1>1, TrackUri DEF Text, ContextType
  <2>2. QED
    BY <1>1, <2>1, ResolveIs
<1> HIDE DEF e1, e2
<1>4. Holds(task, task')
  BY <1>1, <1>2, <1>3, ResolverAddHolds
<1>5. QED
  BY <1>1, <1>4, HoldsStepped

LEMMA AutoplayToggledStep ==
  ASSUME SpircInv, AutoplayToggled
  PROVE  Stepped
<1> DEFINE t == [task EXCEPT !.autoplay = ~task.autoplay]
<1>1. Good(task) /\ task \in Task
  BY DEF SpircInv, Good
<1>2. t \in Task /\ t.cs = task.cs
  BY <1>1 DEF Task
<1>3. task' = AddAutoplayWhenRequired(t)
  BY DEF AutoplayToggled
<1> HIDE DEF t
<1>4. Holds(task, t) /\ Good(t)
  BY <1>1, <1>2, SameCs DEF Holds
<1>5. Holds(task, task')
  BY <1>1, <1>3, <1>4, AddAutoplayHolds, HoldsTrans
<1>6. QED
  BY <1>1, <1>5, HoldsStepped

\* A device that is not active any more has no queue to keep.
LEMMA InactiveStepped ==
  ASSUME Good(task'), ~task'.cs.active
  PROVE  Stepped
BY DEF Stepped, Served

LEMMA ClusterUpdateStep ==
  ASSUME SpircInv, ClusterUpdate
  PROVE  Stepped
<1>1. Good(task) /\ task \in Task
  BY DEF SpircInv, Good
<1>2. ASSUME NEW net \in Net,
             task' = IF HandleDisconnect(task, net).ok
                     THEN HandleStop(HandleDisconnect(task, net).s)
                     ELSE HandleDisconnect(task, net).s
      PROVE  Stepped
  <2> DEFINE r == HandleDisconnect(task, net)
             x == r.s
  <2>1. /\ r.ok \in BOOLEAN /\ Good(x) /\ (~x.cs.active \/ Holds(task, x))
        /\ r.ok => ~x.cs.active
    BY <1>1, DisconnectIs
  <2>2. task' = IF r.ok THEN HandleStop(x) ELSE x
    BY <1>2
  <2> HIDE DEF r, x
  <2>3. CASE r.ok
    <3>1. Good(HandleStop(x)) /\ ~HandleStop(x).cs.active
      BY <2>1, <2>3, StopHolds DEF Holds
    <3>2. QED
      BY <2>2, <2>3, <3>1, InactiveStepped
  <2>4. CASE ~r.ok
    BY <1>1, <2>1, <2>2, <2>4, InactiveStepped, HoldsStepped
  <2>5. QED
    BY <2>3, <2>4
<1>3. CASE task' = [task EXCEPT !.cs = BecameInactive(task.cs)]
  <2> DEFINE s == BecameInactive(task.cs)
  <2>1. Bounded(s) /\ ~s.active
    BY <1>1, BecameInactiveIs DEF Good
  <2> HIDE DEF s
  <2>2. task' = [task EXCEPT !.cs = s]
    BY <1>3 DEF s
  <2>3. Good(task') /\ task'.cs = s
    BY <1>1, <2>1, <2>2, PutGood
  <2>4. QED
    BY <2>1, <2>3, InactiveStepped
<1>4. CASE task' = [task EXCEPT !.updateState = TRUE]
  <2>1. task' \in Task /\ task'.cs = task.cs
    BY <1>1, <1>4 DEF Task
  <2>2. QED
    BY <1>1, <2>1, SameStepped
<1>5. QED
  BY <1>2, <1>3, <1>4 DEF ClusterUpdate

LEMMA DisconnectStep ==
  ASSUME SpircInv, DisconnectCommand
  PROVE  Stepped
<1>1. Good(task)
  BY DEF SpircInv
<1>2. PICK pause \in BOOLEAN, net \in Net :
        task' = HandleDisconnect(IF pause THEN HandlePause(task) ELSE task,
                                 net).s
  BY DEF DisconnectCommand
<1> DEFINE t == IF pause THEN HandlePause(task) ELSE task
<1>3. Holds(task, t) /\ Good(t)
  BY <1>1, PauseHolds, HoldsRefl DEF Holds
<1>4. task' = HandleDisconnect(t, net).s
  BY <1>2
<1> HIDE DEF t
<1>5. Good(task') /\ (~task'.cs.active \/ Holds(t, task'))
  BY <1>3, <1>4, DisconnectIs
<1>6. QED
  BY <1>1, <1>3, <1>5, InactiveStepped, HoldsStepped, HoldsTrans

LEMMA ShutdownStep ==
  ASSUME SpircInv, Shutdown
  PROVE  Stepped
<1>1. Good(task)
  BY DEF SpircInv
<1>2. ASSUME NEW y, NEW b \in BOOLEAN, Good(y),
             ~y.cs.active \/ Holds(task, y), task' = [y EXCEPT !.ended = b]
      PROVE  Stepped
  <2>1. task' \in Task /\ task'.cs = y.cs
    BY <1>2 DEF Good, Task
  <2>2. Holds(y, task')
    BY <1>2, <2>1, SameCs
  <2>3. CASE ~y.cs.active
    BY <2>1, <2>2, <2>3, InactiveStepped DEF Holds
  <2>4. CASE Holds(task, y)
    BY <1>1, <2>2, <2>4, HoldsTrans, HoldsStepped
  <2>5. QED
    BY <1>2, <2>3, <2>4
<1>3. PICK net \in Net :
        \/ task' = [HandleDisconnect(HandlePause(task), net).s EXCEPT
                      !.ended = HandleDisconnect(HandlePause(task), net).ok]
        \/ task' = [IF task.cs.active THEN HandleDisconnect(task, net).s
                    ELSE task EXCEPT !.ended = TRUE]
  BY DEF Shutdown
<1> DEFINE t == HandlePause(task)
           r == HandleDisconnect(t, net)
           x == r.s
           b == r.ok
           q == HandleDisconnect(task, net)
           y == IF task.cs.active THEN q.s ELSE task
<1>4. task' = [x EXCEPT !.ended = b] \/ task' = [y EXCEPT !.ended = TRUE]
  BY <1>3
<1>5. Holds(task, t) /\ Good(t)
  BY <1>1, PauseHolds DEF Holds
<1> HIDE DEF t
<1>6. Good(x) /\ (~x.cs.active \/ Holds(t, x)) /\ b \in BOOLEAN
  BY <1>5, DisconnectIs
<1>7. Good(y) /\ (~y.cs.active \/ Holds(task, y))
  <2>1. Good(q.s) /\ (~q.s.cs.active \/ Holds(task, q.s))
    BY <1>1, DisconnectIs
  <2> HIDE DEF q
  <2>2. QED
    BY <1>1, <2>1, HoldsRefl
<1> HIDE DEF x, y, b
<1>8. ~x.cs.active \/ Holds(task, x)
  BY <1>1, <1>5, <1>6, HoldsTrans
<1>9. QED
  BY <1>2, <1>4, <1>6, <1>7, <1>8

LEMMA DelayStep ==
  ASSUME SpircInv, StateDelay \/ VolumeDelay
  PROVE  Stepped
<1>1. Good(task) /\ task \in Task
  BY DEF SpircInv, Good
<1> DEFINE a == [task EXCEPT !.updateState = FALSE]
           b == [task EXCEPT !.updateVolume = FALSE]
<1>2. task' = Notify(a) \/ task' = Notify(b)
  BY DEF StateDelay, VolumeDelay
<1>3. a \in Task /\ a.cs = task.cs /\ b \in Task /\ b.cs = task.cs
  BY <1>1 DEF Task
<1> HIDE DEF a, b
<1>4. Holds(task, a) /\ Good(a) /\ Holds(task, b) /\ Good(b)
  BY <1>1, <1>3, SameCs DEF Holds
<1>5. Holds(task, task')
  BY <1>1, <1>2, <1>4, NotifyHolds, HoldsTrans
<1>6. QED
  BY <1>1, <1>5, HoldsStepped

LEMMA MixerTurnedStep ==
  ASSUME SpircInv, MixerTurned
  PROVE  Stepped
<1>1. Good(task) /\ task \in Task
  BY DEF SpircInv, Good
<1>2. PICK v \in 0..MaxVolume : task' = [task EXCEPT !.mixer = v]
  BY DEF MixerTurned
<1>3. task' \in Task /\ task'.cs = task.cs
  BY <1>1, <1>2 DEF Task
<1>4. QED
  BY <1>1, <1>3, SameStepped

LEMMA NextContextStep ==
  ASSUME SpircInv, NextContext
  PROVE  Stepped
<1>1. Good(task) /\ HasNext(task)
  BY DEF SpircInv, NextContext
<1>2. PICK a \in Answers(task), how \in Arrangements :
        task' = IF HandleNextContext(task, a, how).done
                THEN Notify(HandleNextContext(task, a, how).t)
                ELSE HandleNextContext(task, a, how).t
  BY DEF NextContext
<1>3. a \in Seq(Page)
  <2> DEFINE u == FindNext(task).uri
             C == IF u \in DOMAIN Content THEN Content[u] ELSE {}
  <2>1. a \in {NoAnswer} \cup Stations \cup C
    BY DEF Answers
  <2> HIDE DEF u
  <2>2. QED
    BY <2>1, AnswersArePages
<1> DEFINE h == HandleNextContext(task, a, how)
           t == h.t
<1>4. Holds(task, t) /\ Good(t)
  BY <1>1, <1>3, NextContextHolds DEF Holds
<1>5. task' = Notify(t) \/ task' = t
  BY <1>2
<1> HIDE DEF t
<1>6. Holds(task, task')
  BY <1>1, <1>4, <1>5, NotifyHolds, HoldsTrans
<1>7. QED
  BY <1>1, <1>6, HoldsStepped

LEMMA HourPassesStep ==
  ASSUME SpircInv, HourPasses
  PROVE  Stepped
<1>1. Good(task) /\ task \in Task /\ task' = [task EXCEPT !.refused = {}]
  BY DEF SpircInv, Good, HourPasses
<1>2. task' \in Task /\ task'.cs = task.cs
  BY <1>1 DEF Task
<1>3. QED
  BY <1>1, <1>2, SameStepped

\* An event of the player is read.
LEMMA HandlePlayerEventStep ==
  ASSUME SpircInv, HandlePlayerEvent
  PROVE  Stepped /\ pev' \in Seq(Events)
<1> DEFINE e == Head(pev)
<1>1. /\ Good(task) /\ pev \in Seq(Events) /\ pev # <<>> /\ pev' = Tail(pev)
      /\ task' = PlayerEvent(task, e)
  BY DEF SpircInv, HandlePlayerEvent
<1>2. e \in Events /\ pev' \in Seq(Events)
  BY <1>1
<1> HIDE DEF e
<1>3. /\ e \in EventRecord
      /\ e.event = "Unavailable" => "unavailable" \in scene.inputs
  BY <1>2 DEF Events
<1>4. Good(task') /\ (e.event # "Unavailable" => Served(task, task'))
  BY <1>1, <1>3, PlayerEventIs
<1>5. QED
  BY <1>2, <1>3, <1>4 DEF Stepped, Edits

-----------------------------------------------------------------------------
(* The player's steps                                                      *)

\* What a step of the player does.
Played ==
  Stepped /\ pl' \in Playback /\ pev' \in Seq(Events) /\ scene' = scene

LEMMA TookIs ==
  ASSUME SpircInv, NEW c, Took(c)
  PROVE  Stepped /\ Head(task.cmds) \in Cmd
<1> DEFINE w == Tail(task.cmds)
<1>1. /\ Good(task) /\ task \in Task /\ task.cmds \in Seq(Cmd)
      /\ task.cmds # <<>> /\ task' = [task EXCEPT !.cmds = w]
  BY DEF SpircInv, Good, Task, Took
<1>2. w \in Seq(Cmd) /\ Head(task.cmds) \in Cmd
  BY <1>1
<1> HIDE DEF w
<1>3. task' \in Task /\ task'.cs = task.cs
  BY <1>1, <1>2 DEF Task
<1>4. QED
  BY <1>1, <1>2, <1>3, SameStepped

LEMMA IdleStepped ==
  ASSUME SpircInv, task' = task
  PROVE  Stepped
<1>1. Good(task) /\ task' \in Task /\ task'.cs = task.cs
  BY DEF SpircInv, Good
<1>2. QED
  BY <1>1, SameStepped

LEMMA EventIs ==
  ASSUME NEW p \in Playback, NEW name \in PlayerStatus \cup {"PlayRequestIdChanged"},
         name = "Unavailable" => "unavailable" \in scene.inputs
  PROVE  Event(name, p) \in Events
<1> DEFINE e == Event(name, p)
<1>1. e \in EventRecord /\ e.event = name
  BY DEF Event, EventRecord, Playback
<1>2. QED
  BY <1>1 DEF Events

LEMMA AnnounceIs ==
  ASSUME SpircInv, NEW p \in Playback, p.status \in PlayerStatus,
         p.status = "Unavailable" => "unavailable" \in scene.inputs,
         NEW more \in Seq(Events), Announce(p, more)
  PROVE  pl' \in Playback /\ pev' \in Seq(Events) /\ scene' = scene
<1> DEFINE st == p.status
           e == Event(st, p)
<1>1. e \in Events
  <2> HIDE DEF st
  <2>1. st \in PlayerStatus /\ (st = "Unavailable" => "unavailable" \in scene.inputs)
    BY DEF st
  <2>2. QED
    BY <2>1, EventIs
<1>2. /\ pl' = p /\ pev' = pev \o more \o <<e>> /\ scene' = scene
      /\ pev \in Seq(Events)
  BY DEF Announce, SpircInv
<1> HIDE DEF e
<1>3. pev \o more \o <<e>> \in Seq(Events)
  BY <1>1, <1>2
<1>4. QED
  BY <1>2, <1>3

LEMMA PlayerLoadsStep ==
  ASSUME SpircInv, PlayerLoads
  PROVE  Played
<1> DEFINE c == Head(task.cmds)
           p == [status |-> "Loading", id |-> pl.id + 1, track |-> c.track,
                 play |-> c.play]
           e == Event("PlayRequestIdChanged", p)
           more == <<e>>
<1>1. Took("Load") /\ Announce(p, more)
  BY DEF PlayerLoads
<1>2. Stepped /\ c \in Cmd
  BY <1>1, TookIs
<1> HIDE DEF c
<1>3. p \in Playback /\ p.status \in PlayerStatus /\ p.status # "Unavailable"
  <2>1. c.track \in Text /\ c.play \in BOOLEAN
    BY <1>2 DEF Cmd
  <2>2. pl.id + 1 \in Nat
    BY DEF SpircInv, Playback
  <2>3. QED
    BY <2>1, <2>2 DEF Playback, PlayerStatus
<1> HIDE DEF p
<1>4. e \in Events
  BY <1>3, EventIs
<1> HIDE DEF e
<1>5. more \in Seq(Events)
  BY <1>4
<1> HIDE DEF more
<1>6. QED
  BY <1>1, <1>2, <1>3, <1>5, AnnounceIs DEF Played

\* The player turns to a status other than unavailable.
LEMMA StatusStep ==
  ASSUME SpircInv, NEW st \in PlayerStatus,
         st = "Unavailable" => "unavailable" \in scene.inputs,
         Announce([pl EXCEPT !.status = st], <<>>)
  PROVE  pl' \in Playback /\ pev' \in Seq(Events) /\ scene' = scene
<1> DEFINE p == [pl EXCEPT !.status = st]
           more == <<>>
<1>1. p \in Playback /\ p.status = st
  BY DEF SpircInv, Playback
<1>2. more \in Seq(Events)
  OBVIOUS
<1>3. Announce(p, more)
  OBVIOUS
<1> HIDE DEF p, more
<1>4. QED
  BY <1>1, <1>2, <1>3, AnnounceIs

LEMMA PlayerTogglesStep ==
  ASSUME SpircInv, PlayerToggles
  PROVE  Played
<1>1. PICK c \in {"Play", "Pause"} :
        /\ Took(c)
        /\ LET st == IF c = "Play" THEN "Playing" ELSE "Paused"
           IN IF pl.status \in {"Playing", "Paused"} /\ pl.status # st
              THEN Announce([pl EXCEPT !.status = st], <<>>) /\ Protocol!Toggle
              ELSE /\ pl' = [pl EXCEPT !.play = IF pl.status = "Loading"
                                                THEN c = "Play" ELSE @]
                   /\ UNCHANGED <<pev, scene>>
  BY DEF PlayerToggles
<1> DEFINE st == IF c = "Play" THEN "Playing" ELSE "Paused"
           b == IF pl.status = "Loading" THEN c = "Play" ELSE pl.play
<1>2. Stepped
  BY <1>1, TookIs
<1>3. \/ Announce([pl EXCEPT !.status = st], <<>>)
      \/ pl' = [pl EXCEPT !.play = b] /\ pev' = pev /\ scene' = scene
  BY <1>1
<1>4. st \in PlayerStatus /\ st # "Unavailable"
  BY DEF PlayerStatus
<1>5. pl \in Playback /\ pev \in Seq(Events) /\ pl.play \in BOOLEAN
  BY DEF SpircInv, Playback
<1>6. b \in BOOLEAN
  BY <1>5
<1> HIDE DEF st, b
<1>7. CASE Announce([pl EXCEPT !.status = st], <<>>)
  BY <1>2, <1>4, <1>7, StatusStep DEF Played
<1>8. CASE pl' = [pl EXCEPT !.play = b] /\ pev' = pev /\ scene' = scene
  <2>1. pl' \in Playback
    BY <1>5, <1>6, <1>8 DEF Playback
  <2>2. QED
    BY <1>2, <1>5, <1>8, <2>1 DEF Played
<1>9. QED
  BY <1>3, <1>7, <1>8

LEMMA PlayerStopsStep ==
  ASSUME SpircInv, PlayerStops
  PROVE  Played
<1>1. Took("Stop") /\ Stepped
  BY TookIs DEF PlayerStops
<1>2. \/ pl' = pl /\ pev' = pev /\ scene' = scene
      \/ Announce([pl EXCEPT !.status = "Stopped"], <<>>)
  BY DEF PlayerStops
<1>3. pl \in Playback /\ pev \in Seq(Events) /\ "Stopped" \in PlayerStatus
  BY DEF SpircInv, PlayerStatus
<1>4. CASE pl' = pl /\ pev' = pev /\ scene' = scene
  BY <1>1, <1>3, <1>4 DEF Played
<1>5. CASE Announce([pl EXCEPT !.status = "Stopped"], <<>>)
  BY <1>1, <1>3, <1>5, StatusStep DEF Played
<1>6. QED
  BY <1>2, <1>4, <1>5

LEMMA PlayerGoesStep ==
  ASSUME SpircInv, PlayerBegins \/ PlayerFails \/ PlayerEnds
  PROVE  Played
<1>1. CASE PlayerBegins
  <2> DEFINE st == IF pl.play THEN "Playing" ELSE "Paused"
  <2>1. Announce([pl EXCEPT !.status = st], <<>>) /\ task' = task
    BY <1>1 DEF PlayerBegins
  <2>2. st \in PlayerStatus /\ st # "Unavailable"
    BY DEF PlayerStatus
  <2> HIDE DEF st
  <2>3. QED
    BY <2>1, <2>2, StatusStep, IdleStepped DEF Played
<1>2. CASE PlayerFails
  <2>1. /\ Announce([pl EXCEPT !.status = "Unavailable"], <<>>)
        /\ task' = task /\ "unavailable" \in scene.inputs
    BY <1>2 DEF PlayerFails, Input
  <2>2. "Unavailable" \in PlayerStatus
    BY DEF PlayerStatus
  <2>3. QED
    BY <2>1, <2>2, StatusStep, IdleStepped DEF Played
<1>3. CASE PlayerEnds
  <2>1. Announce([pl EXCEPT !.status = "EndOfTrack"], <<>>) /\ task' = task
    BY <1>3 DEF PlayerEnds
  <2>2. "EndOfTrack" \in PlayerStatus
    BY DEF PlayerStatus
  <2>3. QED
    BY <2>1, <2>2, StatusStep, IdleStepped DEF Played
<1>4. QED
  BY <1>1, <1>2, <1>3

-----------------------------------------------------------------------------
(* Every step                                                              *)

LEMMA NextPlayed ==
  ASSUME SpircInv, [SpircNext]_vars
  PROVE  Played
<1>1. pl \in Playback /\ pev \in Seq(Events)
  BY DEF SpircInv
<1>2. ASSUME Stepped, Quiet PROVE Played
  BY <1>1, <1>2 DEF Played, Quiet
<1>3. CASE ConnectionId
  BY <1>2, <1>3, ConnectionIdStep DEF ConnectionId
<1>4. CASE LoadCommand \/ PlayRequest
  BY <1>2, <1>4, LoadStep DEF LoadCommand, PlayRequest
<1>5. CASE ActivateCommand
  BY <1>2, <1>5, ActivateStep DEF ActivateCommand
<1>6. ASSUME NEW kind \in Kinds, Command(kind) PROVE Played
  BY <1>2, <1>6, CommandStep DEF Command
<1>7. ASSUME NEW kind \in Kinds, Request(kind) PROVE Played
  BY <1>2, <1>7, RequestStep DEF Request
<1>8. CASE TransferRequest
  BY <1>2, <1>8, TransferStep DEF TransferRequest
<1>9. CASE SkipNextRequest
  BY <1>2, <1>9, SkipNextStep DEF SkipNextRequest
<1>10. CASE SetQueueRequest
  BY <1>2, <1>10, SetQueueStep DEF SetQueueRequest
<1>11. CASE ContextChanged
  BY <1>2, <1>11, ContextChangedStep DEF ContextChanged
<1>12. CASE AutoplayToggled
  BY <1>2, <1>12, AutoplayToggledStep DEF AutoplayToggled
<1>13. CASE ClusterUpdate
  BY <1>2, <1>13, ClusterUpdateStep DEF ClusterUpdate
<1>14. CASE DisconnectCommand
  BY <1>2, <1>14, DisconnectStep DEF DisconnectCommand
<1>15. CASE Shutdown
  BY <1>2, <1>15, ShutdownStep DEF Shutdown
<1>16. CASE StateDelay \/ VolumeDelay
  BY <1>2, <1>16, DelayStep DEF StateDelay, VolumeDelay
<1>17. CASE MixerTurned
  BY <1>2, <1>17, MixerTurnedStep DEF MixerTurned
<1>18. CASE NextContext
  BY <1>2, <1>18, NextContextStep DEF NextContext
<1>19. CASE HourPasses
  BY <1>2, <1>19, HourPassesStep DEF HourPasses
<1>20. CASE HandlePlayerEvent
  BY <1>1, <1>20, HandlePlayerEventStep DEF HandlePlayerEvent, Played
<1>21. CASE PlayerLoads
  BY <1>21, PlayerLoadsStep
<1>22. CASE PlayerToggles
  BY <1>22, PlayerTogglesStep
<1>23. CASE PlayerStops
  BY <1>23, PlayerStopsStep
<1>24. CASE PlayerBegins \/ PlayerFails \/ PlayerEnds
  BY <1>24, PlayerGoesStep
<1>25. CASE UNCHANGED vars
  BY <1>1, <1>25, IdleStepped DEF vars, Played
<1>26. QED
  BY <1>3, <1>4, <1>5, <1>6, <1>7, <1>8, <1>9, <1>10, <1>11, <1>12, <1>13,
     <1>14, <1>15, <1>16, <1>17, <1>18, <1>19, <1>20, <1>21, <1>22, <1>23,
     <1>24, <1>25 DEF SpircNext

\* The queue as QueueStep sees it.
LEMMA MovesQueue ==
  ASSUME NEW v \in Seq(Track), NEW n \in Nat, n <= Len(v),
         \A j \in 1..n : IsQueue(v[j]), NEW w \in Seq(Track), Kept(v, w),
         "setQueue" \notin scene.inputs
  PROVE  IsPrefix(SubSeq(v, 1, n), w)
<1> DEFINE a == SubSeq(v, 1, n)
           b == SubSeq(w, 1, n)
<1>1. ASSUME NEW i \in 1..n PROVE i <= Len(w) /\ w[i] = v[i]
  <2>1. i \in 1..Len(v) /\ 1..i \subseteq 1..n
    OBVIOUS
  <2>2. QED
    BY <2>1 DEF Kept
<1>2. n <= Len(w)
  <2>1. CASE n = 0
    BY <2>1
  <2>2. CASE n # 0
    <3>1. n \in 1..n
      BY <2>2
    <3>2. QED
      BY <1>1, <3>1
  <2>3. QED
    BY <2>1, <2>2
<1>3. a \in Seq(Track) /\ Len(a) = n /\ \A i \in 1..n : a[i] = v[i]
  OBVIOUS
<1>4. b \in Seq(Track) /\ Len(b) = n /\ \A i \in 1..n : b[i] = w[i]
  BY <1>2
<1> HIDE DEF a, b
<1>5. a = b
  BY <1>1, <1>3, <1>4
<1>6. SubSeq(a, 1, Len(a)) = a
  BY <1>3
<1>7. QED
  BY <1>2, <1>3, <1>5, <1>6 DEF IsPrefix, a, b

LEMMA QueueStepHolds ==
  ASSUME Good(task), Good(task'), Moves(task, task'),
         "setQueue" \notin scene.inputs
  PROVE  QueueStep
<1> DEFINE v == task.cs.next
           w == task'.cs.next
           n == QueueEnd(task.cs) - 1
           q == Clip(v, n)
<1>1. v \in Seq(Track) /\ w \in Seq(Track)
  BY DEF Good, Bounded, State
<1>2. n \in Nat /\ n <= Len(v) /\ \A j \in 1..n : IsQueue(v[j])
  <2> DEFINE e == QueueEnd(task.cs)
  <2>1. e \in 1..(Len(v) + 1) /\ \A j \in 1..(e - 1) : IsQueue(v[j])
    BY <1>1, QueueEndIs
  <2>2. Len(v) \in Nat /\ n = e - 1
    BY <1>1
  <2> HIDE DEF e, v, n
  <2>3. QED
    BY <2>1, <2>2
<1>3. QueueStep <=> \E k \in 0..Len(q) :
                      /\ IsPrefix(SubSeq(q, k + 1, Len(q)), w)
                      /\ k > 0 => task'.cs.track = q[k]
  BY DEF QueueStep
<1>4. Moves(task, task') <=>
        \/ Kept(v, w)
        \/ /\ v # <<>> /\ IsQueue(v[1])
           /\ task'.cs.track = v[1] /\ Kept(Tail(v), w)
  BY DEF Moves
<1>5. v # <<>> /\ IsQueue(v[1]) => n > 0
  <2>1. QueueEnd(task.cs) <= Len(v) => ~IsQueue(v[QueueEnd(task.cs)])
    BY <1>1, QueueEndIs
  <2> DEFINE e == QueueEnd(task.cs)
  <2> HIDE DEF e
  <2>2. n = e - 1 /\ (e <= Len(v) => ~IsQueue(v[e]))
    BY <2>1 DEF e
  <2> HIDE DEF n, v
  <2>3. ASSUME v # <<>>, IsQueue(v[1]), n = 0 PROVE FALSE
    <3>1. e = 1 \/ ~(e \in Int)
      BY <2>2, <2>3
    <3>2. e \in Int
      BY <1>1, QueueEndIs DEF e, v
    <3>3. Len(v) >= 1
      BY <1>1, <2>3
    <3>4. QED
      BY <2>2, <2>3, <3>1, <3>2, <3>3
  <2>4. QED
    BY <1>2, <2>3
<1> HIDE DEF v, w, n
<1>6. q \in Seq(Track) /\ Len(q) = n /\ q = SubSeq(v, 1, n)
  BY <1>1, <1>2 DEF Clip
<1>7. \A i \in 1..n : q[i] = v[i]
  BY <1>1, <1>2, <1>6
<1> HIDE DEF q
<1>8. CASE Kept(v, w)
  <2>1. IsPrefix(SubSeq(v, 1, n), w)
    BY <1>1, <1>2, <1>8, MovesQueue
  <2> DEFINE y == SubSeq(v, 1, n)
             z == SubSeq(q, 0 + 1, Len(q))
  <2>2. y = q /\ z = q /\ 0 \in 0..Len(q)
    BY <1>2, <1>6
  <2>3. IsPrefix(z, w)
    <3>1. IsPrefix(y, w)
      BY <2>1
    <3> HIDE DEF y, z
    <3>2. QED
      BY <2>2, <3>1
  <2>4. QED
    BY <1>3, <2>2, <2>3
<1>9. CASE /\ v # <<>> /\ IsQueue(v[1])
           /\ task'.cs.track = v[1] /\ Kept(Tail(v), w)
  <2> DEFINE u == Tail(v)
             m == n - 1
             a == SubSeq(u, 1, m)
             b == SubSeq(q, 2, n)
  <2>1. n > 0 /\ m \in Nat
    BY <1>2, <1>5, <1>9
  <2>2. /\ u \in Seq(Track) /\ Len(u) = Len(v) - 1
        /\ \A i \in 1..Len(u) : u[i] = v[i + 1]
    BY <1>1, <1>9
  <2> HIDE DEF u
  <2>3. m <= Len(u) /\ Len(v) \in Nat
    BY <1>1, <1>2, <2>1, <2>2
  <2>4. ASSUME NEW j \in 1..m
        PROVE  j + 1 \in 1..n /\ j \in 1..Len(u) /\ u[j] = v[j + 1]
    <3>1. j + 1 \in 1..n /\ j \in 1..Len(u)
      BY <1>2, <2>1, <2>2, <2>3
    <3>2. QED
      BY <2>2, <3>1
  <2>5. \A j \in 1..m : IsQueue(u[j])
    BY <1>2, <2>4
  <2> HIDE DEF m
  <2>6. IsPrefix(a, w)
    BY <1>1, <1>9, <2>1, <2>2, <2>3, <2>5, MovesQueue DEF u
  <2>7. a = b
    <3>1. a \in Seq(Track) /\ Len(a) = m /\ \A i \in 1..m : a[i] = u[i]
      BY <2>1, <2>2, <2>3
    <3>2. b \in Seq(Track) /\ Len(b) = m /\ \A i \in 1..m : b[i] = q[i + 1]
      BY <1>2, <1>6, <2>1 DEF m
    <3> HIDE DEF a, b
    <3>3. \A i \in 1..m : a[i] = b[i]
      BY <1>7, <2>4, <3>1, <3>2
    <3>4. QED
      BY <3>1, <3>2, <3>3
  <2> DEFINE z == SubSeq(q, 1 + 1, Len(q))
  <2>8. IsPrefix(z, w)
    <3>1. z = b
      BY <1>6
    <3> HIDE DEF a, b, z
    <3>2. QED
      BY <2>6, <2>7, <3>1
  <2>9. 1 \in 0..Len(q) /\ task'.cs.track = q[1]
    BY <1>2, <1>6, <1>7, <1>9, <2>1
  <2>10. QED
    BY <1>3, <2>8, <2>9
<1>10. QED
  BY <1>4, <1>8, <1>9

LEMMA InitInv ==
  ASSUME SpircInit
  PROVE  SpircInv
<1> DEFINE t == [NewTask EXCEPT !.autoplay = scene.autoplay]
<1>1. scene \in Scenes /\ scene.autoplay \in BOOLEAN /\ task = t
  BY SpircAssumption DEF SpircInit
<1>2. <<>> \in Seq(Entry) /\ <<>> \in Seq(Cmd) /\ <<>> \in Seq(Events)
  OBVIOUS
<1>3. NewState \in State
  BY Constants
<1>4. 0 \in 0..MaxVolume /\ "Stopped" \in PlayStatus
  BY SpircAssumption DEF PlayStatus
<1>5. t \in Task /\ t.cs = NewState
  BY <1>1, <1>2, <1>3, <1>4 DEF NewTask, Task
<1> HIDE DEF t
<1>6. Bounded(NewState)
  <2>1. Len(NewState.next) = 0 /\ Len(NewState.prev) = 0
    BY DEF NewState
  <2>2. QED
    BY <1>3, <2>1, Limits DEF Bounded
<1>7. pl \in Playback
  BY DEF SpircInit, Playback, Text
<1>8. pev \in Seq(Events)
  BY <1>2 DEF SpircInit
<1>9. QED
  BY <1>1, <1>5, <1>6, <1>7, <1>8 DEF SpircInv, Good

\* The inductive invariant: in every reachable state every part of the task
\* has its type, the window is within its bounds, what a shuffle put first is
\* still there to be put back (unshuffle indexes it), a transfer that waits
\* for its context names its queued track, and a track is found unavailable
\* only where that occurs.
THEOREM SpircInvariant == SpircSpec => []SpircInv
<1>1. SpircInit => SpircInv
  BY InitInv
<1>2. SpircInv /\ [SpircNext]_vars => SpircInv'
  <2> SUFFICES ASSUME SpircInv, [SpircNext]_vars PROVE SpircInv'
    OBVIOUS
  <2>1. Played
    BY NextPlayed
  <2>2. /\ Good(task') /\ scene' = scene /\ pl' \in Playback
        /\ pev' \in Seq(Events) /\ scene \in Scenes
    BY <2>1 DEF Played, Stepped, SpircInv
  <2>3. Events' = Events
    BY <2>2 DEF Events
  <2>4. Good(task)'
    BY <2>2 DEF Good, Bounded, Limit
  <2>5. QED
    BY <2>2, <2>3, <2>4 DEF SpircInv
<1>3. QED
  BY <1>1, <1>2, PTL DEF SpircSpec

\* TypeOK holds in every reachable state: where no client sends lists of its
\* own (set_queue takes them as they come), the window never outgrows the
\* sizes the server accepts, whatever skips, queues, shuffles, refreshed
\* contexts and transfers do to it; where one does, it never outgrows the
\* longest list sent.  For any tracks, contexts and sizes of the window.
THEOREM SpircTypeOK == SpircSpec => []TypeOK
<1>1. SpircInv => TypeOK
  BY DEF SpircInv, Good, Task, Bounded, State, TypeOK
<1>2. QED
  BY <1>1, SpircInvariant, PTL

\* QueueSurvives: no step loses, reorders or overtakes a track the user has
\* queued, but the one that goes on to the first of them; whatever the server
\* answers, and however full the window is.
THEOREM QueueIsKept == SpircSpec => QueueSurvives
<1>1. SpircInv /\ [SpircNext]_vars => [QueueKept]_vars
  <2> SUFFICES ASSUME SpircInv, [SpircNext]_vars, task'.cs.active,
                      ~task'.failed, Edits \cap scene.inputs = {}
               PROVE  QueueStep
    BY DEF QueueKept, Edits
  <2>1. Good(task) /\ Served(task, task')
    BY NextPlayed DEF Played, Stepped, SpircInv
  <2>2. Good(task') /\ Moves(task, task')
    BY <2>1 DEF Served
  <2>3. "setQueue" \notin scene.inputs
    BY DEF Edits
  <2>4. QED
    BY <2>1, <2>2, <2>3, QueueStepHolds
<1>2. QED
  BY <1>1, SpircInvariant, PTL DEF SpircSpec, QueueSurvives
=============================================================================
