----------------------------- MODULE MCConnect -----------------------------
(* Small instances of the Connect device.  A scene is a handful of kinds of  *)
(* input that bear on each other and how many of them may occur.             *)
EXTENDS Spirc

MCUris == {"a", "b", "c", "d", "e"}

Page(ts) == [tracks |-> ts, inline |-> TRUE, url |-> ""]
Later(u) == [tracks |-> <<>>, inline |-> FALSE, url |-> u]

\* A list in two pages, the second to be asked for, and a short one.
MCContent ==
  [x \in {"list", "more", "short"} |->
     CASE x = "short" -> {<<Page(<<"a", "b">>)>>}
       [] x = "list" -> {<<Page(<<"a", "b", "c">>), Later("more")>>}
       [] x = "more" -> {<<Page(<<"d">>)>>}]
MCStations == {<<Page(<<"e">>)>>}

List(shuffle) == [uri |-> "list", index |-> 0, shuffle |-> shuffle]
Short == [uri |-> "short", index |-> 0, shuffle |-> FALSE]
Scene(in, ls, auto, n) ==
  [inputs |-> in, loads |-> ls, max |-> n, autoplay |-> auto]

Options == Scene({"load", "next", "prev", "shuffle", "repeat"},
                 {List(FALSE), List(TRUE)}, TRUE, 5)
Skips == Scene({"load", "player", "next", "pause", "play", "end"},
               {Short}, FALSE, 5)
Failures == Scene({"load", "player", "next", "prev", "end", "unavailable"},
                  {Short}, FALSE, 5)
Handovers == Scene({"transfer", "player", "next"}, {}, FALSE, 2)
QueuedHandovers == Scene({"transfer", "queue", "next"}, {}, FALSE, 3)
Departures == Scene({"load", "player", "cluster", "disconnect", "shutdown",
                     "activate", "end", "play", "next"}, {Short}, FALSE, 4)
Queues == Scene({"load", "next", "queue", "setQueue", "autoplay", "hour",
                 "skip"}, {List(FALSE)}, TRUE, 4)
Refreshes == Scene({"load", "next", "queue", "context", "hour"},
                   {List(FALSE)}, TRUE, 4)
Volumes == Scene({"load", "volume", "play", "pause", "playPause",
                  "repeatTrack", "end", "player"}, {Short}, FALSE, 4)

MCScenes == {Options, Skips, Failures, Handovers, QueuedHandovers, Departures,
             Queues, Refreshes, Volumes}
SkipScenes == {Skips}
BackScenes == {Scene({"load", "next", "prev"}, {List(FALSE)}, FALSE, 4)}

\* A context to resolve, tracks that come along, a queued track playing with
\* shuffle on, and no context at all.
Handed == [uri |-> "", track |-> "b", tracks |-> <<>>, queue |-> <<>>,
           playingQueue |-> FALSE, paused |-> FALSE, shuffle |-> FALSE,
           initial |-> NoInitial]
MCTransfers ==
  {[Handed EXCEPT !.uri = "list"],
   [Handed EXCEPT !.tracks = <<"a", "b">>, !.queue = <<"c">>, !.paused = TRUE],
   [Handed EXCEPT !.uri = "short", !.track = "a", !.queue = <<"c", "b">>,
                  !.playingQueue = TRUE, !.shuffle = TRUE, !.initial = "b"],
   Handed}
=============================================================================
