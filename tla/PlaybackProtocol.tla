-------------------------- MODULE PlaybackProtocol --------------------------
(***************************************************************************)
(* What the event channel of the player promises to whoever listens to it  *)
(* (spirc, the control API, the event program): the order of the playback  *)
(* events of one play request.  A request is loading until it plays or is  *)
(* paused, or turns out to be unavailable; it may be paused and resumed,   *)
(* and ends once; after Stopped nothing of it is heard again; and a later  *)
(* request has a higher id.                                                *)
(***************************************************************************)
EXTENDS Naturals

CONSTANTS Tracks,   \* the track URIs
          NoTrack   \* the listener has heard of no track

VARIABLES status,  \* the last playback event
          id,      \* its play_request_id
          track    \* its track_id

pvars == <<status, id, track>>

Silent == status = "none"

PInit == Silent /\ id = 0 /\ track = NoTrack

\* The first events of a play request; a track that is at hand is not loaded.
Request ==
  /\ status' \in {"Loading", "Playing", "Paused"}
  /\ track' \in Tracks
  /\ id' \in Nat
  /\ IF Silent THEN id' >= id ELSE id' > id

Same == UNCHANGED <<id, track>>

\* A seek starts the load of the same request over.
Restart == Same /\ status \in {"Loading", "Unavailable"} /\ status' = "Loading"

Begin == Same /\ status = "Loading" /\ status' \in {"Playing", "Paused"}

\* A restarted load may find the track preloaded in the meantime.
BeginAgain ==
  Same /\ status = "Unavailable" /\ status' \in {"Playing", "Paused"}

\* EndOfTrack is also sent for a track that cannot be decoded or must not be
\* heard; such a track can still be paused and resumed.
Toggle ==
  /\ Same
  /\ status \in {"Playing", "Paused", "EndOfTrack"}
  /\ status' \in {"Playing", "Paused"}

End == Same /\ status \in {"Playing", "Paused"} /\ status' = "EndOfTrack"

Fail == Same /\ status = "Loading" /\ status' = "Unavailable"

Stop == Same /\ status \notin {"none", "Stopped"} /\ status' = "Stopped"

PNext ==
  Request \/ Restart \/ Begin \/ BeginAgain \/ Toggle \/ End \/ Fail \/ Stop

PSpec == PInit /\ [][PNext]_pvars
=============================================================================
