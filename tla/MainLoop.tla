------------------------------ MODULE MainLoop ------------------------------
(***************************************************************************)
(* The program's main loop (src/main.rs) and the discovery service that    *)
(* hands it credentials (discovery/src): one Player and one control API    *)
(* for the whole run, and one Session and one Spirc after another.         *)
(*                                                                         *)
(* The Spirc task that the loop holds runs only while the loop waits; one  *)
(* that it has given up goes on by itself.  While a Spirc is being made    *)
(* the loop looks at nothing else.  Sessions and Spircs are numbers.       *)
(***************************************************************************)
EXTENDS Integers, Sequences, FiniteSets

CONSTANTS Users,              \* users that may log in by discovery
          MaxSpircs,          \* bound: Spircs that are made
          MaxHour,            \* bound: time, in RECONNECT_RATE_LIMIT_WINDOWs
          ReconnectRateLimit, \* RECONNECT_RATE_LIMIT
          Setups              \* what the command line asks for

ASSUME SpircsAssumption == MaxSpircs \in Nat

VARIABLES loop,    \* main's locals
          spircs,  \* per Spirc: its session, whether it runs, was told to stop
          dead,    \* sessions that are invalid
          player,  \* the player: its session, whose track it plays, is it gone
          served,  \* the Spirc and the session the control API uses
          disc,    \* Discovery: its events, the user, the zeroconf task
          hour     \* Instant::now()

mainVars == <<loop, spircs, dead, player, served, disc, hour>>

None == 0
NoSpirc == [session |-> None, runs |-> FALSE, told |-> FALSE]

MainInit ==
  /\ \E s \in Setups :
       loop = [at |-> "discovery", setup |-> s, user |-> "none",
               connecting |-> FALSE, session |-> 1, spirc |-> None,
               task |-> None, made |-> 0, times |-> <<>>]
  /\ spircs = [i \in 1..MaxSpircs |-> NoSpirc]
  /\ dead = {}
  /\ player = [session |-> None, plays |-> None, gone |-> FALSE]
  /\ served = [spirc |-> None, session |-> None]
  /\ disc = [events |-> <<>>, user |-> "none", server |-> "none",
             zeroconf |-> "none"]
  /\ hour = 1

Exit(l) == [l EXCEPT !.at = "exited"]
Waiting == loop.at = "select"

-----------------------------------------------------------------------------
(* Discovery                                                               *)

\* The service is started, and retried in the first minute of uptime.
LaunchDiscovery ==
  /\ loop.at = "discovery"
  /\ \/ /\ loop.setup.discovery
        /\ disc' = [disc EXCEPT !.server = "up", !.zeroconf = "waiting"]
     \/ UNCHANGED disc
  /\ loop' = [loop EXCEPT !.at = "credentials"]
  /\ UNCHANGED <<spircs, dead, player, served, hour>>

\* handle_add_user: other requests and wrong blobs change nothing.
AddUser(u) ==
  /\ disc.server = "up" /\ loop.at # "exited" /\ Len(disc.events) < 2
  /\ disc' = [disc EXCEPT !.events = Append(@, u), !.user = u]
  /\ UNCHANGED <<loop, spircs, dead, player, served, hour>>

\* avahi_task: waits for the daemon, publishes, watches; any error is final
\* and told to the loop.
Zeroconf ==
  /\ disc.zeroconf \in {"waiting", "published"} /\ loop.at # "exited"
  /\ \/ disc' = [disc EXCEPT !.zeroconf = IF @ = "waiting" THEN "published"
                                          ELSE "waiting"]
     \/ disc' = [disc EXCEPT !.zeroconf = "failed",
                             !.events = Append(@, "error")]
  /\ UNCHANGED <<loop, spircs, dead, player, served, hour>>

-----------------------------------------------------------------------------
(* Starting                                                                *)

\* Credentials of the command line or of OAuth, or else discovery.
Begin ==
  /\ loop.at = "credentials"
  /\ \/ /\ loop.setup.credentials
        /\ loop' = [loop EXCEPT !.at = "select", !.user = "setup",
                                !.connecting = TRUE]
        /\ player' = [player EXCEPT !.session = loop.session]
     \/ /\ ~loop.setup.credentials /\ disc.server = "up"
        /\ loop' = [loop EXCEPT !.at = "select"]
        /\ player' = [player EXCEPT !.session = loop.session]
     \/ /\ disc.server # "up" \/ loop.setup.credentials  \* OAuth may fail
        /\ loop' = Exit(loop)
        /\ UNCHANGED player
  /\ UNCHANGED <<spircs, dead, served, disc, hour>>

-----------------------------------------------------------------------------
(* The branches of select!                                                 *)

TellSpirc(s, i) == IF i = None THEN s ELSE [s EXCEPT ![i].told = TRUE]

\* A user's credentials replace the Spirc and the session; what is left of
\* the Spirc task goes on in a task of its own.
Credentials ==
  /\ Waiting /\ disc.server = "up" /\ disc.events # <<>>
  /\ IF Head(disc.events) = "error" THEN loop' = Exit(loop)
                                          /\ UNCHANGED <<spircs, dead>>
     ELSE /\ loop' = [loop EXCEPT !.user = Head(disc.events), !.times = <<>>,
                        !.spirc = None, !.task = None, !.connecting = TRUE]
          /\ spircs' = TellSpirc(spircs, loop.spirc)
          /\ dead' = dead \cup {loop.session}
  /\ disc' = [disc EXCEPT !.events = Tail(@)]
  /\ UNCHANGED <<player, served, hour>>

NewSession(l, p) ==
  /\ loop' = [l EXCEPT !.session = IF l.session \in dead THEN l.session + 1
                                   ELSE @, !.at = "creating"]
  /\ player' = p

\* A session is used again only while it is valid.
Renew(l, p) ==
  /\ loop' = [l EXCEPT !.session = IF l.session \in dead THEN l.session + 1
                                   ELSE @, !.at = "creating"]
  /\ player' = [p EXCEPT !.session = loop'.session]

Connecting ==
  /\ Waiting /\ loop.connecting /\ loop.user # "none" /\ loop.made < MaxSpircs
  /\ Renew(loop, player)
  /\ UNCHANGED <<spircs, dead, served, disc, hour>>

\* Spirc::new has logged in, or has failed.
SpircNew ==
  /\ loop.at = "creating"
  /\ \/ LET i == loop.made + 1
        IN /\ spircs' = [spircs EXCEPT ![i] = [NoSpirc EXCEPT
                           !.session = loop.session, !.runs = TRUE]]
           /\ served' = [spirc |-> i, session |-> loop.session]
           /\ loop' = [loop EXCEPT !.at = "select", !.spirc = i, !.task = i,
                                   !.made = i, !.connecting = FALSE]
     \/ loop' = Exit(loop) /\ UNCHANGED <<spircs, served>>
  /\ UNCHANGED <<dead, player, disc, hour>>

\* The Spirc task has ended: its session is invalid, the dealer did not start
\* or a stream of it has ended.  The loop connects again, unless it has done
\* so too often.
SpircEnded ==
  LET recent == SelectSeq(loop.times, LAMBDA t : hour = t)
      too_often == Len(recent) > ReconnectRateLimit
  IN /\ Waiting /\ loop.task # None /\ ~loop.connecting
     /\ spircs' = [spircs EXCEPT ![loop.task].runs = FALSE]
     /\ IF too_often THEN loop' = Exit(loop) /\ UNCHANGED dead
        ELSE /\ loop' = [loop EXCEPT !.task = None, !.connecting = TRUE,
                                     !.times = Append(recent, hour)]
             /\ dead' = dead \cup {loop.session}
     /\ UNCHANGED <<player, served, disc, hour>>

\* The Spirc that the loop holds plays a track, pauses or stops.
SpircPlays ==
  /\ Waiting /\ loop.task # None /\ ~loop.connecting
  /\ \E p \in {loop.task, None} : player' = [player EXCEPT !.plays = p]
  /\ UNCHANGED <<loop, spircs, dead, served, disc, hour>>

PlayerGone ==
  /\ Waiting /\ player.gone
  /\ loop' = Exit(loop)
  /\ UNCHANGED <<spircs, dead, player, served, disc, hour>>

\* Ctrl+C: everyone is asked to stop, and waited for.
CtrlC ==
  /\ Waiting
  /\ loop' = [loop EXCEPT !.at = "stopping"]
  /\ spircs' = TellSpirc(spircs, loop.spirc)
  /\ disc' = [disc EXCEPT !.server = "none", !.zeroconf = "none"]
  /\ UNCHANGED <<dead, player, served, hour>>

\* All have stopped, or Ctrl+C was pressed again.
Stopped ==
  /\ loop.at = "stopping"
  /\ loop' = Exit(loop)
  /\ UNCHANGED <<spircs, dead, player, served, disc, hour>>

-----------------------------------------------------------------------------
(* The others                                                              *)

Running == loop.at \notin {"exited", "discovery", "credentials"}

\* A Spirc task that goes on by itself ends; also the loop's, when stopping.
\* What it still handles before it looks at its session again reaches the
\* player that all share: the command to shut down pauses it, news of another
\* active device stops it, an end of track has it play the next one.
\* handle_disconnect, at the end, leaves the player alone.
OtherSpircEnds(i) ==
  /\ Running /\ spircs[i].runs
  /\ i # loop.task \/ loop.at = "stopping"
  /\ spircs' = [spircs EXCEPT ![i].runs = FALSE]
  /\ \E p \in {player.plays, None, i} : player' = [player EXCEPT !.plays = p]
  /\ UNCHANGED <<loop, dead, served, disc, hour>>

SessionDies ==
  /\ Running /\ loop.session \notin dead
  /\ dead' = dead \cup {loop.session}
  /\ UNCHANGED <<loop, spircs, player, served, disc, hour>>

PlayerDies ==
  /\ Running /\ ~player.gone
  /\ player' = [player EXCEPT !.gone = TRUE]
  /\ UNCHANGED <<loop, spircs, dead, served, disc, hour>>

Later ==
  /\ hour < MaxHour
  /\ hour' = hour + 1
  /\ UNCHANGED <<loop, spircs, dead, player, served, disc>>

MainNext ==
  \/ LaunchDiscovery \/ Zeroconf \/ Begin \/ Credentials \/ Connecting
  \/ SpircNew \/ SpircEnded \/ SpircPlays \/ PlayerGone \/ CtrlC \/ Stopped
  \/ SessionDies \/ PlayerDies \/ Later
  \/ \E u \in Users : AddUser(u)
  \/ \E i \in 1..MaxSpircs : OtherSpircEnds(i)

MainSpec == MainInit /\ [][MainNext]_mainVars

-----------------------------------------------------------------------------
(* Properties                                                              *)

\* However logins, failures and reconnects follow each other, the Spirc that
\* the loop holds, the control API and the player use one session, the loop's,
\* and every other Spirc that still runs has been told to stop and has lost
\* its session (what it does to the player before it ends is another matter).
OneSpircServes ==
  Waiting =>
    /\ player.session = loop.session
    /\ loop.task # None =>
         /\ served = [spirc |-> loop.task, session |-> loop.session]
         /\ spircs[loop.task].session = loop.session
    /\ \A i \in 1..MaxSpircs : spircs[i].runs /\ i # loop.task =>
         spircs[i].told /\ spircs[i].session \in dead
=============================================================================
