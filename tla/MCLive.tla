------------------------------- MODULE MCLive -------------------------------
(* The liveness of the player, of the streaming fetch and of the control API *)
(* on small instances: a behaviour is one of the part named by part, while   *)
(* the others stay where they began.  Each part has the fairness of its      *)
(* module's FairSpec.                                                        *)
EXTENDS Player, TLC

CONSTANTS
  FileSize, Initial, MinDownload, ReadAhead, Buffers, MaxCommands, MaxFailures,
  Urls, None, CoverUrl, Senders, Volumes, COVER_CACHE_SIZE, CONNECTION_QUEUE,
  MaxConnections, MaxFetches,
  t1, u1

VARIABLES
  part,  \* the part that runs
  requested, downloaded, written, streaming, tasks, commands, data, loop,
  complete, position, client, failures,
  task, sockets, view, fetches

fetchVars == <<requested, downloaded, written, streaming, tasks, commands,
               data, loop, complete, position, client, failures>>
apiVars == <<task, sockets, view, fetches>>

Fetch == INSTANCE AudioFetch
Api == INSTANCE ApiServer

\* One item, with a cover.
OneCoverUrl == t1 :> u1

LiveInit ==
  /\ part \in {"player", "fetch", "api"}
  /\ Init /\ (part # "player" => self.gapless)
  /\ Fetch!Init
  /\ Api!Init

LiveNext ==
  \/ /\ part = "player" /\ Next
     /\ UNCHANGED <<part, fetchVars, apiVars>>
  \/ /\ part = "fetch" /\ Fetch!Next
     /\ UNCHANGED <<part, vars, apiVars>>
  \/ /\ part = "api" /\ Api!Next
     /\ UNCHANGED <<part, vars, fetchVars>>

LiveSpec ==
  /\ LiveInit
  /\ [][LiveNext]_<<part, vars, fetchVars, apiVars>>
  /\ WF_vars(part = "player" /\ Poll)
  /\ WF_fetchVars(part = "fetch" /\ Fetch!ClientSteps)
  /\ WF_fetchVars(part = "fetch" /\ Fetch!Downloads)
  /\ WF_fetchVars(part = "fetch" /\ Fetch!Loop)
  /\ \A id \in Api!Ids :
       /\ WF_apiVars(part = "api" /\ Api!HandleClosed(id))
       /\ WF_apiVars(part = "api" /\ Api!WriterShutdown(id))

-----------------------------------------------------------------------------
(* The properties of the parts, which their modules define; the player's are *)
(* those of Player.                                                          *)

\* AudioFileStreaming::read and fetch_blocking: whoever sleeps on the download
\* status is woken without the help of a timeout.
SleepersWake == Fetch!SleepersWake

\* disconnect and write_connection: a client that keeps reading and whose
\* connection was dropped sees the socket close.
DroppedReaderIsTold == Api!DroppedReaderIsTold
=============================================================================
