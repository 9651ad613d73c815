----------------------------- MODULE AudioFetch -----------------------------
(***************************************************************************)
(* Streaming one audio file, audio/src/fetch/: three kinds of actors share *)
(* the download status (the requested and the downloaded bytes, under a    *)
(* mutex with a condition variable).                                       *)
(*                                                                         *)
(*   - the client: the thread that decodes the file (AudioFileStreaming:   *)
(*     read, seek) and drives the download (StreamLoaderController);       *)
(*   - the fetch loop: the audio_file_fetch task, which turns commands     *)
(*     into range requests, writes what they bring to the temporary file   *)
(*     and prefetches while there is a download slot;                      *)
(*   - one receive_data task per range request.                            *)
(*                                                                         *)
(* A step is what an actor does between two points where another one can   *)
(* interfere: taking the lock, sleeping on the condition variable, taking  *)
(* a message from a channel, or writing to the file.                       *)
(*                                                                         *)
(* Bytes are small numbers and a range is a set of consecutive bytes; that *)
(* RangeSet computes with sets of bytes is the subject of module RangeSet. *)
(* Throughput and ping time only decide how much more than needed is       *)
(* requested, so that amount is chosen freely.                             *)
(***************************************************************************)
EXTENDS Naturals, Sequences

CONSTANTS FileSize,     \* the size of the file, from Content-Range
          Initial,      \* the bytes of the request made by open
          MinDownload,  \* minimum_download_size
          ReadAhead,    \* bytes of read_ahead_during_playback
          Buffers,      \* the lengths of the buffers given to read
          MaxCommands,  \* bound: commands in the channel when one is sent
          MaxFailures   \* bound: failing requests and writes

ASSUME FetchAssumption ==
  /\ FileSize \in Nat \ {0}
  /\ Initial \in 1 .. FileSize
  /\ MinDownload \in Nat
  /\ ReadAhead \in Nat \ {0}
  /\ Buffers \subseteq Nat \ {0}
  /\ MaxCommands \in Nat
  /\ MaxFailures \in Nat

VARIABLES requested,   \* download_status.requested
          downloaded,  \* download_status.downloaded
          written,     \* the bytes the temporary file holds
          streaming,   \* download_streaming
          tasks,       \* the running receive_data tasks
          commands,    \* the channel from the client to the fetch loop
          data,        \* the channel from the tasks to the fetch loop
          loop,        \* where the fetch loop is
          complete,    \* the file was handed over to be cached
          position,    \* the client's read position
          client,      \* what the client is doing
          failures     \* failing requests and writes so far

vars == <<requested, downloaded, written, streaming, tasks, commands, data,
          loop, complete, position, client, failures>>

status == <<requested, downloaded, written>>

-----------------------------------------------------------------------------
(* Ranges. *)

File == 0 .. FileSize - 1

\* Mutant: a range is not cut off at the end of the file.
MutantBytes(start, length) ==
  IF length = 0 THEN {} ELSE start .. start + length - 1

\* The bytes [start, start + length) that exist.
Bytes(start, length) == {b \in File : start <= b /\ b < start + length}

Between(a, b, c) == (a <= b /\ b <= c) \/ (c <= b /\ b <= a)

\* The range of a set of bytes that a byte belongs to: as far as it reaches
\* without a gap.  Runs are what iterating over a RangeSet yields.
Run(set, b) == {c \in set : \A d \in File : Between(b, d, c) => d \in set}
Runs(set) == {Run(set, b) : b \in set}

First(set) == CHOOSE b \in set : \A c \in set : b <= c

\* What a response may bring of a range: the bytes before some point.
Prefixes(range) ==
  {p \in SUBSET range : \A b \in p, c \in range \ p : b < c}

-----------------------------------------------------------------------------
(* The data. *)

\* A StreamingRequest and what it has brought.  It waits for the download slot,
\* receives, and at the end settles what it did not bring.  The response to the
\* request of open comes with it.
Task ==
  [range : SUBSET File, initial_response : {"Some", "None"},
   phase : {"queued", "receiving", "settling"}, got : SUBSET File]

Missing(t) == t.range \ t.got

\* A Fetch command may stand for the Fetch commands of several ranges that one
\* call sends: the loop takes them one by one, in order.
Command == [kind : {"Fetch", "Close"}, range : SUBSET File]

Fetch(range) == [kind |-> "Fetch", range |-> range]
Close == [kind |-> "Close", range |-> {}]

\* idle; asleep in read; past the lock in read with the bytes it will copy;
\* before the lock in fetch_blocking; asleep there, at first or again; gone,
\* with every sender of the command channel.
Client ==
  [pc : {"idle", "read_wait", "copy", "block_lock", "block_wait",
         "block_rewait", "gone"},
   range : SUBSET File, woken : BOOLEAN]

Idle == [pc |-> "idle", range |-> {}, woken |-> FALSE]
Does(pc, range) == [pc |-> pc, range |-> range, woken |-> FALSE]

Asleep == client.pc \in {"read_wait", "block_wait", "block_rewait"}

\* Mutant: nobody is woken up.
MutantNotify == UNCHANGED client

\* cond.notify_all, under the lock.
notify_all == client' = IF Asleep THEN [client EXCEPT !.woken = TRUE]
                                  ELSE client

\* Sending to a channel nobody receives from any more is an error, which the
\* controller ignores.
Ended == loop = "ended"
Sent(messages) == IF Ended THEN commands ELSE commands \o messages
Room(n) == Ended \/ Len(commands) + n <= MaxCommands

-----------------------------------------------------------------------------
(* The client: AudioFileStreaming. *)

\* Mutant: the buffer is filled whatever is there.
MutantAvailable(range) == range

\* Of the range asked for, what is downloaded without a gap.
Available(range) == Run(downloaded, position) \cap range

\* Read::read locks the status, asks for what is neither there nor under way,
\* and sleeps unless the first byte is there.  Without a fetch loop to ask, it
\* fails (BrokenPipe) and nothing changes.
Read(length) ==
  LET ahead == IF streaming THEN ReadAhead ELSE 0
      need  == Bytes(position, length + ahead) \ (downloaded \cup requested)
  IN /\ client.pc = "idle"
     /\ position < FileSize
     /\ need = {} \/ ~Ended
     /\ Room(1)
     /\ commands' = IF need = {} THEN commands ELSE Sent(<<Fetch(need)>>)
     /\ client' = IF position \in downloaded
                  THEN Does("copy", Available(Bytes(position, length)))
                  ELSE Does("read_wait", Bytes(position, length))
     /\ UNCHANGED <<status, streaming, tasks, data, loop, complete,
                    position, failures>>

\* Woken up, read looks for its first byte again; it asks for nothing more.
ReadWakes ==
  /\ client.pc = "read_wait"
  /\ client.woken
  /\ client' = IF position \in downloaded
               THEN Does("copy", Available(client.range))
               ELSE [client EXCEPT !.woken = FALSE]
  /\ UNCHANGED <<status, streaming, tasks, commands, data, loop, complete, position, failures>>

\* The lock is released before the bytes are copied out of the file.
Copy ==
  /\ client.pc = "copy"
  /\ position' \in {p \in position .. FileSize :
                      client.range = Bytes(position, p - position)}
  /\ client' = Idle
  /\ UNCHANGED <<status, streaming, tasks, commands, data, loop, complete, failures>>

\* Seek::seek.  Streaming mode is switched off while the file is positioned;
\* what the loop may do meanwhile it may also choose to do when it is on.
Seek(p) ==
  /\ client.pc = "idle"
  /\ position' = p
  /\ UNCHANGED <<status, streaming, tasks, commands, data, loop, complete, client, failures>>

-----------------------------------------------------------------------------
(* The client: StreamLoaderController. *)

\* set_stream_mode, set_random_access_mode.
SetStreaming(mode) ==
  /\ client.pc = "idle"
  /\ streaming' = mode
  /\ UNCHANGED <<status, tasks, commands, data, loop, complete,
                 position, client, failures>>

\* fetch_next_and_wait sends the range to request, and fetch_blocking the range
\* to wait for, before it takes the lock.
fetch_next_and_wait(request, wait) ==
  /\ client.pc = "idle"
  /\ Room(2)
  /\ commands' = Sent(<<Fetch(Bytes(position, request)),
                        Fetch(Bytes(position, wait))>>)
  /\ client' = Does("block_lock", Bytes(position, wait))
  /\ UNCHANGED <<status, streaming, tasks, data, loop, complete,
                 position, failures>>

\* fetch_blocking takes the lock: it sleeps unless all of the range is there.
BlockLock ==
  /\ client.pc = "block_lock"
  /\ client' = IF client.range \subseteq downloaded
               THEN Idle ELSE [client EXCEPT !.pc = "block_wait"]
  /\ UNCHANGED <<status, streaming, tasks, commands, data, loop, complete, position, failures>>

\* Mutant: a range that was given up on is not asked for again.
MutantBlockWakes ==
  /\ client.pc \in {"block_wait", "block_rewait"}
  /\ client.woken
  /\ client' = IF client.range \subseteq downloaded
               THEN Idle ELSE Does("block_rewait", client.range)
  /\ UNCHANGED <<status, streaming, tasks, commands, data, loop, complete,
                 position, failures>>

\* Woken up, fetch_blocking asks again for a range that is neither there nor
\* under way any more, and sleeps again unless all of it is there.
BlockWakes ==
  LET lost == ~ (client.range \subseteq downloaded \cup requested)
  IN /\ client.pc \in {"block_wait", "block_rewait"}
     /\ client.woken
     /\ lost => Room(1)
     /\ commands' = IF lost THEN Sent(<<Fetch(client.range)>>) ELSE commands
     /\ client' = IF client.range \subseteq downloaded
                  THEN Idle ELSE Does("block_rewait", client.range)
     /\ UNCHANGED <<status, streaming, tasks, data, loop, complete,
                    position, failures>>

\* A wait that times out gives up with an error, in read and fetch_blocking.
WaitTimesOut ==
  /\ Asleep
  /\ ~client.woken
  /\ client' = Idle
  /\ UNCHANGED <<status, streaming, tasks, commands, data, loop, complete, position, failures>>

\* StreamLoaderController::close.
CloseFile ==
  /\ client.pc = "idle"
  /\ ~Ended
  /\ Room(1)
  /\ commands' = Sent(<<Close>>)
  /\ UNCHANGED <<status, streaming, tasks, data, loop, complete,
                 position, client, failures>>

\* The file and its controllers are dropped; nothing is read any more.
DropFile ==
  /\ client.pc = "idle"
  /\ client' = Does("gone", {})
  /\ UNCHANGED <<status, streaming, tasks, commands, data, loop, complete,
                 position, failures>>

-----------------------------------------------------------------------------
(* The receive_data tasks. *)

SlotFree == \A t \in tasks : t.phase = "queued"

\* download_slots.acquire: there is one slot.  A slot given back may still be
\* free for the loop to see before a queued task takes it.
TakeSlot(t) ==
  /\ t.phase = "queued"
  /\ SlotFree
  /\ tasks' = (tasks \ {t}) \cup {[t EXCEPT !.phase = "receiving"]}
  /\ UNCHANGED <<status, streaming, commands, data, loop, complete, position,
                 client, failures>>

\* What a response makes the task send: the bytes and, unless the request was
\* made by open, the response time before them and the throughput after them.
\* A measurement has no bytes: the loop just goes one round.
Messages(t, got) ==
  IF t.initial_response = "Some" THEN IF got = {} THEN <<>> ELSE <<got>>
  ELSE IF got = {} THEN <<{}>> ELSE <<{}, got, {}>>

\* The response: all of the range, some of it, or (no bytes) an error.  If the
\* loop is gone a task with something to send returns at once and settles
\* nothing.
Respond(t, got) ==
  LET messages == Messages(t, got)
  IN /\ t.phase = "receiving"
     /\ got # t.range => failures < MaxFailures
     /\ failures' = IF got # t.range THEN failures + 1 ELSE failures
     /\ IF messages # <<>> /\ Ended
        THEN tasks' = tasks \ {t} /\ UNCHANGED data
        ELSE /\ tasks' = (tasks \ {t})
                          \cup {[t EXCEPT !.phase = "settling", !.got = got]}
             /\ data' = data \o messages
     /\ UNCHANGED <<status, streaming, commands, loop, complete, position,
                    client>>

\* Mutant: what a request did not bring stays requested.
MutantSettle(t) ==
  /\ t.phase = "settling"
  /\ tasks' = tasks \ {t}
  /\ UNCHANGED <<status, streaming, commands, data, loop, complete, position,
                 client, failures>>

\* What did not come is not requested any more, and sleepers are told; then the
\* slot is given back.
Settle(t) ==
  /\ t.phase = "settling"
  /\ tasks' = tasks \ {t}
  /\ requested' = requested \ Missing(t)
  /\ IF Missing(t) # {} THEN notify_all ELSE UNCHANGED client
  /\ UNCHANGED <<downloaded, written, streaming, commands, data, loop,
                 complete, position, failures>>

-----------------------------------------------------------------------------
(* The fetch loop: AudioFileFetch. *)

\* Requests are made for the runs of what is neither there nor under way.
StreamingRequest(range, initial_response) ==
  [range |-> range, initial_response |-> initial_response,
   phase |-> "queued", got |-> {}]
Requests(new) == {StreamingRequest(r, "None") : r \in Runs(new)}

\* Mutant: what is under way is requested once more.
MutantDownload(range) ==
  /\ requested' = requested \cup range
  /\ tasks' = tasks \cup Requests(range \ downloaded)

\* download_range: at least minimum_download_size bytes, and when streaming as
\* many as the throughput measured so far suggests.
download_range(range) ==
  \E throughput \in 0 .. FileSize :
    LET wanted(n) == Bytes(First(range), n)
        new == (range \cup wanted(MinDownload) \cup wanted(throughput))
                 \ (downloaded \cup requested)
    IN /\ throughput > 0 => streaming
       /\ requested' = requested \cup new
       /\ tasks' = tasks \cup Requests(new)

\* The task starts: it registers the request that open has made.
LoopStart ==
  /\ loop = "start"
  /\ requested' = requested \cup Bytes(0, Initial)
  /\ tasks' = {StreamingRequest(Bytes(0, Initial), "Some")}
  /\ loop' = "select"
  /\ UNCHANGED <<downloaded, written, streaming, commands, data, complete,
                 position, client, failures>>

\* Returning from audio_file_fetch drops the receivers of both channels.
LoopEnds ==
  /\ loop' = "ended"
  /\ commands' = <<>>
  /\ data' = <<>>

\* handle_stream_loader_command: Fetch.  The rest of the ranges sent with this
\* one are next in the channel.
LoopFetch ==
  /\ loop = "select"
  /\ commands # <<>>
  /\ Head(commands).kind = "Fetch"
  /\ LET rest == Head(commands).range
         run  == IF rest = {} THEN {} ELSE Run(rest, First(rest))
     IN /\ IF run = {} THEN UNCHANGED <<requested, tasks>>
                       ELSE download_range(run)
        /\ commands' = IF rest = run THEN Tail(commands)
                       ELSE [commands EXCEPT ![1].range = rest \ run]
  /\ loop' = "prefetch"
  /\ UNCHANGED <<downloaded, written, streaming, data, complete, position,
                 client, failures>>

\* Close, or no command is left and every sender is gone.
LoopCloses ==
  /\ loop = "select"
  /\ \/ commands # <<>> /\ Head(commands).kind = "Close"
     \/ commands = <<>> /\ client.pc = "gone"
  /\ LoopEnds
  /\ UNCHANGED <<status, streaming, tasks, complete, position, client,
                 failures>>

\* handle_file_data: a measurement.
LoopMeasures ==
  /\ loop = "select"
  /\ data # <<>>
  /\ Head(data) = {}
  /\ data' = Tail(data)
  /\ loop' = "prefetch"
  /\ UNCHANGED <<status, streaming, tasks, commands, complete, position,
                 client, failures>>

\* handle_file_data writes to the file before it takes the lock.
LoopWrite ==
  /\ loop = "select"
  /\ data # <<>>
  /\ Head(data) # {}
  /\ written' = written \cup Head(data)
  /\ loop' = "publish"
  /\ UNCHANGED <<requested, downloaded, streaming, tasks, commands, data,
                 complete, position, client, failures>>

\* An error while writing ends the loop.
LoopWriteFails ==
  /\ loop = "select"
  /\ data # <<>>
  /\ Head(data) # {}
  /\ failures < MaxFailures
  /\ failures' = failures + 1
  /\ LoopEnds
  /\ UNCHANGED <<status, streaming, tasks, complete, position, client>>

\* Mutant: the file is taken for complete when its last byte is there.
MutantFull(bytes) == FileSize - 1 \in bytes

\* contained_length_from_value(0) >= file_size.
Full(bytes) == File \subseteq bytes

\* handle_file_data publishes what it wrote; a complete file is handed over to
\* the cache (finish) and ends the loop.
LoopPublish ==
  /\ loop = "publish"
  /\ downloaded' = downloaded \cup Head(data)
  /\ notify_all
  /\ IF Full(downloaded')
     THEN complete' = TRUE /\ LoopEnds
     ELSE /\ loop' = "prefetch"
          /\ data' = Tail(data)
          /\ UNCHANGED <<complete, commands>>
  /\ UNCHANGED <<requested, written, streaming, tasks, position, failures>>

\* pre_fetch_more_data: from the read position on, else from the beginning.
pre_fetch_more_data(bytes) ==
  LET missing == File \ (downloaded \cup requested)
      tail_end == missing \cap Bytes(position, FileSize)
      from == IF tail_end # {} THEN tail_end ELSE missing
  IN IF from = {} THEN UNCHANGED <<requested, tasks>>
     ELSE download_range(Run(from, First(from))
                           \cap Bytes(First(from), bytes))

\* The end of a round: prefetch when streaming with a slot to spare and fewer
\* bytes pending than throughput and ping time ask for.
LoopPrefetch(bytes) ==
  /\ loop = "prefetch"
  /\ IF bytes > 0
     THEN streaming /\ SlotFree /\ pre_fetch_more_data(bytes)
     ELSE UNCHANGED <<requested, tasks>>
  /\ loop' = "select"
  /\ UNCHANGED <<downloaded, written, streaming, commands, data, complete,
                 position, client, failures>>

-----------------------------------------------------------------------------
Init ==
  /\ requested = {}
  /\ downloaded = {}
  /\ written = {}
  /\ streaming = FALSE
  /\ tasks = {}
  /\ commands = <<>>
  /\ data = <<>>
  /\ loop = "start"
  /\ complete = FALSE
  /\ position = 0
  /\ client = Idle
  /\ failures = 0

\* What the client does of its own accord.
ClientCalls ==
  \/ \E length \in Buffers : Read(length)
  \/ \E p \in 0 .. FileSize : Seek(p)
  \/ \E mode \in BOOLEAN : SetStreaming(mode)
  \/ fetch_next_and_wait(ReadAhead, ReadAhead)
  \/ CloseFile
  \/ DropFile

\* What a call that is under way does next.
ClientSteps == ReadWakes \/ Copy \/ BlockLock \/ BlockWakes

Downloads ==
  \E t \in tasks :
    \/ TakeSlot(t)
    \/ \E got \in Prefixes(t.range) : Respond(t, got)
    \/ Settle(t)

Loop ==
  \/ LoopStart
  \/ LoopFetch
  \/ LoopCloses
  \/ LoopMeasures
  \/ LoopWrite
  \/ LoopPublish
  \/ \E bytes \in 0 .. FileSize : LoopPrefetch(bytes)

Next ==
  \/ ClientCalls
  \/ ClientSteps
  \/ WaitTimesOut
  \/ Downloads
  \/ Loop
  \/ LoopWriteFails

Spec == Init /\ [][Next]_vars

\* The decoding thread, the runtime's tasks and the network make progress; a
\* timeout is not counted on.
FairSpec ==
  /\ Spec
  /\ WF_vars(ClientSteps)
  /\ WF_vars(Downloads)
  /\ WF_vars(Loop)

-----------------------------------------------------------------------------
(* Properties. *)

\* Every variable has its type.
TypeOK ==
  /\ requested \in SUBSET File
  /\ downloaded \in SUBSET File
  /\ written \in SUBSET File
  /\ streaming \in BOOLEAN
  /\ tasks \in SUBSET Task
  /\ commands \in Seq(Command)
  /\ data \in Seq(SUBSET File)
  /\ loop \in {"start", "select", "publish", "prefetch", "ended"}
  /\ complete \in BOOLEAN
  /\ position \in 0 .. FileSize
  /\ client \in Client
  /\ failures \in 0 .. MaxFailures

\* The bytes a task may still bring or has to settle, and the bytes received
\* but not yet published.
Owed == UNION {Missing(t) : t \in tasks}
Received == UNION {data[i] : i \in DOMAIN data}

\* Nobody forgets a byte: as long as the fetch loop runs, a byte that counts as
\* requested is there, or received, or some task still answers for it.  A byte
\* that stays requested without anyone fetching it would never be asked for
\* again (read and download_range subtract the requested bytes).
NoOrphans == ~Ended => requested \subseteq downloaded \cup Received \cup Owed

\* No byte is downloaded twice: what tasks answer for, what is received and
\* what is published never overlap.
DownloadedOnce ==
  /\ \A t, u \in tasks : t # u => Missing(t) \cap Missing(u) = {}
  /\ \A i, j \in DOMAIN data : i # j => data[i] \cap data[j] = {}
  /\ (Owed \cap Received) \cup (Owed \cap downloaded) = {}
  /\ Received \cap downloaded = {}

\* read hands out bytes that are in the file, although it copies them after it
\* has released the lock and the loop writes without holding it.
ReadsWhatIsWritten == client.pc = "copy" => client.range \subseteq written

\* Only a complete file goes to the cache, where it would stay for good.
CachedFileIsComplete == complete => written = File

Queued == UNION {commands[i].range : i \in DOMAIN commands}

\* A range that fetch_blocking sleeps on is there, under way or asked for:
\* "For some reason, the requested range is neither downloaded nor requested.
\* This could be due to a network error. Request it again."
BlockedFetchIsPending ==
  (client.pc \in {"block_wait", "block_rewait"} /\ ~client.woken /\ ~Ended) =>
    client.range \subseteq downloaded \cup requested \cup Queued

\* The same of a fetch_blocking that has been woken up once.
RetriedFetchIsPending ==
  (client.pc = "block_rewait" /\ ~client.woken /\ ~Ended) =>
    client.range \subseteq downloaded \cup requested \cup Queued

\* A sleeping client wakes up without the help of a timeout, unless the fetch
\* loop ended before the file was complete.
SleepersWake == Asleep ~> (~Asleep \/ (Ended /\ ~complete))
=============================================================================
