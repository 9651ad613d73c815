-------------------------- MODULE AudioFetchProofs --------------------------
(***************************************************************************)
(* Proofs about streaming a file, for files of any size and any bounds:    *)
(* no requested byte is forgotten, no byte is downloaded twice, a reader   *)
(* gets bytes that were written, and only complete files are cached.  And  *)
(* about the range sets it keeps its books in: they are sets of bytes.     *)
(***************************************************************************)
EXTENDS AudioFetch, RangeSet, Iteration, FiniteSetTheorems, SequenceTheorems

-----------------------------------------------------------------------------
(* The inductive invariant. *)

\* Tasks account for their range: nothing has come before they settle.
TasksOK ==
  \A t \in tasks : /\ t.got \subseteq t.range
                   /\ t.phase # "settling" => t.got = {}

\* What is under way or there was requested, and is requested still.
AllRequested ==
  /\ \A t \in tasks : Missing(t) \subseteq requested
  /\ \A i \in DOMAIN data : data[i] \subseteq requested
  /\ downloaded \subseteq requested

\* Every requested byte has someone who answers for it (NoOrphans, bytewise).
Answered ==
  ~Ended => \A b \in requested :
              \/ b \in downloaded
              \/ \E i \in DOMAIN data : b \in data[i]
              \/ \E t \in tasks : b \in Missing(t)

\* And only one (DownloadedOnce, pairwise).
Exclusive ==
  /\ \A t, u \in tasks : t # u => Missing(t) \cap Missing(u) = {}
  /\ \A i, j \in DOMAIN data : i # j => data[i] \cap data[j] = {}
  /\ \A t \in tasks, i \in DOMAIN data : Missing(t) \cap data[i] = {}
  /\ \A t \in tasks : Missing(t) \cap downloaded = {}
  /\ \A i \in DOMAIN data : data[i] \cap downloaded = {}

\* The loop writes before it publishes.
LoopOK ==
  /\ loop = "start" => tasks = {} /\ data = <<>> /\ requested = {}
  /\ loop = "publish" => data # <<>> /\ Head(data) \subseteq written
  /\ downloaded \subseteq written

\* What a reader is about to copy was downloaded when it held the lock.
ReaderOK == client.pc = "copy" => client.range \subseteq downloaded

IInv ==
  /\ TypeOK
  /\ TasksOK
  /\ AllRequested
  /\ Answered
  /\ Exclusive
  /\ LoopOK
  /\ ReaderOK
  /\ CachedFileIsComplete

-----------------------------------------------------------------------------
(* Runs. *)

LEMMA FileIsNat == File \subseteq Nat
BY FetchAssumption, SMT DEF FetchAssumption, File

LEMMA RunWithin ==
  ASSUME NEW set, NEW b \in set
  PROVE  Run(set, b) \subseteq set
BY DEF Run

LEMMA RunHolds ==
  ASSUME NEW set \in SUBSET File, NEW b \in set
  PROVE  b \in Run(set, b)
<1>1. \A d \in File : Between(b, d, b) => d = b
  BY FileIsNat, SMT DEF Between
<1>2. QED
  BY <1>1 DEF Run

\* Two runs that share a byte are one and the same.
LEMMA RunsMeet ==
  ASSUME NEW set \in SUBSET File, NEW a \in set, NEW b \in set,
         NEW c \in Run(set, a), c \in Run(set, b)
  PROVE  Run(set, a) \subseteq Run(set, b)
<1> SUFFICES ASSUME NEW d \in Run(set, a) PROVE d \in Run(set, b)
  OBVIOUS
<1>1. a \in Nat /\ b \in Nat /\ c \in Nat /\ d \in Nat /\ c \in set /\ d \in set
  BY FileIsNat DEF Run
<1>2. ASSUME NEW e \in File, Between(b, e, d) PROVE e \in set
  <2>1. e \in Nat
    BY FileIsNat
  <2>2. Between(b, e, c) \/ Between(a, e, c) \/ Between(a, e, d)
    BY <1>1, <1>2, <2>1, SMT DEF Between
  <2>3. QED
    BY <2>2 DEF Run
<1>3. QED
  BY <1>1, <1>2 DEF Run

\* Iterating over the runs of a set visits each of its bytes, once.
LEMMA RunsPartition ==
  ASSUME NEW set \in SUBSET File
  PROVE  /\ \A r \in Runs(set) : r \subseteq set
         /\ \A b \in set : \E r \in Runs(set) : b \in r
         /\ \A r, q \in Runs(set) : r # q => r \cap q = {}
<1>1. \A r \in Runs(set) : r \subseteq set
  BY RunWithin DEF Runs
<1>2. \A b \in set : \E r \in Runs(set) : b \in r
  BY RunHolds DEF Runs
<1>3. ASSUME NEW r \in Runs(set), NEW q \in Runs(set), NEW c \in r, c \in q
      PROVE  r = q
  <2>1. PICK a \in set : r = Run(set, a)
    BY DEF Runs
  <2>2. PICK b \in set : q = Run(set, b)
    BY DEF Runs
  <2>3. r \subseteq q /\ q \subseteq r
    BY <1>3, <2>1, <2>2, RunsMeet
  <2>4. QED
    BY <2>3
<1>4. QED
  BY <1>1, <1>2, <1>3

\* The requests for a set of bytes: together all of them, pairwise disjoint.
LEMMA RequestsPartition ==
  ASSUME NEW new \in SUBSET File
  PROVE  /\ Requests(new) \subseteq Task
         /\ \A t \in Requests(new) : t.got = {} /\ t.phase = "queued"
         /\ \A t \in Requests(new) : Missing(t) \subseteq new
         /\ \A b \in new : \E t \in Requests(new) : b \in Missing(t)
         /\ \A t, u \in Requests(new) : t # u => Missing(t) \cap Missing(u) = {}
<1>1. ASSUME NEW t \in Requests(new)
      PROVE  /\ t.range \in Runs(new) /\ t.range \in SUBSET File
             /\ t = StreamingRequest(t.range, "None")
             /\ Missing(t) = t.range
  <2>1. PICK r \in Runs(new) : t = StreamingRequest(r, "None")
    BY DEF Requests
  <2>2. r \subseteq new
    BY RunsPartition
  <2>3. t.range = r /\ t.got = {} /\ t.phase = "queued"
    BY <2>1 DEF StreamingRequest
  <2>4. Missing(t) = r
    BY <2>3 DEF Missing
  <2>5. QED
    BY <2>1, <2>2, <2>3, <2>4
<1>2. ASSUME NEW r \in Runs(new)
      PROVE  \E t \in Requests(new) : t.range = r
  <2> DEFINE t == StreamingRequest(r, "None")
  <2>1. t \in Requests(new)
    BY DEF Requests
  <2>2. t.range = r
    BY DEF StreamingRequest
  <2>3. QED
    BY <2>1, <2>2
<1>3. \A t \in Requests(new) : t \in Task /\ t.got = {} /\ t.phase = "queued"
  BY <1>1 DEF Task, StreamingRequest
<1>4. \A b \in new : \E t \in Requests(new) : b \in Missing(t)
  <2> SUFFICES ASSUME NEW b \in new
               PROVE  \E t \in Requests(new) : b \in Missing(t)
    OBVIOUS
  <2>1. PICK r \in Runs(new) : b \in r
    BY RunsPartition
  <2>2. PICK t \in Requests(new) : t.range = r
    BY <1>2
  <2>3. QED
    BY <1>1, <2>1, <2>2
<1>5. \A t \in Requests(new) : Missing(t) \subseteq new
  BY <1>1, RunsPartition
<1>6. ASSUME NEW t \in Requests(new), NEW u \in Requests(new), t # u
      PROVE  Missing(t) \cap Missing(u) = {}
  <2>1. t.range # u.range
    BY <1>1, <1>6
  <2>2. QED
    BY <1>1, <2>1, RunsPartition
<1>7. QED
  BY <1>3, <1>4, <1>5, <1>6

-----------------------------------------------------------------------------
(* Requesting more bytes, which three actions of the loop do. *)

\* New requests for bytes nobody has asked for keep the accounts in order.
LEMMA NewRequests ==
  ASSUME IInv, NEW new \in SUBSET File, new \cap requested = {},
         requested' = requested \cup new,
         tasks' = tasks \cup Requests(new),
         UNCHANGED <<downloaded, data>>,
         Ended => Ended'
  PROVE  /\ requested' \in SUBSET File
         /\ tasks' \in SUBSET Task
         /\ TasksOK' /\ AllRequested' /\ Answered' /\ Exclusive'
<1> DEFINE R == Requests(new)
<1>1. /\ R \subseteq Task
      /\ \A t \in R : t.got = {} /\ t.phase = "queued"
      /\ \A t \in R : Missing(t) \subseteq new
      /\ \A b \in new : \E t \in R : b \in Missing(t)
      /\ \A t, u \in R : t # u => Missing(t) \cap Missing(u) = {}
  BY RequestsPartition
<1> HIDE DEF R
<1>2. tasks' = tasks \cup R
  BY DEF R
<1>3. requested' \in SUBSET File /\ tasks' \in SUBSET Task
  BY <1>1, <1>2 DEF IInv, TypeOK
<1>4. TasksOK'
  BY <1>1, <1>2 DEF IInv, TasksOK
<1>5. AllRequested'
  <2>1. \A t \in tasks' : Missing(t) \subseteq requested'
    BY <1>1, <1>2 DEF IInv, AllRequested
  <2>2. QED
    BY <2>1 DEF IInv, AllRequested, Missing
<1>6. Answered'
  BY <1>1, <1>2 DEF IInv, Answered, Missing, Ended
<1>7. Exclusive'
  <2>1. /\ \A t \in tasks : Missing(t) \cap new = {}
        /\ \A i \in DOMAIN data : data[i] \cap new = {}
        /\ downloaded \cap new = {}
    BY DEF IInv, AllRequested
  <2>2. \A t, u \in tasks' : t # u => Missing(t) \cap Missing(u) = {}
    BY <1>1, <1>2, <2>1 DEF IInv, Exclusive
  <2>3. \A t \in tasks', i \in DOMAIN data : Missing(t) \cap data[i] = {}
    BY <1>1, <1>2, <2>1 DEF IInv, Exclusive
  <2>4. \A t \in tasks' : Missing(t) \cap downloaded = {}
    BY <1>1, <1>2, <2>1 DEF IInv, Exclusive
  <2>5. QED
    BY <2>2, <2>3, <2>4 DEF IInv, Exclusive, Missing
<1>8. QED
  BY <1>3, <1>4, <1>5, <1>6, <1>7

LEMMA DownloadRange ==
  ASSUME IInv, NEW range \in SUBSET File, download_range(range),
         UNCHANGED <<downloaded, data>>, Ended => Ended'
  PROVE  /\ requested' \in SUBSET File
         /\ tasks' \in SUBSET Task
         /\ TasksOK' /\ AllRequested' /\ Answered' /\ Exclusive'
<1>1. PICK new \in SUBSET File :
        /\ new \cap requested = {}
        /\ requested' = requested \cup new
        /\ tasks' = tasks \cup Requests(new)
  BY DEF download_range, Bytes
<1>2. QED
  BY <1>1, NewRequests

LEMMA NoRequests ==
  ASSUME IInv, UNCHANGED <<requested, tasks, downloaded, data>>,
         Ended => Ended'
  PROVE  /\ requested' \in SUBSET File
         /\ tasks' \in SUBSET Task
         /\ TasksOK' /\ AllRequested' /\ Answered' /\ Exclusive'
<1>1. requested' \in SUBSET File /\ tasks' \in SUBSET Task
  BY DEF IInv, TypeOK
<1>2. TasksOK' /\ AllRequested'
  BY DEF IInv, TasksOK, AllRequested, Missing
<1>3. Answered'
  BY DEF IInv, Answered, Missing, Ended
<1>4. Exclusive'
  BY DEF IInv, Exclusive, Missing
<1>5. QED
  BY <1>1, <1>2, <1>3, <1>4

-----------------------------------------------------------------------------
(* The client's actions touch neither the status nor the tasks. *)

LEMMA BytesType ==
  ASSUME NEW start, NEW length
  PROVE  Bytes(start, length) \in SUBSET File
BY DEF Bytes

LEMMA FetchType ==
  ASSUME NEW range \in SUBSET File
  PROVE  Fetch(range) \in Command
BY DEF Fetch, Command

LEMMA DoesType ==
  ASSUME NEW range \in SUBSET File,
         NEW p \in {"idle", "read_wait", "copy", "block_lock", "block_wait",
                    "block_rewait", "gone"}
  PROVE  /\ Does(p, range) \in Client
         /\ Does(p, range).pc = p
         /\ Does(p, range).range = range
BY DEF Does, Client

LEMMA IdleType == Idle \in Client /\ Idle.pc = "idle"
BY DEF Idle, Client

\* A step of the client preserves the invariant if it is typed and copies only
\* what is downloaded.
LEMMA ClientStep ==
  ASSUME IInv,
         UNCHANGED <<status, tasks, data, loop, complete, failures>>,
         streaming' \in BOOLEAN, commands' \in Seq(Command),
         position' \in 0 .. FileSize, client' \in Client,
         client'.pc = "copy" => client'.range \subseteq downloaded
  PROVE  IInv'
<1>1. /\ requested' = requested /\ downloaded' = downloaded
      /\ written' = written /\ tasks' = tasks /\ data' = data
      /\ loop' = loop /\ complete' = complete /\ failures' = failures
  BY DEF status
<1>2. TasksOK' /\ AllRequested' /\ Answered' /\ Exclusive'
  <2>1. Ended => Ended'
    BY <1>1 DEF Ended
  <2>2. QED
    BY <1>1, <2>1, NoRequests
<1>3. TypeOK'
  BY <1>1 DEF IInv, TypeOK
<1>4. LoopOK'
  BY <1>1 DEF IInv, LoopOK
<1>5. ReaderOK' /\ CachedFileIsComplete'
  BY <1>1 DEF IInv, ReaderOK, CachedFileIsComplete
<1>6. QED
  BY <1>2, <1>3, <1>4, <1>5 DEF IInv

LEMMA ClientInvariant ==
  ASSUME IInv, ClientCalls \/ ClientSteps \/ WaitTimesOut
  PROVE  IInv'
<1>0. /\ commands \in Seq(Command) /\ client \in Client /\ streaming \in BOOLEAN
      /\ position \in 0 .. FileSize /\ downloaded \in SUBSET File
      /\ client.range \in SUBSET File
      /\ client.pc = "copy" => client.range \subseteq downloaded
  BY DEF IInv, TypeOK, ReaderOK, Client
<1>1. ASSUME NEW range PROVE Available(range) \subseteq downloaded
  BY DEF Available, Run
<1>2. ASSUME NEW range \in SUBSET File
      PROVE  Sent(<<Fetch(range)>>) \in Seq(Command)
  <2>1. <<Fetch(range)>> \in Seq(Command)
    BY FetchType
  <2>2. QED
    BY <1>0, <2>1 DEF Sent
<1>3. ASSUME NEW length \in Buffers, Read(length) PROVE IInv'
  <2> DEFINE need == Bytes(position, length + (IF streaming THEN ReadAhead ELSE 0))
                       \ (downloaded \cup requested)
  <2>1. commands' \in Seq(Command)
    <3>1. commands' = commands \/ commands' = Sent(<<Fetch(need)>>)
      BY <1>3 DEF Read
    <3>2. need \in SUBSET File
      BY DEF Bytes
    <3>3. QED
      BY <1>0, <1>2, <3>1, <3>2
  <2>2. /\ client' \in Client
        /\ client'.pc = "copy" => client'.range \subseteq downloaded
    <3>1. \/ client' = Does("copy", Available(Bytes(position, length)))
          \/ client' = Does("read_wait", Bytes(position, length))
      BY <1>3 DEF Read
    <3>2. Available(Bytes(position, length)) \in SUBSET File
      BY <1>0, <1>1
    <3>3. QED
      BY <1>1, <3>1, <3>2, DoesType, BytesType
  <2>3. QED
    BY <1>0, <1>3, <2>1, <2>2, ClientStep DEF Read
<1>4. ASSUME NEW p \in 0 .. FileSize, Seek(p) PROVE IInv'
  BY <1>0, <1>4, ClientStep DEF Seek
<1>5. ASSUME NEW mode \in BOOLEAN, SetStreaming(mode) PROVE IInv'
  BY <1>0, <1>5, ClientStep DEF SetStreaming
<1>6. CASE fetch_next_and_wait(ReadAhead, ReadAhead)
  <2> DEFINE range == Bytes(position, ReadAhead)
  <2>1. range \in SUBSET File
    BY BytesType
  <2>2. commands' \in Seq(Command)
    <3>1. <<Fetch(range), Fetch(range)>> \in Seq(Command)
      BY <2>1, FetchType
    <3>2. commands' = Sent(<<Fetch(range), Fetch(range)>>)
      BY <1>6 DEF fetch_next_and_wait
    <3>3. QED
      BY <1>0, <3>1, <3>2 DEF Sent
  <2>3. client' \in Client /\ client'.pc = "block_lock"
    BY <1>6, <2>1, DoesType DEF fetch_next_and_wait
  <2>4. QED
    BY <1>0, <1>6, <2>2, <2>3, ClientStep DEF fetch_next_and_wait
<1>7. CASE CloseFile
  <2>1. commands' \in Seq(Command)
    <3>1. <<Close>> \in Seq(Command)
      BY DEF Close, Command
    <3>2. QED
      BY <1>0, <1>7, <3>1 DEF CloseFile, Sent
  <2>2. QED
    BY <1>0, <1>7, <2>1, ClientStep DEF CloseFile
<1>8. CASE DropFile
  <2>1. client' \in Client /\ client'.pc = "gone"
    BY <1>8, DoesType DEF DropFile
  <2>2. QED
    BY <1>0, <1>8, <2>1, ClientStep DEF DropFile
<1>9. CASE ReadWakes
  <2>1. /\ client' \in Client
        /\ client'.pc = "copy" => client'.range \subseteq downloaded
    <3>1. CASE client' = Does("copy", Available(client.range))
      <4>1. Available(client.range) \in SUBSET File
        BY <1>0, <1>1
      <4>2. QED
        BY <1>1, <3>1, <4>1, DoesType
    <3>2. CASE client' = [client EXCEPT !.woken = FALSE]
      BY <1>0, <3>2 DEF Client
    <3>3. QED
      BY <1>9, <3>1, <3>2 DEF ReadWakes
  <2>2. QED
    BY <1>0, <1>9, <2>1, ClientStep DEF ReadWakes
<1>10. CASE Copy
  <2>1. position' \in 0 .. FileSize
    BY <1>0, <1>10, FetchAssumption, SMT DEF Copy, FetchAssumption
  <2>2. QED
    BY <1>0, <1>10, <2>1, IdleType, ClientStep DEF Copy
<1>11. CASE BlockLock
  <2>1. client' \in Client /\ client'.pc # "copy"
    BY <1>0, <1>11, IdleType DEF BlockLock, Client
  <2>2. QED
    BY <1>0, <1>11, <2>1, ClientStep DEF BlockLock
<1>12. CASE BlockWakes
  <2>1. commands' \in Seq(Command)
    BY <1>0, <1>2, <1>12 DEF BlockWakes
  <2>2. client' \in Client /\ client'.pc # "copy"
    BY <1>0, <1>12, IdleType, DoesType DEF BlockWakes
  <2>3. QED
    BY <1>0, <1>12, <2>1, <2>2, ClientStep DEF BlockWakes
<1>13. CASE WaitTimesOut
  BY <1>0, <1>13, IdleType, ClientStep DEF WaitTimesOut
<1>14. QED
  BY <1>3, <1>4, <1>5, <1>6, <1>7, <1>8, <1>9, <1>10, <1>11, <1>12, <1>13
  DEF ClientCalls, ClientSteps

-----------------------------------------------------------------------------
(* The receive_data tasks. *)

LEMMA NotifyType ==
  ASSUME client \in Client, notify_all \/ UNCHANGED client
  PROVE  /\ client' \in Client
         /\ client'.pc = client.pc
         /\ client'.range = client.range
BY DEF notify_all, Client

\* Taking the slot changes the phase of a task and nothing it answers for.
LEMMA TakeSlotInvariant ==
  ASSUME IInv, NEW t \in tasks, TakeSlot(t)
  PROVE  IInv'
<1> DEFINE n == [t EXCEPT !.phase = "receiving"]
<1>1. /\ requested' = requested /\ downloaded' = downloaded
      /\ written' = written /\ data' = data /\ loop' = loop
      /\ tasks' = (tasks \ {t}) \cup {n}
      /\ UNCHANGED <<streaming, commands, complete, position, client, failures>>
  BY DEF TakeSlot, status
<1>2. t \in Task /\ t.got = {} /\ t.phase = "queued"
  BY DEF IInv, TypeOK, TasksOK, TakeSlot
<1>3. n \in Task /\ n.got = {} /\ n.phase = "receiving" /\ Missing(n) = Missing(t)
  BY <1>2 DEF Task, Missing
<1> HIDE DEF n
<1>4. TypeOK'
  BY <1>1, <1>3 DEF IInv, TypeOK
<1>5. TasksOK'
  BY <1>1, <1>3 DEF IInv, TasksOK
<1>6. AllRequested'
  <2>1. \A u \in tasks' : Missing(u) \subseteq requested
    BY <1>1, <1>3 DEF IInv, AllRequested
  <2>2. QED
    BY <1>1, <2>1 DEF IInv, AllRequested, Missing
<1>7. Answered'
  <2>1. \A b : (\E u \in tasks : b \in Missing(u))
                 => (\E u \in tasks' : b \in Missing(u))
    BY <1>1, <1>3
  <2>2. QED
    BY <1>1, <2>1 DEF IInv, Answered, Missing, Ended
<1>8. Exclusive'
  <2>1. \A u, v \in tasks' : u # v => Missing(u) \cap Missing(v) = {}
    BY <1>1, <1>3 DEF IInv, Exclusive
  <2>2. \A u \in tasks', i \in DOMAIN data : Missing(u) \cap data[i] = {}
    BY <1>1, <1>3 DEF IInv, Exclusive
  <2>3. \A u \in tasks' : Missing(u) \cap downloaded = {}
    BY <1>1, <1>3 DEF IInv, Exclusive
  <2>4. QED
    BY <1>1, <2>1, <2>2, <2>3 DEF IInv, Exclusive, Missing
<1>9. LoopOK' /\ ReaderOK' /\ CachedFileIsComplete'
  BY <1>1 DEF IInv, LoopOK, ReaderOK, CachedFileIsComplete
<1>10. QED
  BY <1>4, <1>5, <1>6, <1>7, <1>8, <1>9 DEF IInv

\* What a task did not bring is not requested any more; nobody else answers for
\* it, so everything else that is requested still has its answer.
LEMMA SettleInvariant ==
  ASSUME IInv, NEW t \in tasks, Settle(t)
  PROVE  IInv'
<1>1. /\ requested' = requested \ Missing(t) /\ downloaded' = downloaded
      /\ written' = written /\ data' = data /\ loop' = loop
      /\ tasks' = tasks \ {t}
      /\ UNCHANGED <<streaming, commands, complete, position, failures>>
      /\ notify_all \/ UNCHANGED client
  BY DEF Settle
<1>2. client' \in Client /\ client'.pc = client.pc /\ client'.range = client.range
  <2>1. client \in Client
    BY DEF IInv, TypeOK
  <2>2. QED
    BY <1>1, <2>1, NotifyType
<1>3. TypeOK'
  BY <1>1, <1>2 DEF IInv, TypeOK
<1>4. TasksOK'
  BY <1>1 DEF IInv, TasksOK
<1>5. AllRequested'
  <2>1. \A u \in tasks' : Missing(u) \subseteq requested'
    BY <1>1 DEF IInv, AllRequested, Exclusive
  <2>2. \A i \in DOMAIN data : data[i] \subseteq requested'
    BY <1>1 DEF IInv, AllRequested, Exclusive
  <2>3. downloaded \subseteq requested'
    BY <1>1 DEF IInv, AllRequested, Exclusive
  <2>4. QED
    BY <1>1, <2>1, <2>2, <2>3 DEF AllRequested, Missing
<1>6. Answered'
  <2> SUFFICES ASSUME ~Ended', NEW b \in requested'
               PROVE  \/ b \in downloaded'
                      \/ \E i \in DOMAIN data' : b \in data'[i]
                      \/ \E u \in tasks' : b \in Missing(u)
    BY DEF Answered, Missing
  <2>1. ~Ended /\ b \in requested /\ b \notin Missing(t)
    BY <1>1 DEF Ended
  <2>2. \/ b \in downloaded
        \/ \E i \in DOMAIN data : b \in data[i]
        \/ \E u \in tasks : b \in Missing(u)
    BY <2>1 DEF IInv, Answered
  <2>3. QED
    BY <1>1, <2>1, <2>2
<1>7. Exclusive'
  BY <1>1 DEF IInv, Exclusive, Missing
<1>8. LoopOK' /\ ReaderOK' /\ CachedFileIsComplete'
  BY <1>1, <1>2 DEF IInv, LoopOK, ReaderOK, CachedFileIsComplete
<1>9. QED
  BY <1>3, <1>4, <1>5, <1>6, <1>7, <1>8 DEF IInv

\* The messages of one response: at most one has bytes.
LEMMA MessagesType ==
  ASSUME NEW got \in SUBSET File, NEW m,
         \/ m = <<>> /\ got = {}
         \/ m = <<{}>> /\ got = {}
         \/ m = <<got>>
         \/ m = <<{}, got, {}>>
  PROVE  \E g \in Nat :
           /\ m \in Seq(SUBSET File)
           /\ got # {} => g \in 1 .. Len(m) /\ m[g] = got
           /\ \A i \in 1 .. Len(m) : m[i] = {} \/ (i = g /\ m[i] = got)
<1>1. CASE m = <<>> /\ got = {}
  <2>1. WITNESS 0 \in Nat
  <2>2. QED
    BY <1>1
<1>2. CASE m = <<{}>> /\ got = {}
  <2>1. WITNESS 0 \in Nat
  <2>2. QED
    BY <1>2
<1>3. CASE m = <<got>>
  <2>1. WITNESS 1 \in Nat
  <2>2. QED
    BY <1>3
<1>4. CASE m = <<{}, got, {}>>
  <2>1. WITNESS 2 \in Nat
  <2>2. QED
    BY <1>4
<1>5. QED
  BY <1>1, <1>2, <1>3, <1>4

\* Messages are added at the end of a channel.
LEMMA Appended ==
  ASSUME NEW S, NEW q \in Seq(S), NEW m \in Seq(S), NEW d, d = q \o m
  PROVE  /\ d \in Seq(S)
         /\ q # <<>> => d # <<>> /\ Head(d) = Head(q)
         /\ \A i \in DOMAIN q : i \in DOMAIN d /\ d[i] = q[i]
         /\ \A i \in 1 .. Len(m) :
              Len(q) + i \in DOMAIN d /\ d[Len(q) + i] = m[i]
         /\ \A i \in DOMAIN d :
              \/ i \in DOMAIN q /\ d[i] = q[i]
              \/ /\ i \notin DOMAIN q
                 /\ i - Len(q) \in 1 .. Len(m) /\ d[i] = m[i - Len(q)]
                 /\ i = Len(q) + (i - Len(q))
<1>1. /\ d \in Seq(S) /\ Len(d) = Len(q) + Len(m)
      /\ Len(q) \in Nat /\ Len(m) \in Nat
      /\ \A i \in 1 .. Len(q) : d[i] = q[i]
      /\ \A i \in Len(q) + 1 .. Len(q) + Len(m) : d[i] = m[i - Len(q)]
  OBVIOUS
<1>2. DOMAIN q = 1 .. Len(q) /\ DOMAIN d = 1 .. Len(q) + Len(m)
  BY <1>1
<1>3. ASSUME q # <<>> PROVE d # <<>> /\ Head(d) = Head(q)
  <2>1. Len(q) > 0
    BY <1>3
  <2>2. Len(d) > 0 /\ d[1] = q[1]
    BY <1>1, <2>1
  <2>3. QED
    BY <1>1, <1>3, <2>2
<1>4. \A i \in DOMAIN q : i \in DOMAIN d /\ d[i] = q[i]
  BY <1>1, <1>2
<1>5. ASSUME NEW i \in 1 .. Len(m)
      PROVE  Len(q) + i \in DOMAIN d /\ d[Len(q) + i] = m[i]
  <2>1. Len(q) + i \in Len(q) + 1 .. Len(q) + Len(m) /\ (Len(q) + i) - Len(q) = i
    BY <1>1
  <2>2. QED
    BY <1>1, <1>2, <2>1
<1>6. ASSUME NEW i \in DOMAIN d
      PROVE  \/ i \in DOMAIN q /\ d[i] = q[i]
             \/ /\ i \notin DOMAIN q
                /\ i - Len(q) \in 1 .. Len(m) /\ d[i] = m[i - Len(q)]
                /\ i = Len(q) + (i - Len(q))
  BY <1>1, <1>2
<1>7. QED
  BY <1>1, <1>3, <1>4, <1>5, <1>6

\* A response moves bytes from what the task answers for to the channel; a task
\* that finds the loop gone just ends.
LEMMA RespondInvariant ==
  ASSUME IInv, NEW t \in tasks, NEW got \in Prefixes(t.range),
         Respond(t, got)
  PROVE  IInv'
<1> DEFINE n == [t EXCEPT !.phase = "settling", !.got = got]
<1>1. /\ requested' = requested /\ downloaded' = downloaded
      /\ written' = written /\ loop' = loop
      /\ UNCHANGED <<streaming, commands, complete, position, client>>
  BY DEF Respond, status
<1>2. /\ t \in Task /\ t.got = {} /\ t.range \in SUBSET File
      /\ Missing(t) = t.range
      /\ got \subseteq t.range /\ got \in SUBSET File
  <2>1. t \in Task /\ t.got = {}
    BY DEF IInv, TypeOK, TasksOK, Respond
  <2>2. QED
    BY <2>1 DEF Task, Missing, Prefixes
<1>3. failures' \in 0 .. MaxFailures
  BY FetchAssumption DEF FetchAssumption, IInv, TypeOK, Respond
<1>4. data \in Seq(SUBSET File)
  BY DEF IInv, TypeOK
<1>5. CASE tasks' = tasks \ {t} /\ data' = data /\ Ended
  <2>1. TypeOK'
    BY <1>1, <1>3, <1>5 DEF IInv, TypeOK
  <2>2. TasksOK' /\ AllRequested'
    BY <1>1, <1>5 DEF IInv, TasksOK, AllRequested, Missing
  <2>3. Answered'
    BY <1>1, <1>5 DEF Answered, Ended
  <2>4. Exclusive'
    BY <1>1, <1>5 DEF IInv, Exclusive, Missing
  <2>5. LoopOK' /\ ReaderOK' /\ CachedFileIsComplete'
    BY <1>1, <1>5 DEF IInv, LoopOK, ReaderOK, CachedFileIsComplete
  <2>6. QED
    BY <2>1, <2>2, <2>3, <2>4, <2>5 DEF IInv
<1>6. CASE /\ tasks' = (tasks \ {t}) \cup {n}
           /\ data' = data \o Messages(t, got)
  <2>1. /\ n \in Task /\ n.got = got /\ n.range = t.range
        /\ n.phase = "settling" /\ Missing(n) = Missing(t) \ got
    BY <1>2 DEF Task, Missing
  <2>2. tasks' = (tasks \ {t}) \cup {n}
    BY <1>6
  <2> HIDE DEF n
  <2> DEFINE m == Messages(t, got)
  <2>a. PICK g \in Nat :
          /\ m \in Seq(SUBSET File)
          /\ got # {} => g \in 1 .. Len(m) /\ m[g] = got
          /\ \A i \in 1 .. Len(m) : m[i] = {} \/ (i = g /\ m[i] = got)
    <3>1. \/ m = <<>> /\ got = {}
          \/ m = <<{}>> /\ got = {}
          \/ m = <<got>>
          \/ m = <<{}, got, {}>>
      BY DEF Messages
    <3> HIDE DEF m
    <3>2. QED
      BY <1>2, <3>1, MessagesType
  <2>b. data' = data \o m
    BY <1>6
  <2> HIDE DEF m
  <2>c. /\ data' \in Seq(SUBSET File)
        /\ data # <<>> => data' # <<>> /\ Head(data') = Head(data)
        /\ \A i \in DOMAIN data : i \in DOMAIN data' /\ data'[i] = data[i]
        /\ \A i \in 1 .. Len(m) :
             Len(data) + i \in DOMAIN data' /\ data'[Len(data) + i] = m[i]
        /\ \A i \in DOMAIN data' :
             \/ i \in DOMAIN data /\ data'[i] = data[i]
             \/ /\ i \notin DOMAIN data
                /\ i - Len(data) \in 1 .. Len(m) /\ data'[i] = m[i - Len(data)]
                /\ i = Len(data) + (i - Len(data))
    BY <1>4, <2>a, <2>b, Appended
  <2> DEFINE k == Len(data) + g
  <2>d. \A b \in got : \E i \in DOMAIN data' : b \in data'[i]
    BY <2>a, <2>c
  <2>e. ASSUME NEW i \in DOMAIN data'
        PROVE  \/ i \in DOMAIN data /\ data'[i] = data[i]
               \/ i \notin DOMAIN data /\ i = k /\ data'[i] = got
               \/ i \notin DOMAIN data /\ data'[i] = {}
    BY <2>a, <2>c
  <2> HIDE DEF k
  <2>3. /\ data' \in Seq(SUBSET File)
        /\ data # <<>> => data' # <<>> /\ Head(data') = Head(data)
        /\ \A i \in DOMAIN data : i \in DOMAIN data' /\ data'[i] = data[i]
        /\ \A b \in got : \E i \in DOMAIN data' : b \in data'[i]
        /\ \A i \in DOMAIN data' :
             \/ i \in DOMAIN data /\ data'[i] = data[i]
             \/ i \notin DOMAIN data /\ i = k /\ data'[i] = got
             \/ i \notin DOMAIN data /\ data'[i] = {}
    BY <2>c, <2>d, <2>e
  <2>4. TypeOK'
    BY <1>1, <1>3, <2>1, <2>2, <2>3 DEF IInv, TypeOK
  <2>5. TasksOK'
    BY <1>2, <2>1, <2>2 DEF IInv, TasksOK
  <2>6. AllRequested'
    <3>1. \A u \in tasks' : Missing(u) \subseteq requested
      BY <2>1, <2>2 DEF IInv, AllRequested
    <3>2. got \subseteq requested
      BY <1>2 DEF IInv, AllRequested
    <3>3. \A i \in DOMAIN data' : data'[i] \subseteq requested
      BY <2>3, <3>2 DEF IInv, AllRequested
    <3>4. QED
      BY <1>1, <3>1, <3>3 DEF IInv, AllRequested, Missing
  <2>7. Answered'
    <3> SUFFICES ASSUME ~Ended', NEW b \in requested'
                 PROVE  \/ b \in downloaded'
                        \/ \E i \in DOMAIN data' : b \in data'[i]
                        \/ \E u \in tasks' : b \in Missing(u)
      BY DEF Answered, Missing
    <3>1. \/ b \in downloaded
          \/ \E i \in DOMAIN data : b \in data[i]
          \/ \E u \in tasks : b \in Missing(u)
      BY <1>1 DEF IInv, Answered, Ended
    <3>2. CASE b \in downloaded
      BY <1>1, <3>2
    <3>3. CASE \E i \in DOMAIN data : b \in data[i]
      BY <2>3, <3>3
    <3>4. ASSUME NEW u \in tasks, b \in Missing(u), u # t
          PROVE  \E v \in tasks' : b \in Missing(v)
      BY <2>2, <3>4
    <3>5. CASE b \in Missing(t)
      <4>1. b \in got \/ b \in Missing(n)
        BY <2>1, <3>5
      <4>2. n \in tasks'
        BY <2>2
      <4>3. QED
        BY <2>3, <4>1, <4>2
    <3>6. QED
      BY <3>1, <3>2, <3>3, <3>4, <3>5
  <2>8. Exclusive'
    <3>1. \A u, v \in tasks' : u # v => Missing(u) \cap Missing(v) = {}
      BY <2>1, <2>2 DEF IInv, Exclusive
    <3>2. \A u \in tasks' : Missing(u) \cap downloaded = {}
      BY <2>1, <2>2 DEF IInv, Exclusive
    <3>3. \A i \in DOMAIN data : data[i] \cap got = {}
      BY <1>2 DEF IInv, Exclusive
    <3>4. \A i, j \in DOMAIN data' : i # j => data'[i] \cap data'[j] = {}
      BY <2>3, <3>3 DEF IInv, Exclusive
    <3>5. got \cap downloaded = {}
      BY <1>2 DEF IInv, Exclusive
    <3>6. \A i \in DOMAIN data' : data'[i] \cap downloaded = {}
      BY <2>3, <3>5 DEF IInv, Exclusive
    <3>7. \A u \in tasks' : Missing(u) \cap got = {}
      BY <1>2, <2>1, <2>2 DEF IInv, Exclusive
    <3>8. \A u \in tasks', i \in DOMAIN data : Missing(u) \cap data[i] = {}
      BY <2>1, <2>2 DEF IInv, Exclusive
    <3>9. \A u \in tasks', i \in DOMAIN data' : Missing(u) \cap data'[i] = {}
      BY <2>3, <3>7, <3>8
    <3>10. QED
      BY <1>1, <3>1, <3>2, <3>4, <3>6, <3>9 DEF Exclusive, Missing
  <2>9. LoopOK' /\ ReaderOK' /\ CachedFileIsComplete'
    <3>1. loop # "start"
      BY DEF IInv, LoopOK
    <3>2. QED
      BY <1>1, <2>3, <3>1 DEF IInv, LoopOK, ReaderOK, CachedFileIsComplete
  <2>10. QED
    BY <2>4, <2>5, <2>6, <2>7, <2>8, <2>9 DEF IInv
<1>7. QED
  BY <1>5, <1>6 DEF Respond

-----------------------------------------------------------------------------
(* The fetch loop. *)

\* A round that requests bytes or takes a command, and writes nothing.
LEMMA LoopStep ==
  ASSUME IInv,
         UNCHANGED <<downloaded, written, streaming, data, complete, position,
                     client, failures>>,
         requested' \in SUBSET File, tasks' \in SUBSET Task,
         TasksOK' /\ AllRequested' /\ Answered' /\ Exclusive',
         commands' \in Seq(Command), loop' \in {"select", "prefetch"}
  PROVE  IInv'
<1>1. TypeOK'
  BY DEF IInv, TypeOK
<1>2. LoopOK' /\ ReaderOK' /\ CachedFileIsComplete'
  BY DEF IInv, LoopOK, ReaderOK, CachedFileIsComplete
<1>3. QED
  BY <1>1, <1>2 DEF IInv

\* The first request: nothing was requested before.
LEMMA LoopStartInvariant ==
  ASSUME IInv, LoopStart
  PROVE  IInv'
<1> DEFINE n == StreamingRequest(Bytes(0, Initial), "Some")
<1>1. /\ UNCHANGED <<downloaded, written, streaming, commands, data, complete,
                     position, client, failures>>
      /\ requested = {} /\ downloaded = {} /\ data = <<>>
      /\ requested' = Bytes(0, Initial) /\ tasks' = {n} /\ loop' = "select"
  BY DEF LoopStart, IInv, LoopOK, AllRequested
<1>2. n \in Task /\ n.got = {} /\ n.phase = "queued" /\ Missing(n) = Bytes(0, Initial)
  BY BytesType DEF Task, Missing, StreamingRequest
<1> HIDE DEF n
<1>3. requested' \in SUBSET File /\ tasks' \in SUBSET Task
  BY <1>1, <1>2, BytesType
<1>4. TasksOK' /\ AllRequested'
  <2>1. TasksOK'
    BY <1>1, <1>2 DEF TasksOK
  <2>2. \A u \in tasks' : Missing(u) \subseteq requested'
    BY <1>1, <1>2
  <2>3. DOMAIN data = {}
    BY <1>1
  <2>4. QED
    BY <1>1, <2>1, <2>2, <2>3 DEF AllRequested, Missing
<1>5. Answered'
  <2>1. \A b \in requested' : \E u \in tasks' : b \in Missing(u)
    BY <1>1, <1>2
  <2>2. QED
    BY <2>1 DEF Answered, Missing
<1>6. Exclusive'
  <2>1. DOMAIN data' = {} /\ downloaded' = {} /\ \A u, v \in tasks' : u = v
    BY <1>1
  <2>2. QED
    BY <2>1 DEF Exclusive
<1>7. commands' \in Seq(Command)
  BY <1>1 DEF IInv, TypeOK
<1>8. QED
  BY <1>1, <1>3, <1>4, <1>5, <1>6, <1>7, LoopStep

\* Taking one range off the channel's first command.
LEMMA LoopFetchInvariant ==
  ASSUME IInv, LoopFetch
  PROVE  IInv'
<1> DEFINE rest == Head(commands).range
           run  == IF rest = {} THEN {} ELSE Run(rest, First(rest))
<1>1. /\ commands \in Seq(Command) /\ commands # <<>>
      /\ Head(commands) \in Command
  BY DEF LoopFetch, IInv, TypeOK
<1>2. rest \in SUBSET File
  BY <1>1 DEF Command
<1>3. run \in SUBSET File
  BY <1>2 DEF Run
<1>4. commands' \in Seq(Command)
  <2>1. CASE commands' = Tail(commands)
    BY <1>1, <2>1
  <2>2. CASE commands' = [commands EXCEPT ![1].range = rest \ run]
    <3>1. 1 \in DOMAIN commands /\ commands[1] \in Command
      BY <1>1
    <3>2. [commands[1] EXCEPT !.range = rest \ run] \in Command
      BY <1>2, <3>1 DEF Command
    <3>3. commands' = [commands EXCEPT ![1] = [commands[1] EXCEPT !.range = rest \ run]]
      BY <2>2
    <3>4. QED
      BY <1>1, <3>1, <3>2, <3>3
  <2>3. QED
    BY <2>1, <2>2 DEF LoopFetch
<1>5. /\ requested' \in SUBSET File /\ tasks' \in SUBSET Task
      /\ TasksOK' /\ AllRequested' /\ Answered' /\ Exclusive'
  <2>1. UNCHANGED <<downloaded, data>> /\ (Ended => Ended')
    BY DEF LoopFetch, Ended
  <2>2. CASE UNCHANGED <<requested, tasks>>
    BY <2>1, <2>2, NoRequests
  <2>3. CASE download_range(run)
    BY <1>3, <2>1, <2>3, DownloadRange
  <2>4. QED
    BY <2>2, <2>3 DEF LoopFetch
<1>6. QED
  BY <1>4, <1>5, LoopStep DEF LoopFetch

\* Prefetching asks for bytes of the file that nobody has asked for.
LEMMA LoopPrefetchInvariant ==
  ASSUME IInv, NEW amount \in 0 .. FileSize, LoopPrefetch(amount)
  PROVE  IInv'
<1>1. UNCHANGED <<downloaded, data>> /\ (Ended => Ended')
  BY DEF LoopPrefetch, Ended
<1>2. commands' \in Seq(Command)
  BY DEF LoopPrefetch, IInv, TypeOK
<1>3. /\ requested' \in SUBSET File /\ tasks' \in SUBSET Task
      /\ TasksOK' /\ AllRequested' /\ Answered' /\ Exclusive'
  <2>1. CASE UNCHANGED <<requested, tasks>>
    BY <1>1, <2>1, NoRequests
  <2>2. CASE \E range \in SUBSET File : download_range(range)
    BY <1>1, <2>2, DownloadRange
  <2>3. UNCHANGED <<requested, tasks>> \/ pre_fetch_more_data(amount)
    BY DEF LoopPrefetch
  <2>4. ASSUME pre_fetch_more_data(amount)
        PROVE  \/ UNCHANGED <<requested, tasks>>
               \/ \E range \in SUBSET File : download_range(range)
    <3> DEFINE missing == File \ (downloaded \cup requested)
               tail_end == missing \cap Bytes(position, FileSize)
               from == IF tail_end # {} THEN tail_end ELSE missing
               range == Run(from, First(from)) \cap Bytes(First(from), amount)
    <3>1. UNCHANGED <<requested, tasks>> \/ download_range(range)
      BY <2>4 DEF pre_fetch_more_data
    <3>2. range \in SUBSET File
      BY BytesType
    <3> HIDE DEF range
    <3>3. QED
      BY <3>1, <3>2
  <2>5. QED
    BY <2>1, <2>2, <2>3, <2>4
<1>4. QED
  BY <1>2, <1>3, LoopStep DEF LoopPrefetch

\* The loop may end at any time: what it does not publish nobody waits for.
LEMMA LoopEndsInvariant ==
  ASSUME IInv, LoopEnds, failures' \in 0 .. MaxFailures,
         UNCHANGED <<status, streaming, tasks, complete, position, client>>
  PROVE  IInv'
<1>1. /\ requested' = requested /\ downloaded' = downloaded
      /\ written' = written /\ tasks' = tasks /\ loop' = "ended"
      /\ data' = <<>> /\ commands' = <<>>
      /\ UNCHANGED <<streaming, complete, position, client>>
  BY DEF LoopEnds, status
<1>2. TypeOK'
  BY <1>1 DEF IInv, TypeOK
<1>3. TasksOK' /\ AllRequested'
  BY <1>1 DEF IInv, TasksOK, AllRequested, Missing
<1>4. Answered'
  BY <1>1 DEF Answered, Ended
<1>5. Exclusive'
  BY <1>1 DEF IInv, Exclusive, Missing
<1>6. LoopOK' /\ ReaderOK' /\ CachedFileIsComplete'
  BY <1>1 DEF IInv, LoopOK, ReaderOK, CachedFileIsComplete
<1>7. QED
  BY <1>2, <1>3, <1>4, <1>5, <1>6 DEF IInv

LEMMA LoopWriteInvariant ==
  ASSUME IInv, LoopWrite
  PROVE  IInv'
<1>1. /\ requested' = requested /\ downloaded' = downloaded
      /\ tasks' = tasks /\ loop' = "publish" /\ data' = data /\ loop = "select"
      /\ data # <<>> /\ written' = written \cup Head(data)
      /\ UNCHANGED <<streaming, commands, complete, position, client, failures>>
  BY DEF LoopWrite
<1>2. Head(data) \in SUBSET File
  BY <1>1 DEF IInv, TypeOK
<1>3. TypeOK'
  BY <1>1, <1>2 DEF IInv, TypeOK
<1>4. TasksOK' /\ AllRequested' /\ Answered' /\ Exclusive'
  <2>1. Ended => Ended'
    BY <1>1 DEF Ended
  <2>2. QED
    BY <1>1, <2>1, NoRequests
<1>5. LoopOK'
  BY <1>1 DEF IInv, LoopOK
<1>6. ReaderOK' /\ CachedFileIsComplete'
  BY <1>1, <1>2 DEF IInv, ReaderOK, CachedFileIsComplete, TypeOK
<1>7. QED
  BY <1>3, <1>4, <1>5, <1>6 DEF IInv

LEMMA TailOf ==
  ASSUME NEW S, NEW q \in Seq(S), q # <<>>
  PROVE  /\ Head(q) = q[1] /\ 1 \in DOMAIN q
         /\ Tail(q) \in Seq(S)
         /\ \A i \in DOMAIN Tail(q) :
              i \in Nat /\ i # 0 /\ i + 1 \in DOMAIN q /\ Tail(q)[i] = q[i + 1]
         /\ \A i \in DOMAIN q :
              i = 1 \/ (i \in Nat /\ i - 1 \in DOMAIN Tail(q) /\ Tail(q)[i - 1] = q[i])
OBVIOUS

\* Taking a message off the channel moves its bytes to the downloaded ones,
\* whether the loop goes on or ends with a complete file.
LEMMA Consumed ==
  ASSUME IInv, loop = "select" \/ loop = "publish",
         data # <<>>, Head(data) \subseteq written,
         downloaded' = downloaded \cup Head(data),
         UNCHANGED <<requested, written, streaming, tasks, position, failures>>,
         notify_all \/ UNCHANGED client,
         \/ complete' = TRUE /\ LoopEnds /\ Full(downloaded')
         \/ /\ loop' = "prefetch" /\ data' = Tail(data)
            /\ UNCHANGED <<complete, commands>>
  PROVE  IInv'
<1> DEFINE h == Head(data)
<1>1. /\ requested' = requested /\ written' = written /\ tasks' = tasks
      /\ UNCHANGED <<streaming, position, failures>>
      /\ downloaded' = downloaded \cup h
      /\ loop = "select" \/ loop = "publish"
      /\ notify_all \/ UNCHANGED client
  OBVIOUS
<1>2. data \in Seq(SUBSET File) /\ data # <<>> /\ h \subseteq written
  BY DEF IInv, TypeOK
<1>3. /\ h = data[1] /\ 1 \in DOMAIN data
      /\ Tail(data) \in Seq(SUBSET File)
      /\ \A i \in DOMAIN Tail(data) :
           i \in Nat /\ i # 0 /\ i + 1 \in DOMAIN data /\ Tail(data)[i] = data[i + 1]
      /\ \A i \in DOMAIN data :
           \/ i = 1
           \/ i \in Nat /\ i - 1 \in DOMAIN Tail(data) /\ Tail(data)[i - 1] = data[i]
  BY <1>2, TailOf
<1>4. /\ h \in SUBSET File /\ h \subseteq requested
      /\ \A t \in tasks : Missing(t) \cap h = {}
  <2>1. h \in SUBSET File
    BY <1>2
  <2>2. QED
    BY <1>3, <2>1 DEF IInv, AllRequested, Exclusive
<1> HIDE DEF h
<1>5. client' \in Client /\ client'.pc = client.pc /\ client'.range = client.range
  <2>1. client \in Client
    BY DEF IInv, TypeOK
  <2>2. QED
    BY <1>1, <2>1, NotifyType
<1>6. downloaded' \in SUBSET File /\ downloaded' \subseteq written
  BY <1>1, <1>2, <1>4 DEF IInv, TypeOK, LoopOK
<1>7. /\ TasksOK'
      /\ \A t \in tasks' : Missing(t) \subseteq requested'
      /\ downloaded' \subseteq requested'
      /\ \A t, u \in tasks' : t # u => Missing(t) \cap Missing(u) = {}
      /\ \A t \in tasks' : Missing(t) \cap downloaded' = {}
  <2>1. TasksOK'
    BY <1>1 DEF IInv, TasksOK
  <2>2. (\A t \in tasks' : Missing(t) \subseteq requested')
        /\ downloaded' \subseteq requested'
    BY <1>1, <1>4 DEF IInv, AllRequested
  <2>3. \A t, u \in tasks' : t # u => Missing(t) \cap Missing(u) = {}
    BY <1>1 DEF IInv, Exclusive
  <2>4. \A t \in tasks' : Missing(t) \cap downloaded' = {}
    BY <1>1, <1>4 DEF IInv, Exclusive
  <2>5. QED
    BY <2>1, <2>2, <2>3, <2>4
<1>8. ReaderOK'
  BY <1>1, <1>5 DEF IInv, ReaderOK
<1>9. CASE complete' = TRUE /\ LoopEnds /\ Full(downloaded')
  <2>1. loop' = "ended" /\ commands' = <<>> /\ data' = <<>> /\ complete' = TRUE
    BY <1>9 DEF LoopEnds
  <2>2. TypeOK'
    BY <1>1, <1>5, <1>6, <2>1 DEF IInv, TypeOK
  <2>3. AllRequested' /\ Exclusive'
    <3>1. DOMAIN data' = {}
      BY <2>1
    <3>2. QED
      BY <1>7, <3>1 DEF AllRequested, Exclusive, Missing
  <2>4. Answered'
    BY <2>1 DEF Answered, Ended
  <2>5. LoopOK'
    BY <1>1, <1>6, <2>1 DEF LoopOK
  <2>6. CachedFileIsComplete'
    <3>1. written \subseteq File
      BY DEF IInv, TypeOK
    <3>2. QED
      BY <1>1, <1>6, <1>9, <3>1 DEF CachedFileIsComplete, Full
  <2>7. QED
    BY <1>7, <1>8, <2>2, <2>3, <2>4, <2>5, <2>6 DEF IInv
<1>10. CASE loop' = "prefetch" /\ data' = Tail(data) /\ UNCHANGED <<complete, commands>>
  <2>1. TypeOK'
    BY <1>1, <1>3, <1>5, <1>6, <1>10 DEF IInv, TypeOK
  <2>2. \A i \in DOMAIN data' : data'[i] \subseteq requested
    BY <1>3, <1>10 DEF IInv, AllRequested
  <2>3. \A t \in tasks, i \in DOMAIN data' : Missing(t) \cap data'[i] = {}
    BY <1>3, <1>10 DEF IInv, Exclusive
  <2>4. ASSUME NEW i \in DOMAIN data', NEW j \in DOMAIN data', i # j
        PROVE  data'[i] \cap data'[j] = {}
    <3>1. i + 1 # j + 1
      BY <1>3, <1>10, <2>4
    <3>2. QED
      BY <1>3, <1>10, <3>1 DEF IInv, Exclusive
  <2>5. ASSUME NEW i \in DOMAIN data' PROVE data'[i] \cap downloaded' = {}
    <3>1. i + 1 # 1 /\ i + 1 \in DOMAIN data /\ data'[i] = data[i + 1]
      BY <1>3, <1>10
    <3>2. data[i + 1] \cap h = {}
      BY <1>3, <3>1 DEF IInv, Exclusive
    <3>3. data[i + 1] \cap downloaded = {}
      BY <3>1 DEF IInv, Exclusive
    <3>4. QED
      BY <1>1, <3>1, <3>2, <3>3
  <2>6. AllRequested'
    BY <1>1, <1>7, <2>2 DEF AllRequested, Missing
  <2>7. Exclusive'
    BY <1>1, <1>7, <2>3, <2>4, <2>5 DEF Exclusive, Missing
  <2>8. Answered'
    <3> SUFFICES ASSUME NEW b \in requested'
                 PROVE  \/ b \in downloaded'
                        \/ \E i \in DOMAIN data' : b \in data'[i]
                        \/ \E t \in tasks' : b \in Missing(t)
      BY DEF Answered, Missing
    <3>1. \/ b \in downloaded
          \/ \E i \in DOMAIN data : b \in data[i]
          \/ \E t \in tasks : b \in Missing(t)
      BY <1>1 DEF IInv, Answered, Ended
    <3>2. ASSUME NEW i \in DOMAIN data, b \in data[i]
          PROVE  b \in downloaded' \/ \E j \in DOMAIN data' : b \in data'[j]
      <4>1. CASE i = 1
        BY <1>1, <1>3, <3>2, <4>1
      <4>2. CASE i # 1
        BY <1>3, <1>10, <3>2, <4>2
      <4>3. QED
        BY <4>1, <4>2
    <3>3. QED
      BY <1>1, <3>1, <3>2
  <2>9. LoopOK'
    BY <1>1, <1>6, <1>10 DEF LoopOK
  <2>10. CachedFileIsComplete'
    BY <1>1, <1>10 DEF IInv, CachedFileIsComplete
  <2>11. QED
    BY <1>7, <1>8, <2>1, <2>6, <2>7, <2>8, <2>9, <2>10 DEF IInv
<1>11. QED
  BY <1>9, <1>10

LEMMA LoopMeasuresInvariant ==
  ASSUME IInv, LoopMeasures
  PROVE  IInv'
<1>1. /\ requested' = requested /\ written' = written /\ tasks' = tasks
      /\ downloaded' = downloaded /\ Head(data) = {}
  BY DEF LoopMeasures, status
<1>2. /\ Head(data) \subseteq written
      /\ downloaded' = downloaded \cup Head(data)
  BY <1>1
<1>3. QED
  BY <1>1, <1>2, Consumed DEF LoopMeasures

LEMMA LoopPublishInvariant ==
  ASSUME IInv, LoopPublish
  PROVE  IInv'
<1>1. data # <<>> /\ Head(data) \subseteq written
  BY DEF LoopPublish, IInv, LoopOK
<1>2. QED
  BY <1>1, Consumed DEF LoopPublish

-----------------------------------------------------------------------------
(* The theorems. *)

LEMMA InitInvariant ==
  ASSUME Init
  PROVE  IInv
<1>1. TypeOK
  <2>1. client \in Client /\ commands \in Seq(Command) /\ data \in Seq(SUBSET File)
    BY IdleType DEF Init
  <2>2. position \in 0 .. FileSize /\ failures \in 0 .. MaxFailures
    BY FetchAssumption DEF Init, FetchAssumption
  <2>3. QED
    BY <2>1, <2>2 DEF Init, TypeOK
<1>2. TasksOK /\ AllRequested /\ Answered /\ Exclusive
  <2>1. /\ tasks = {} /\ requested = {} /\ downloaded = {} /\ DOMAIN data = {}
    BY DEF Init
  <2>2. QED
    BY <2>1 DEF TasksOK, AllRequested, Answered, Exclusive
<1>3. LoopOK /\ ReaderOK /\ CachedFileIsComplete
  BY IdleType DEF Init, LoopOK, ReaderOK, CachedFileIsComplete
<1>4. QED
  BY <1>1, <1>2, <1>3 DEF IInv

LEMMA NextInvariant ==
  ASSUME IInv, [Next]_vars
  PROVE  IInv'
<1>1. CASE ClientCalls \/ ClientSteps \/ WaitTimesOut
  BY <1>1, ClientInvariant
<1>2. CASE Downloads
  <2>1. ASSUME NEW t \in tasks, TakeSlot(t) PROVE IInv'
    BY <2>1, TakeSlotInvariant
  <2>2. ASSUME NEW t \in tasks, NEW got \in Prefixes(t.range),
               Respond(t, got)
        PROVE  IInv'
    BY <2>2, RespondInvariant
  <2>3. ASSUME NEW t \in tasks, Settle(t) PROVE IInv'
    BY <2>3, SettleInvariant
  <2>4. QED
    BY <1>2, <2>1, <2>2, <2>3 DEF Downloads
<1>3. CASE Loop
  <2>1. CASE LoopCloses
    <3>1. failures' \in 0 .. MaxFailures
      BY <2>1 DEF LoopCloses, IInv, TypeOK
    <3>2. QED
      BY <2>1, <3>1, LoopEndsInvariant DEF LoopCloses
  <2>2. QED
    BY <1>3, <2>1, LoopStartInvariant, LoopFetchInvariant, LoopMeasuresInvariant,
       LoopWriteInvariant, LoopPublishInvariant, LoopPrefetchInvariant DEF Loop
<1>4. CASE LoopWriteFails
  <2>1. failures' \in 0 .. MaxFailures
    BY <1>4, FetchAssumption DEF LoopWriteFails, IInv, TypeOK, FetchAssumption
  <2>2. QED
    BY <1>4, <2>1, LoopEndsInvariant DEF LoopWriteFails
<1>5. CASE UNCHANGED vars
  <2>1. /\ UNCHANGED <<status, tasks, data, loop, complete, failures>>
        /\ UNCHANGED <<streaming, commands, position, client>>
    BY <1>5 DEF vars, status
  <2>2. /\ streaming' \in BOOLEAN /\ commands' \in Seq(Command)
        /\ position' \in 0 .. FileSize /\ client' \in Client
        /\ client'.pc = "copy" => client'.range \subseteq downloaded
    BY <2>1 DEF IInv, TypeOK, ReaderOK
  <2>3. QED
    BY <2>1, <2>2, ClientStep
<1>6. QED
  BY <1>1, <1>2, <1>3, <1>4, <1>5 DEF Next

\* The accounts of the download status balance in every reachable state, for
\* every file size and every bound: the invariant the other theorems rest on.
THEOREM Invariant == Spec => []IInv
BY InitInvariant, NextInvariant, PTL DEF Spec

\* Every variable of the download has its type: requested, downloaded and
\* written bytes, tasks and channels never leave the file.
THEOREM TypeCorrect == Spec => []TypeOK
<1>1. IInv => TypeOK
  BY DEF IInv
<1>2. QED
  BY <1>1, Invariant, PTL

\* While audio_file_fetch runs, every byte that counts as requested is there,
\* received, or answered for by a receive_data task.
THEOREM NoByteIsForgotten == Spec => []NoOrphans
<1>1. IInv => NoOrphans
  BY DEF IInv, Answered, NoOrphans, Owed, Received
<1>2. QED
  BY <1>1, Invariant, PTL

\* download_range and the tasks never bring a byte of the file twice.
THEOREM NoByteIsDownloadedTwice == Spec => []DownloadedOnce
<1>1. IInv => DownloadedOnce
  <2> SUFFICES ASSUME IInv PROVE DownloadedOnce
    OBVIOUS
  <2>1. Owed \cap Received = {} /\ Owed \cap downloaded = {}
    BY DEF IInv, Exclusive, Owed, Received
  <2>2. Received \cap downloaded = {}
    BY DEF IInv, Exclusive, Received
  <2>3. QED
    BY <2>1, <2>2 DEF IInv, Exclusive, DownloadedOnce
<1>2. QED
  BY <1>1, Invariant, PTL

\* Read::read copies bytes that handle_file_data has written, although neither
\* holds the lock while it works on the file.
THEOREM ReadersGetWrittenBytes == Spec => []ReadsWhatIsWritten
<1>1. IInv => ReadsWhatIsWritten
  BY DEF IInv, ReaderOK, LoopOK, ReadsWhatIsWritten
<1>2. QED
  BY <1>1, Invariant, PTL

\* handle_file_data hands over only complete files to the cache.
THEOREM OnlyCompleteFilesAreCached == Spec => []CachedFileIsComplete
<1>1. IInv => CachedFileIsComplete
  BY DEF IInv
<1>2. QED
  BY <1>1, Invariant, PTL

-----------------------------------------------------------------------------
(* A blocked fetch that was woken up once. *)

AskedFor(b) ==
  \/ b \in downloaded
  \/ b \in requested
  \/ \E i \in DOMAIN commands : b \in commands[i].range

\* RetriedFetchIsPending, bytewise.
Pending ==
  (client.pc = "block_rewait" /\ ~client.woken /\ ~Ended) =>
    \A b \in client.range : AskedFor(b)

\* Bytes that are asked for stay so unless the sleeper is told otherwise.
LEMMA PendingStays ==
  ASSUME Pending, client \in Client, notify_all \/ UNCHANGED client,
         Ended => Ended',
         ~Ended' => \A b \in File : AskedFor(b) => AskedFor(b)'
  PROVE  Pending'
<1> SUFFICES ASSUME client'.pc = "block_rewait", ~client'.woken, ~Ended',
                    NEW b \in client'.range
             PROVE  AskedFor(b)'
  BY DEF Pending
<1>1. client' = client
  <2>1. CASE UNCHANGED client
    BY <2>1
  <2>2. CASE notify_all /\ Asleep
    BY <2>2 DEF notify_all, Client
  <2>3. CASE notify_all /\ ~Asleep
    BY <2>3 DEF notify_all
  <2>4. QED
    BY <2>1, <2>2, <2>3
<1>2. AskedFor(b)
  BY <1>1 DEF Pending
<1>3. b \in File
  BY <1>1 DEF Client
<1>4. QED
  BY <1>2, <1>3

\* A range taken off the channel is there or requested before the loop goes on.
LEMMA FetchedIsAskedFor ==
  ASSUME IInv, LoopFetch, NEW b \in File, AskedFor(b)
  PROVE  AskedFor(b)'
<1> DEFINE rest == Head(commands).range
           run  == IF rest = {} THEN {} ELSE Run(rest, First(rest))
<1>1. /\ commands \in Seq(Command) /\ commands # <<>>
      /\ downloaded' = downloaded
  BY DEF LoopFetch, IInv, TypeOK
<1>2. requested \subseteq requested' /\ run \subseteq downloaded \cup requested'
  <2>1. CASE run = {}
    BY <2>1 DEF LoopFetch
  <2>2. CASE run # {}
    <3>1. download_range(run)
      BY <2>2 DEF LoopFetch
    <3> HIDE DEF run
    <3>2. QED
      BY <3>1 DEF download_range
  <2>3. QED
    BY <2>1, <2>2
<1>3. \/ rest = run /\ commands' = Tail(commands)
      \/ commands' = [commands EXCEPT ![1].range = rest \ run]
  BY DEF LoopFetch
<1>4. commands[1] = Head(commands) /\ 1 \in DOMAIN commands
  BY <1>1
<1>5. commands[1].range = rest
  BY <1>4
<1> HIDE DEF run, rest
<1>6. CASE \E i \in DOMAIN commands : b \in commands[i].range
  <2>1. PICK i \in DOMAIN commands : b \in commands[i].range
    BY <1>6
  <2>2. CASE b \in run
    BY <1>1, <1>2, <2>2 DEF AskedFor
  <2>3. CASE b \notin run /\ rest = run /\ commands' = Tail(commands)
    <3>1. i # 1
      BY <1>5, <2>1, <2>3
    <3>2. i - 1 \in DOMAIN Tail(commands) /\ Tail(commands)[i - 1] = commands[i]
      BY <1>1, <3>1, TailOf
    <3>3. QED
      BY <2>1, <2>3, <3>2 DEF AskedFor
  <2>4. CASE /\ b \notin run
             /\ commands' = [commands EXCEPT ![1].range = rest \ run]
    <3>1. DOMAIN commands' = DOMAIN commands
      BY <2>4
    <3>2. CASE i # 1
      <4>1. commands'[i] = commands[i]
        BY <2>4, <3>2
      <4>2. QED
        BY <2>1, <3>1, <4>1 DEF AskedFor
    <3>3. CASE i = 1
      <4>1. b \in rest \ run
        BY <1>5, <2>1, <2>4, <3>3
      <4>2. commands[1] \in Command
        BY <1>1, <1>4
      <4>3. commands'[1].range = rest \ run
        BY <1>4, <2>4, <4>2 DEF Command
      <4>4. QED
        BY <1>4, <3>1, <4>1, <4>3 DEF AskedFor
    <3>4. QED
      BY <3>2, <3>3
  <2>5. QED
    BY <1>3, <2>2, <2>3, <2>4
<1>7. CASE b \in downloaded \/ b \in requested
  BY <1>1, <1>2, <1>7 DEF AskedFor
<1>8. QED
  BY <1>6, <1>7 DEF AskedFor

\* A command that is sent is in the channel.
LEMMA SentLast ==
  ASSUME NEW S, NEW q \in Seq(S), NEW x \in S, NEW d, d = q \o <<x>>
  PROVE  \E i \in DOMAIN d : d[i] = x
<1>1. <<x>> \in Seq(S) /\ Len(<<x>>) = 1 /\ <<x>>[1] = x
  OBVIOUS
<1>2. Len(q) \in Nat /\ Len(d) = Len(q) + 1 /\ d \in Seq(S)
  BY <1>1
<1>3. Len(q) + 1 \in DOMAIN d
  BY <1>2
<1>4. d[Len(q) + 1] = x
  BY <1>1, <1>2
<1>5. QED
  BY <1>3, <1>4

\* Woken up, fetch_blocking sends the range again if some of it was given up on.
LEMMA BlockWakesPending ==
  ASSUME IInv, BlockWakes
  PROVE  Pending'
<1> SUFFICES ASSUME client'.pc = "block_rewait", ~Ended',
                    NEW b \in client'.range
             PROVE  AskedFor(b)'
  BY DEF Pending
<1>1. ~Ended /\ UNCHANGED <<requested, downloaded>>
  BY DEF BlockWakes, Ended, status
<1>2. client'.range = client.range
  BY IdleType DEF BlockWakes, Does
<1>3. CASE client.range \subseteq downloaded \cup requested
  BY <1>1, <1>2, <1>3 DEF AskedFor
<1>4. CASE ~ (client.range \subseteq downloaded \cup requested)
  <2>1. commands \in Seq(Command) /\ Fetch(client.range) \in Command
    BY FetchType DEF IInv, TypeOK, Client
  <2>2. commands' = commands \o <<Fetch(client.range)>>
    BY <1>1, <1>4 DEF BlockWakes, Sent
  <2>3. \E i \in DOMAIN commands' : commands'[i] = Fetch(client.range)
    BY <2>1, <2>2, SentLast
  <2>4. b \in Fetch(client.range).range
    BY <1>2 DEF Fetch
  <2>5. QED
    BY <2>3, <2>4 DEF AskedFor
<1>5. QED
  BY <1>3, <1>4

LEMMA NextPending ==
  ASSUME IInv, Pending, [Next]_vars
  PROVE  Pending'
<1>1. client \in Client
  BY DEF IInv, TypeOK
<1>2. CASE ClientCalls \/ ReadWakes \/ Copy \/ BlockLock \/ WaitTimesOut
  <2>1. client'.pc # "block_rewait"
    <3>1. CASE ClientCalls
      <4>1. ASSUME NEW length \in Buffers, Read(length)
            PROVE  client'.pc \in {"copy", "read_wait"}
        <5>1. \/ client' = Does("copy", Available(Bytes(position, length)))
              \/ client' = Does("read_wait", Bytes(position, length))
          BY <4>1 DEF Read
        <5>2. QED
          BY <5>1 DEF Does
      <4>2. ASSUME NEW p \in 0 .. FileSize, Seek(p) PROVE client'.pc = "idle"
        BY <4>2 DEF Seek
      <4>3. ASSUME NEW mode \in BOOLEAN, SetStreaming(mode)
            PROVE  client'.pc = "idle"
        BY <4>3 DEF SetStreaming
      <4>4. CASE fetch_next_and_wait(ReadAhead, ReadAhead)
        BY <4>4 DEF fetch_next_and_wait, Does
      <4>5. CASE CloseFile \/ DropFile
        BY <4>5 DEF CloseFile, DropFile, Does
      <4>6. QED
        BY <3>1, <4>1, <4>2, <4>3, <4>4, <4>5 DEF ClientCalls
    <3>2. CASE ReadWakes
      BY <1>1, <3>2 DEF ReadWakes, Does, Client
    <3>3. CASE Copy \/ WaitTimesOut
      BY <3>3 DEF Copy, WaitTimesOut, Idle
    <3>4. CASE BlockLock
      BY <1>1, <3>4 DEF BlockLock, Idle, Client
    <3>5. QED
      BY <1>2, <3>1, <3>2, <3>3, <3>4
  <2>2. QED
    BY <2>1 DEF Pending
<1>3. CASE BlockWakes
  BY <1>3, BlockWakesPending
<1>4. ASSUME UNCHANGED client \/ notify_all, loop # "ended" \/ loop' = "ended",
             \/ loop' = "ended"
             \/ /\ UNCHANGED commands
                /\ downloaded \subseteq downloaded'
                /\ requested \subseteq requested'
      PROVE  Pending'
  <2>1. Ended => Ended'
    BY <1>4 DEF Ended
  <2>2. ~Ended' => \A b \in File : AskedFor(b) => AskedFor(b)'
    BY <1>4 DEF Ended, AskedFor
  <2>3. QED
    BY <1>1, <1>4, <2>1, <2>2, PendingStays
<1>5. ASSUME NEW t \in tasks, TakeSlot(t) PROVE Pending'
  BY <1>4, <1>5 DEF TakeSlot, status
<1>6. ASSUME NEW t \in tasks, NEW got \in Prefixes(t.range), Respond(t, got)
      PROVE  Pending'
  BY <1>4, <1>6 DEF Respond, status
<1>7. ASSUME NEW t \in tasks, Settle(t) PROVE Pending'
  <2>1. UNCHANGED <<downloaded, commands, loop>>
    BY <1>7 DEF Settle
  <2>2. CASE Missing(t) = {}
    BY <1>4, <1>7, <2>1, <2>2 DEF Settle
  <2>3. CASE Missing(t) # {}
    <3>1. notify_all
      BY <1>7, <2>3 DEF Settle
    <3>2. client'.pc = "block_rewait" => client'.woken
      BY <1>1, <3>1 DEF notify_all, Asleep, Client
    <3>3. QED
      BY <3>2 DEF Pending
  <2>4. QED
    BY <2>2, <2>3
<1>8. CASE LoopFetch
  <2>1. \A b \in File : AskedFor(b) => AskedFor(b)'
    BY <1>8, FetchedIsAskedFor
  <2>2. UNCHANGED client /\ (Ended => Ended')
    BY <1>8 DEF LoopFetch, Ended
  <2>3. QED
    BY <1>1, <2>1, <2>2, PendingStays
<1>9. CASE LoopCloses \/ LoopWriteFails
  BY <1>4, <1>9 DEF LoopCloses, LoopWriteFails, LoopEnds
<1>10. CASE LoopStart \/ LoopMeasures \/ LoopWrite
  BY <1>4, <1>10 DEF LoopStart, LoopMeasures, LoopWrite, status
<1>11. CASE LoopPublish
  BY <1>4, <1>11 DEF LoopPublish, LoopEnds
<1>12. ASSUME NEW amount \in 0 .. FileSize, LoopPrefetch(amount)
       PROVE  Pending'
  <2>1. \/ UNCHANGED requested
        \/ \E range : download_range(range)
    BY <1>12 DEF LoopPrefetch, pre_fetch_more_data
  <2>2. requested \subseteq requested'
    BY <2>1 DEF download_range
  <2>3. QED
    BY <1>4, <1>12, <2>2 DEF LoopPrefetch
<1>13. CASE UNCHANGED vars
  BY <1>4, <1>13 DEF vars
<1>14. QED
  BY <1>2, <1>3, <1>5, <1>6, <1>7, <1>8, <1>9, <1>10, <1>11, <1>12, <1>13
  DEF Next, ClientSteps, Downloads, Loop

\* A fetch_blocking that sleeps again after it was woken up waits for bytes that
\* are there, under way or asked for: what a failed request gave up on between
\* two sleeps has been sent to the fetch loop again.
THEOREM RetriedFetchesArePending == Spec => []RetriedFetchIsPending
<1>1. Init => Pending
  BY IdleType DEF Init, Pending
<1>2. Pending => RetriedFetchIsPending
  BY DEF Pending, AskedFor, RetriedFetchIsPending, Queued
<1>3. QED
  BY <1>1, <1>2, NextPending, Invariant, PTL DEF Spec

-----------------------------------------------------------------------------
(* The range sets that the requested and the downloaded bytes are kept in,   *)
(* for files of any size                                                    *)

RangeRec == [start : Nat, length : Nat]
Vec == Seq(RangeRec)

\* A normal vector of ranges, and the bytes that one holds.
Sound(rs) == rs \in Vec /\ IsNormal(rs)
Has(rs, v) == \E i \in DOMAIN rs : Holds(rs[i], v)

\* The ranges of a vector, wherever they are.
Parts(rs) == {rs[i] : i \in DOMAIN rs}

-----------------------------------------------------------------------------
(* Vectors of ranges *)

\* What SMT needs to know of a range.
LEMMA RangeIs ==
  ASSUME NEW r \in RangeRec
  PROVE  /\ r.start \in Nat /\ r.length \in Nat /\ End(r) \in Nat
         /\ End(r) = r.start + r.length
         /\ \A v : Holds(r, v) <=> r.start <= v /\ v < End(r)
BY DEF RangeRec, End, Holds

LEMMA NewRangeIs ==
  ASSUME NEW s \in Nat, NEW e \in Nat, s <= e
  PROVE  /\ NewRange(s, e - s) \in RangeRec
         /\ NewRange(s, e - s).start = s
         /\ NewRange(s, e - s).length = e - s
         /\ End(NewRange(s, e - s)) = e
BY DEF RangeRec, NewRange, End

\* The i-th range of a vector.
LEMMA VecIs ==
  ASSUME NEW rs \in Vec
  PROVE  /\ Len(rs) \in Nat /\ DOMAIN rs = 1..Len(rs)
         /\ \A i \in 1..Len(rs) : rs[i] \in RangeRec
BY DEF Vec

\* A value is held by one of the parts.
LEMMA HasIs ==
  ASSUME NEW rs, NEW v
  PROVE  Has(rs, v) <=> \E r \in Parts(rs) : Holds(r, v)
BY DEF Has, Parts

\* In a normal vector the ranges start, and end, in the order of the vector.
LEMMA Sorted ==
  ASSUME NEW rs, Sound(rs), NEW i \in 1..Len(rs), NEW j \in 1..Len(rs), i <= j
  PROVE  /\ rs[i] \in RangeRec /\ rs[j] \in RangeRec
         /\ rs[i].start < End(rs[i]) /\ rs[j].start < End(rs[j])
         /\ rs[i].start <= rs[j].start /\ End(rs[i]) <= End(rs[j])
         /\ i < j => End(rs[i]) < rs[j].start
<1>1. rs \in Vec /\ IsNormal(rs)
  BY DEF Sound
<1>2. DOMAIN rs = 1..Len(rs) /\ rs[i] \in RangeRec /\ rs[j] \in RangeRec
  BY <1>1, VecIs
<1>3. rs[i].length > 0 /\ rs[j].length > 0
      /\ (i < j => End(rs[i]) < rs[j].start)
  BY <1>1, <1>2 DEF IsNormal
<1> DEFINE a == rs[i]
           b == rs[j]
<1>4. a = b \/ i < j
  OBVIOUS
<1> HIDE DEF a, b
<1>5. /\ a.start \in Nat /\ a.length \in Nat /\ End(a) = a.start + a.length
      /\ b.start \in Nat /\ b.length \in Nat /\ End(b) = b.start + b.length
  BY <1>2, RangeIs DEF a, b
<1>6. a.length > 0 /\ b.length > 0 /\ (i < j => End(a) < b.start)
  BY <1>3 DEF a, b
<1>7. /\ a.start < End(a) /\ b.start < End(b)
      /\ a.start <= b.start /\ End(a) <= End(b)
  BY <1>4, <1>5, <1>6
<1>8. QED
  BY <1>2, <1>3, <1>7 DEF a, b

\* One vector followed by another.
LEMMA Joined ==
  ASSUME NEW a \in Vec, NEW b \in Vec
  PROVE  /\ a \o b \in Vec /\ Len(a \o b) = Len(a) + Len(b)
         /\ \A i \in 1..(Len(a) + Len(b)) :
              (a \o b)[i] = IF i <= Len(a) THEN a[i] ELSE b[i - Len(a)]
         /\ Parts(a \o b) = Parts(a) \cup Parts(b)
<1>1. /\ a \o b \in Vec /\ Len(a \o b) = Len(a) + Len(b)
      /\ \A i \in 1..(Len(a) + Len(b)) :
           (a \o b)[i] = IF i <= Len(a) THEN a[i] ELSE b[i - Len(a)]
  BY ConcatProperties DEF Vec
<1> DEFINE c == a \o b
<1> HIDE DEF c
<1>2. /\ c \in Vec /\ Len(c) = Len(a) + Len(b)
      /\ \A i \in 1..(Len(a) + Len(b)) :
           c[i] = IF i <= Len(a) THEN a[i] ELSE b[i - Len(a)]
  BY <1>1 DEF c
<1>3. /\ Len(a) \in Nat /\ DOMAIN a = 1..Len(a)
      /\ Len(b) \in Nat /\ DOMAIN b = 1..Len(b)
      /\ DOMAIN c = 1..Len(c)
  BY <1>2, VecIs
<1>4. ASSUME NEW r \in Parts(c) PROVE r \in Parts(a) \cup Parts(b)
  <2>1. PICK i \in 1..Len(c) : r = c[i]
    BY <1>3 DEF Parts
  <2>2. CASE i <= Len(a)
    <3>1. i \in 1..Len(a) /\ r = a[i]
      BY <1>2, <1>3, <2>1, <2>2
    <3>2. QED
      BY <1>3, <3>1 DEF Parts
  <2>3. CASE i > Len(a)
    <3>1. i - Len(a) \in 1..Len(b) /\ r = b[i - Len(a)]
      BY <1>2, <1>3, <2>1, <2>3
    <3>2. QED
      BY <1>3, <3>1 DEF Parts
  <2>4. QED
    BY <1>3, <2>2, <2>3
<1>5. ASSUME NEW r \in Parts(a) PROVE r \in Parts(c)
  <2>1. PICK i \in 1..Len(a) : r = a[i]
    BY <1>3 DEF Parts
  <2>2. i \in 1..Len(c) /\ r = c[i]
    BY <1>2, <1>3, <2>1
  <2>3. QED
    BY <1>3, <2>2 DEF Parts
<1>6. ASSUME NEW r \in Parts(b) PROVE r \in Parts(c)
  <2>1. PICK i \in 1..Len(b) : r = b[i]
    BY <1>3 DEF Parts
  <2>2. /\ i + Len(a) \in 1..Len(c) /\ ~(i + Len(a) <= Len(a))
        /\ (i + Len(a)) - Len(a) = i
    BY <1>2, <1>3, <2>1
  <2>3. r = c[i + Len(a)]
    BY <1>2, <2>1, <2>2
  <2>4. QED
    BY <1>3, <2>2, <2>3 DEF Parts
<1>7. Parts(c) = Parts(a) \cup Parts(b)
  BY <1>4, <1>5, <1>6
<1>8. QED
  BY <1>1, <1>7 DEF c

\* Normal vectors, each range of one a gap before each of the other, make one.
LEMMA JoinSound ==
  ASSUME NEW a, NEW b, Sound(a), Sound(b),
         \A x \in Parts(a), y \in Parts(b) : End(x) < y.start
  PROVE  Sound(a \o b) /\ Parts(a \o b) = Parts(a) \cup Parts(b)
<1> DEFINE c == a \o b
<1>1. a \in Vec /\ b \in Vec /\ IsNormal(a) /\ IsNormal(b)
  BY DEF Sound
<1>2. /\ c \in Vec /\ Len(c) = Len(a) + Len(b)
      /\ \A i \in 1..(Len(a) + Len(b)) :
           c[i] = IF i <= Len(a) THEN a[i] ELSE b[i - Len(a)]
      /\ Parts(c) = Parts(a) \cup Parts(b)
  BY <1>1, Joined
<1> HIDE DEF c
<1>3. /\ Len(a) \in Nat /\ DOMAIN a = 1..Len(a)
      /\ Len(b) \in Nat /\ DOMAIN b = 1..Len(b)
      /\ DOMAIN c = 1..Len(c)
  BY <1>1, <1>2, VecIs
<1>4. ASSUME NEW i \in 1..Len(c)
      PROVE  \/ i \in 1..Len(a) /\ c[i] = a[i]
             \/ i - Len(a) \in 1..Len(b) /\ c[i] = b[i - Len(a)] /\ i > Len(a)
  BY <1>2, <1>3
<1>5. ASSUME NEW i \in 1..Len(c) PROVE c[i].length > 0
  BY <1>1, <1>3, <1>4 DEF IsNormal
<1>6. ASSUME NEW i \in 1..Len(c), NEW j \in 1..Len(c), i < j
      PROVE  End(c[i]) < c[j].start
  <2>1. CASE i \in 1..Len(a) /\ c[i] = a[i] /\ j \in 1..Len(a) /\ c[j] = a[j]
    <3>1. End(a[i]) < a[j].start
      BY <1>1, <1>3, <1>6, <2>1 DEF IsNormal
    <3>2. QED
      BY <2>1, <3>1
  <2>2. CASE /\ i \in 1..Len(a) /\ c[i] = a[i]
             /\ j - Len(a) \in 1..Len(b) /\ c[j] = b[j - Len(a)]
    <3>1. c[i] \in Parts(a) /\ c[j] \in Parts(b)
      BY <1>3, <2>2 DEF Parts
    <3>2. QED
      BY <3>1
  <2>3. CASE /\ i - Len(a) \in 1..Len(b) /\ c[i] = b[i - Len(a)] /\ i > Len(a)
             /\ j - Len(a) \in 1..Len(b) /\ c[j] = b[j - Len(a)]
    <3> DEFINE k == i - Len(a)
               l == j - Len(a)
    <3>1. k < l
      BY <1>3, <1>6
    <3> HIDE DEF k, l
    <3>2. k \in 1..Len(b) /\ c[i] = b[k] /\ l \in 1..Len(b) /\ c[j] = b[l]
      BY <2>3 DEF k, l
    <3>3. End(b[k]) < b[l].start
      BY <1>1, <1>3, <3>1, <3>2 DEF IsNormal
    <3>4. QED
      BY <3>2, <3>3
  <2>4. ~(i > Len(a) /\ j \in 1..Len(a))
    BY <1>3, <1>6
  <2>5. QED
    BY <1>4, <2>1, <2>2, <2>3, <2>4
<1>7. IsNormal(c)
  BY <1>3, <1>5, <1>6 DEF IsNormal
<1>8. QED
  BY <1>2, <1>7 DEF Sound, c

\* One range that is not empty.
LEMMA OneSound ==
  ASSUME NEW r \in RangeRec, r.length > 0
  PROVE  Sound(<<r>>) /\ Parts(<<r>>) = {r}
<1>1. <<r>> \in Seq(RangeRec)
  OBVIOUS
<1>2. <<r>> \in Vec
  BY <1>1 DEF Vec
<1> DEFINE s == <<r>>
<1>3. s[1] = r /\ Len(s) = 1
  OBVIOUS
<1> HIDE DEF s
<1>4. DOMAIN s = 1..1 /\ 1 \in 1..1 /\ \A i \in 1..1 : i = 1
  BY <1>2, <1>3, VecIs DEF s
<1>5. IsNormal(s)
  BY <1>3, <1>4 DEF IsNormal
<1>6. Parts(s) = {r}
  BY <1>3, <1>4 DEF Parts
<1>7. QED
  BY <1>2, <1>5, <1>6 DEF Sound, s

LEMMA NoneSound == Sound(<<>>) /\ Parts(<<>>) = {}
<1>1. <<>> \in Seq(RangeRec)
  OBVIOUS
<1> DEFINE s == <<>>
<1>2. s \in Vec /\ Len(s) = 0
  BY <1>1 DEF Vec
<1> HIDE DEF s
<1>3. DOMAIN s = {}
  BY <1>2, VecIs
<1>4. IsNormal(s)
  BY <1>3 DEF IsNormal
<1>5. Parts(s) = {}
  BY <1>3 DEF Parts
<1>6. QED
  BY <1>2, <1>4, <1>5 DEF Sound, s

\* A piece of a normal vector.
LEMMA PieceSound ==
  ASSUME NEW rs, Sound(rs), NEW m \in 1..(Len(rs) + 1), NEW n \in 0..Len(rs)
  PROVE  /\ Sound(SubSeq(rs, m, n))
         /\ Parts(SubSeq(rs, m, n)) = {rs[i] : i \in m..n}
<1> DEFINE N == Len(rs)
           s == SubSeq(rs, m, n)
<1>1. rs \in Vec /\ IsNormal(rs)
  BY DEF Sound
<1>2. N \in Nat /\ DOMAIN rs = 1..N /\ \A i \in 1..N : rs[i] \in RangeRec
  BY <1>1, VecIs
<1> HIDE DEF N
<1>3. m \in 1..(N + 1) /\ n \in 0..N
  BY DEF N
<1>4. m \in Int /\ n \in Int /\ \A i \in m..n : i \in 1..N
  BY <1>2, <1>3
<1>5. \A i \in m..n : rs[i] \in RangeRec
  BY <1>2, <1>4
<1>6. /\ s \in Vec /\ Len(s) = (IF m <= n THEN n - m + 1 ELSE 0)
      /\ \A i \in 1..(n - m + 1) : s[i] = rs[m + i - 1]
  BY <1>4, <1>5, SubSeqProperties DEF Vec
<1> HIDE DEF s
<1>7. /\ DOMAIN s = 1..Len(s)
      /\ \A i \in 1..Len(s) : i \in 1..(n - m + 1) /\ m + i - 1 \in m..n
  BY <1>4, <1>6, VecIs
<1>8. \A i \in 1..Len(s) : m + i - 1 \in 1..N /\ s[i] = rs[m + i - 1]
  BY <1>4, <1>6, <1>7
<1>9. \A i, j \in 1..Len(s) : i < j => m + i - 1 < m + j - 1
  BY <1>4, <1>7
<1>10. IsNormal(s)
  <2>1. \A i \in 1..Len(s) : s[i].length > 0
    BY <1>1, <1>2, <1>8 DEF IsNormal
  <2>2. ASSUME NEW i \in 1..Len(s), NEW j \in 1..Len(s), i < j
        PROVE  End(s[i]) < s[j].start
    <3> DEFINE k == m + i - 1
               l == m + j - 1
    <3>1. k < l /\ k \in 1..N /\ l \in 1..N /\ s[i] = rs[k] /\ s[j] = rs[l]
      BY <1>8, <1>9, <2>2
    <3> HIDE DEF k, l
    <3>2. End(rs[k]) < rs[l].start
      BY <1>1, <1>2, <3>1 DEF IsNormal
    <3>3. QED
      BY <3>1, <3>2
  <2>3. QED
    BY <1>7, <2>1, <2>2 DEF IsNormal
<1>11. Parts(s) = {rs[i] : i \in m..n}
  <2>1. ASSUME NEW r \in Parts(s) PROVE r \in {rs[i] : i \in m..n}
    BY <1>7, <1>8, <2>1 DEF Parts
  <2>2. ASSUME NEW i \in m..n PROVE rs[i] \in Parts(s)
    <3> DEFINE k == i - m + 1
    <3>1. k \in 1..Len(s) /\ m + k - 1 = i
      BY <1>4, <1>6
    <3> HIDE DEF k
    <3>2. s[k] = rs[i]
      BY <1>8, <3>1
    <3>3. QED
      BY <1>7, <3>1, <3>2 DEF Parts
  <2>3. QED
    BY <2>1, <2>2
<1>12. QED
  BY <1>6, <1>10, <1>11 DEF Sound, s

\* The first index of a set, or the one behind the vector.
LEMMA FirstIs ==
  ASSUME NEW rs \in Vec, NEW I \in SUBSET (1..Len(rs))
  PROVE  /\ FirstOf(rs, I) \in 1..(Len(rs) + 1)
         /\ FirstOf(rs, I) <= Len(rs) => FirstOf(rs, I) \in I
         /\ \A j \in I : FirstOf(rs, I) <= j
<1>1. Len(rs) \in Nat
  BY VecIs
<1>2. CASE I = {}
  BY <1>1, <1>2 DEF FirstOf
<1>3. CASE I # {}
  <2>1. I \in SUBSET Nat
    BY <1>1
  <2>2. \E i \in I : \A j \in I : i <= j
    BY <1>3, <2>1, LeastNumber
  <2>3. Min(I) \in I /\ \A j \in I : Min(I) <= j
    BY <2>2, Zenon DEF Min
  <2>4. FirstOf(rs, I) = Min(I)
    BY <1>3 DEF FirstOf
  <2> DEFINE m == Min(I)
             N == Len(rs)
  <2> HIDE DEF m, N
  <2>5. m \in I /\ (\A j \in I : m <= j) /\ I \subseteq 1..N /\ N \in Nat
    BY <1>1, <2>3 DEF m, N
  <2>6. m \in 1..(N + 1)
    BY <2>5
  <2>7. QED
    BY <2>4, <2>5, <2>6 DEF m, N
<1>4. QED
  BY <1>2, <1>3
-----------------------------------------------------------------------------
(* Adding a range *)

LEMMA MinOfTwo ==
  ASSUME NEW a \in Nat, NEW b \in Nat
  PROVE  Min({a, b}) = (IF a <= b THEN a ELSE b)
<1>1. \E x \in {a, b} : \A y \in {a, b} : x <= y
  OBVIOUS
<1>2. Min({a, b}) \in {a, b} /\ \A y \in {a, b} : Min({a, b}) <= y
  BY <1>1, Zenon DEF Min
<1> DEFINE m == Min({a, b})
<1> HIDE DEF m
<1>3. (m = a \/ m = b) /\ m <= a /\ m <= b
  BY <1>2 DEF m
<1>4. m = (IF a <= b THEN a ELSE b)
  BY <1>3
<1>5. QED
  BY <1>4 DEF m

LEMMA MaxOfTwo ==
  ASSUME NEW a \in Nat, NEW b \in Nat
  PROVE  Max({a, b}) = (IF a >= b THEN a ELSE b)
<1>1. \E x \in {a, b} : \A y \in {a, b} : x >= y
  OBVIOUS
<1>2. Max({a, b}) \in {a, b} /\ \A y \in {a, b} : Max({a, b}) >= y
  BY <1>1, Zenon DEF Max
<1> DEFINE m == Max({a, b})
<1> HIDE DEF m
<1>3. (m = a \/ m = b) /\ m >= a /\ m >= b
  BY <1>2 DEF m
<1>4. m = (IF a >= b THEN a ELSE b)
  BY <1>3
<1>5. QED
  BY <1>4 DEF m

\* The cover of two ranges starts where the first of them does and ends where
\* the last does; when they overlap or touch, it holds what they hold.
LEMMA CoverIs ==
  ASSUME NEW a \in RangeRec, NEW b \in RangeRec
  PROVE  /\ Cover(a, b) \in RangeRec
         /\ Cover(a, b).start = (IF a.start <= b.start THEN a.start ELSE b.start)
         /\ End(Cover(a, b)) = (IF End(a) >= End(b) THEN End(a) ELSE End(b))
         /\ a.start <= End(b) /\ b.start <= End(a)
              => \A v \in Nat :
                   Holds(Cover(a, b), v) <=> Holds(a, v) \/ Holds(b, v)
<1> DEFINE s == Min({a.start, b.start})
           e == Max({End(a), End(b)})
           c == Cover(a, b)
<1>1. c = NewRange(s, e - s)
  BY DEF Cover
<1>2. /\ a.start \in Nat /\ a.length \in Nat /\ End(a) = a.start + a.length
      /\ b.start \in Nat /\ b.length \in Nat /\ End(b) = b.start + b.length
      /\ End(a) \in Nat /\ End(b) \in Nat
      /\ \A v : Holds(a, v) <=> a.start <= v /\ v < End(a)
      /\ \A v : Holds(b, v) <=> b.start <= v /\ v < End(b)
  BY RangeIs
<1>3. /\ s = (IF a.start <= b.start THEN a.start ELSE b.start)
      /\ e = (IF End(a) >= End(b) THEN End(a) ELSE End(b))
  BY <1>2, MinOfTwo, MaxOfTwo
<1> HIDE DEF s, e, c
<1>4. s \in Nat /\ e \in Nat /\ s <= e
  BY <1>2, <1>3
<1>5. c \in RangeRec /\ c.start = s /\ End(c) = e
  BY <1>1, <1>4, NewRangeIs
<1>6. \A v : Holds(c, v) <=> s <= v /\ v < e
  BY <1>5, RangeIs
<1>7. ASSUME a.start <= End(b), b.start <= End(a), NEW v \in Nat
      PROVE  Holds(c, v) <=> Holds(a, v) \/ Holds(b, v)
  BY <1>2, <1>3, <1>6, <1>7
<1>8. QED
  BY <1>3, <1>5, <1>7 DEF c

\* A range in place of the ranges i .. k-1, with a gap to those on both sides.
LEMMA Replaced ==
  ASSUME NEW rs, Sound(rs), NEW i \in 1..(Len(rs) + 1), NEW k \in i..(Len(rs) + 1),
         NEW g \in RangeRec, g.length > 0,
         \A j \in 1..(i - 1) : End(rs[j]) < g.start,
         \A j \in k..Len(rs) : End(g) < rs[j].start
  PROVE  /\ Sound(SubSeq(rs, 1, i - 1) \o <<g>> \o From(rs, k))
         /\ \A v \in Nat :
              Has(SubSeq(rs, 1, i - 1) \o <<g>> \o From(rs, k), v)
                <=> \/ Holds(g, v)
                    \/ \E j \in 1..Len(rs) : Holds(rs[j], v) /\ (j < i \/ k <= j)
<1> DEFINE N == Len(rs)
           a == SubSeq(rs, 1, i - 1)
           b == SubSeq(rs, k, N)
           s == <<g>>
<1>1. N \in Nat
  BY VecIs DEF Sound
<1> HIDE DEF N
<1>2. i \in 1..(N + 1) /\ k \in i..(N + 1)
  BY DEF N
<1>3. 1 \in 1..(N + 1) /\ i - 1 \in 0..N /\ k \in 1..(N + 1) /\ N \in 0..N
  BY <1>1, <1>2
<1>4. Sound(a) /\ Parts(a) = {rs[j] : j \in 1..(i - 1)}
  BY <1>3, PieceSound DEF N
<1>5. Sound(b) /\ Parts(b) = {rs[j] : j \in k..N}
  BY <1>3, PieceSound DEF N
<1>6. Sound(s) /\ Parts(s) = {g}
  BY OneSound
<1> HIDE DEF a, b, s
<1>7. \A x \in Parts(a), y \in Parts(s) : End(x) < y.start
  BY <1>4, <1>6
<1>8. Sound(a \o s) /\ Parts(a \o s) = Parts(a) \cup Parts(s)
  BY <1>4, <1>6, <1>7, JoinSound
<1>9. \A y \in Parts(b) : End(g) < y.start
  BY <1>5 DEF N
<1>10. ASSUME NEW x \in Parts(a), NEW y \in Parts(b) PROVE End(x) < y.start
  <2>1. PICK j \in 1..(i - 1) : x = rs[j]
    BY <1>4
  <2>2. PICK l \in k..N : y = rs[l]
    BY <1>5
  <2>3. j \in 1..N /\ l \in 1..N /\ j < l
    BY <1>1, <1>2, <2>1, <2>2
  <2>4. End(rs[j]) < rs[l].start
    BY <2>3, Sorted DEF N
  <2>5. QED
    BY <2>1, <2>2, <2>4
<1>11. \A x \in Parts(a \o s), y \in Parts(b) : End(x) < y.start
  BY <1>6, <1>8, <1>9, <1>10
<1> DEFINE c == a \o s
           d == c \o b
<1>12. Sound(c) /\ Parts(c) = Parts(a) \cup Parts(s)
       /\ \A x \in Parts(c), y \in Parts(b) : End(x) < y.start
  BY <1>8, <1>11
<1> HIDE DEF c
<1>13. Sound(d) /\ Parts(d) = Parts(c) \cup Parts(b)
  BY <1>5, <1>12, JoinSound
<1> HIDE DEF d
<1>14. Parts(d) = {rs[j] : j \in 1..(i - 1)} \cup {g} \cup {rs[j] : j \in k..N}
  BY <1>4, <1>5, <1>6, <1>12, <1>13
<1>15. ASSUME NEW v \in Nat
       PROVE  Has(d, v) <=> \/ Holds(g, v)
                            \/ \E j \in 1..N : Holds(rs[j], v) /\ (j < i \/ k <= j)
  <2>1. Has(d, v) <=> \E x \in Parts(d) : Holds(x, v)
    BY HasIs
  <2>2. Has(d, v) <=> \/ Holds(g, v)
                      \/ \E j \in 1..(i - 1) : Holds(rs[j], v)
                      \/ \E j \in k..N : Holds(rs[j], v)
    BY <1>14, <2>1
  <2>3. \A j \in 1..(i - 1) : j \in 1..N /\ j < i
    BY <1>1, <1>2
  <2>4. \A j \in k..N : j \in 1..N /\ k <= j
    BY <1>1, <1>2
  <2>5. \A j \in 1..N : (j < i => j \in 1..(i - 1)) /\ (k <= j => j \in k..N)
    BY <1>1, <1>2
  <2>6. QED
    BY <2>2, <2>3, <2>4, <2>5
<1>16. SubSeq(rs, 1, i - 1) \o <<g>> \o From(rs, k) = d
  BY DEF d, c, a, s, b, N, From
<1>17. QED
  BY <1>13, <1>15, <1>16 DEF N

\* The loop of Merge: g[n] is the range grown over the n next ranges, m the
\* first n whose next range starts behind its end.
Grows(rs, i, r, g, m) ==
  LET rest == Len(rs) - i + 1
  IN /\ g \in [0..rest -> RangeRec] /\ m \in 0..rest
     /\ g[0] = r
     /\ \A n \in 1..rest : g[n] = Cover(g[n - 1], rs[i + n - 1])
     /\ m = rest \/ End(g[m]) < rs[i + m].start
     /\ \A n \in 0..(m - 1) : ~(End(g[n]) < rs[i + n].start)
     /\ Merge(rs, i, r) = SubSeq(rs, 1, i - 1) \o <<g[m]>> \o From(rs, i + m)

LEMMA MergeLoop ==
  ASSUME NEW rs \in Vec, NEW i \in 1..Len(rs), NEW r \in RangeRec
  PROVE  \E g, m : Grows(rs, i, r, g, m)
<1> DEFINE N == Len(rs) - i + 1
           step == [n \in 1..N |-> [x \in RangeRec |-> Cover(x, rs[i + n - 1])]]
           Is(g) == g = [n \in 0..N |->
                           IF n = 0 THEN r ELSE Cover(g[n - 1], rs[i + n - 1])]
           c == CHOOSE g : Is(g)
           T(g) == {n \in 0..N : n = N \/ End(g[n]) < rs[i + n].start}
<1>1. N \in Nat /\ \A n \in 1..N : i + n - 1 \in 1..Len(rs)
  BY VecIs
<1>2. \A n \in 1..N : rs[i + n - 1] \in RangeRec
  BY <1>1, VecIs
<1>3. Merge(rs, i, r) =
        SubSeq(rs, 1, i - 1) \o <<c[Min(T(c))]>> \o From(rs, i + Min(T(c)))
  BY DEF Merge
<1> HIDE DEF N
<1>4. step \in [1..N -> [RangeRec -> RangeRec]]
  <2>1. ASSUME NEW n \in 1..N, NEW x \in RangeRec
        PROVE  Cover(x, rs[i + n - 1]) \in RangeRec
    BY <1>2, CoverIs
  <2>2. QED
    BY <2>1
<1>5. PICK g \in [0..N -> RangeRec] : Rounds(g, r, step, N)
  <2> HIDE DEF step
  <2>1. QED
    BY <1>1, <1>4, RoundsExist
<1>6. \A n \in 0..N : g[n] = IF n = 0 THEN r ELSE Cover(g[n - 1], rs[i + n - 1])
  <2>1. \A n \in 0..N : g[n] = IF n = 0 THEN r ELSE step[n][g[n - 1]]
    <3> HIDE DEF step
    <3>1. QED
      BY <1>5 DEF Rounds
  <2>2. ASSUME NEW n \in 1..N PROVE step[n][g[n - 1]] = Cover(g[n - 1], rs[i + n - 1])
    <3>1. n - 1 \in 0..N
      BY <1>1
    <3>2. QED
      BY <3>1
  <2> HIDE DEF step
  <2>3. \A n \in 0..N : n = 0 \/ n \in 1..N
    BY <1>1
  <2>4. QED
    BY <2>1, <2>2, <2>3
<1>7. Is(g)
  BY <1>5, <1>6
<1>8. Is(c)
  BY <1>7
<1>9. \A n \in 0..N : c[n] = IF n = 0 THEN r ELSE Cover(c[n - 1], rs[i + n - 1])
  <2> HIDE DEF c
  <2>1. QED
    BY <1>8
<1>10. c \in [0..N -> RangeRec]
  <2> DEFINE P == {n \in 0..N : c[n] \in RangeRec}
  <2> HIDE DEF c
  <2>1. 0 \in P
    BY <1>1, <1>9
  <2>2. ASSUME NEW n \in 1..N, n - 1 \in P PROVE n \in P
    <3>1. n \in 0..N /\ c[n] = Cover(c[n - 1], rs[i + n - 1])
      BY <1>1, <1>9
    <3>2. QED
      BY <1>2, <2>2, <3>1, CoverIs
  <2>3. \A n \in 0..N : n \in P
    <3> HIDE DEF P
    <3>1. QED
      BY <1>1, <2>1, <2>2, EveryRound
  <2>4. c = [n \in 0..N |-> c[n]]
    BY <1>8
  <2>5. QED
    BY <2>3, <2>4
<1> HIDE DEF c, Is
<1> DEFINE t == T(c)
           m == Min(t)
<1>11. t \in SUBSET Nat /\ t # {}
  BY <1>1
<1>12. \E n \in t : \A k \in t : n <= k
  <2> HIDE DEF t
  <2>1. QED
    BY <1>11, LeastNumber
<1>13. m \in t /\ \A k \in t : m <= k
  <2> HIDE DEF t
  <2>1. QED
    BY <1>12, Zenon DEF Min
<1> HIDE DEF m
<1>14. m \in 0..N /\ (m = N \/ End(c[m]) < rs[i + m].start)
  BY <1>13
<1>15. ASSUME NEW n \in 0..(m - 1), End(c[n]) < rs[i + n].start PROVE FALSE
  <2>1. n \in 0..N /\ n < m
    BY <1>1, <1>14
  <2>2. n \in t
    BY <1>15, <2>1
  <2>3. QED
    BY <1>1, <1>13, <1>14, <2>1, <2>2
<1>16. Merge(rs, i, r) = SubSeq(rs, 1, i - 1) \o <<c[m]>> \o From(rs, i + m)
  BY <1>3 DEF m
<1>17. c[0] = r /\ \A n \in 1..N : c[n] = Cover(c[n - 1], rs[i + n - 1])
  BY <1>1, <1>9
<1> HIDE DEF t
<1>18. Grows(rs, i, r, c, m)
  BY <1>10, <1>14, <1>15, <1>16, <1>17 DEF Grows, N
<1>19. QED
  BY <1>18

\* Merging into the i-th range, the first that r does not lie behind, and
\* which it overlaps or touches.
LEMMA MergeIs ==
  ASSUME NEW rs, Sound(rs), NEW i \in 1..Len(rs), NEW r \in RangeRec, r.length > 0,
         \A j \in 1..(i - 1) : End(rs[j]) < r.start,
         rs[i].start <= End(r), r.start <= End(rs[i])
  PROVE  /\ Sound(Merge(rs, i, r))
         /\ \A v \in Nat : Has(Merge(rs, i, r), v) <=> Has(rs, v) \/ Holds(r, v)
<1> DEFINE N == Len(rs)
           R == N - i + 1
<1>1. rs \in Vec /\ N \in Nat /\ DOMAIN rs = 1..N
      /\ \A j \in 1..N : rs[j] \in RangeRec
  BY VecIs DEF Sound
<1>20. PICK g, m : Grows(rs, i, r, g, m)
  BY <1>1, MergeLoop
<1>2. /\ g \in [0..R -> RangeRec] /\ m \in 0..R
      /\ g[0] = r
      /\ \A n \in 1..R : g[n] = Cover(g[n - 1], rs[i + n - 1])
      /\ m = R \/ End(g[m]) < rs[i + m].start
      /\ \A n \in 0..(m - 1) : ~(End(g[n]) < rs[i + n].start)
      /\ Merge(rs, i, r) = SubSeq(rs, 1, i - 1) \o <<g[m]>> \o From(rs, i + m)
  BY <1>20 DEF Grows
<1>21. N \in Nat /\ i \in 1..N /\ R = N - i + 1 /\ m \in 0..R
  BY <1>1, <1>2
<1> HIDE DEF N, R
<1>3. R \in Nat /\ m \in Nat /\ m <= R /\ i \in 1..N
      /\ \A n \in 1..m : n \in 1..R /\ n - 1 \in 0..R /\ n - 1 \in 0..(m - 1)
                         /\ n \in 0..R /\ i + n - 1 \in i..N /\ i + n - 1 \in 1..N
                         /\ i + (n - 1) = i + n - 1 /\ i <= i + n - 1
  BY <1>21
<1> DEFINE In(x, n) ==
             /\ x.start <= r.start /\ End(r) <= End(x)
             /\ \A j \in 1..(i - 1) : End(rs[j]) < x.start
             /\ \A v \in Nat : Holds(x, v) <=>
                  Holds(r, v) \/ \E j \in i..(i + n - 1) : Holds(rs[j], v)
           P == {n \in 0..m : In(g[n], n)}
<1>4. r.start \in Nat /\ End(r) \in Nat /\ r.start < End(r)
  BY RangeIs
<1>5. 0 \in P
  <2>1. i..(i + 0 - 1) = {}
    BY <1>3
  <2>2. In(r, 0)
    BY <1>4, <2>1
  <2> HIDE DEF In
  <2>3. QED
    BY <1>2, <1>3, <2>2
<1>6. ASSUME NEW n \in 1..m, n - 1 \in P PROVE n \in P
  <2> DEFINE x == g[n - 1]
             b == rs[i + n - 1]
             y == Cover(x, b)
  <2>1. x \in RangeRec /\ b \in RangeRec /\ g[n] = y
    BY <1>1, <1>2, <1>3
  <2>2. ~(End(x) < b.start)
    BY <1>2, <1>3
  <2>3. In(x, n - 1)
    BY <1>6
  <2>4. /\ b.start < End(b) /\ End(rs[i]) <= End(b)
        /\ \A j \in 1..(i - 1) : End(rs[j]) < b.start
    <3>1. i <= i + n - 1 /\ i + n - 1 \in 1..N
      BY <1>3
    <3>2. b.start < End(b) /\ End(rs[i]) <= End(b)
      BY <3>1, Sorted DEF N
    <3>3. ASSUME NEW j \in 1..(i - 1) PROVE End(rs[j]) < b.start
      <4>1. j \in 1..N /\ j <= i + n - 1 /\ j < i + n - 1
        BY <1>1, <3>1
      <4>2. QED
        BY <3>1, <4>1, Sorted DEF N
    <3>4. QED
      BY <3>2, <3>3
  <2>5. \A j \in i..(i + n - 1) : j = i + n - 1 \/ j \in i..(i + (n - 1) - 1)
    BY <1>3
  <2>6. /\ \A j \in i..(i + (n - 1) - 1) : j \in i..(i + n - 1)
        /\ i + n - 1 \in i..(i + n - 1)
    BY <1>3
  <2>7. /\ x.start \in Nat /\ End(x) \in Nat /\ b.start \in Nat /\ End(b) \in Nat
        /\ End(rs[i]) \in Nat
    BY <1>1, <1>3, <2>1, RangeIs
  <2> DEFINE D == i + n - 1
  <2> HIDE DEF x, b
  <2>8. x.start <= End(b) /\ b.start <= End(x)
    BY <1>4, <2>2, <2>3, <2>4, <2>7
  <2>9. /\ y \in RangeRec
        /\ y.start = (IF x.start <= b.start THEN x.start ELSE b.start)
        /\ End(y) = (IF End(x) >= End(b) THEN End(x) ELSE End(b))
        /\ \A v \in Nat : Holds(y, v) <=> Holds(x, v) \/ Holds(b, v)
    BY <2>1, <2>8, CoverIs
  <2> HIDE DEF y
  <2>10. y.start <= r.start /\ End(r) <= End(y)
    BY <1>4, <2>3, <2>7, <2>9
  <2>11. \A j \in 1..(i - 1) : End(rs[j]) < y.start
    BY <2>3, <2>4, <2>9
  <2>12. ASSUME NEW v \in Nat
         PROVE  Holds(y, v) <=>
                  Holds(r, v) \/ \E j \in i..(i + n - 1) : Holds(rs[j], v)
    <3>1. Holds(b, v) <=> Holds(rs[i + n - 1], v)
      BY DEF b
    <3>2. Holds(x, v) <=> Holds(r, v) \/ \E j \in i..(i + (n - 1) - 1) : Holds(rs[j], v)
      BY <2>3
    <3>3. QED
      BY <2>5, <2>6, <2>9, <3>1, <3>2
  <2>13. In(g[n], n)
    BY <2>1, <2>10, <2>11, <2>12
  <2> HIDE DEF In
  <2>14. n \in 0..m
    BY <1>3
  <2>15. QED
    BY <2>13, <2>14
<1>7. \A n \in 0..m : n \in P
  <2> HIDE DEF P
  <2>1. QED
    BY <1>3, <1>5, <1>6, EveryRound
<1> DEFINE G == g[m]
           k == i + m
<1>8. In(G, m)
  <2>1. m \in 0..m
    BY <1>3
  <2> HIDE DEF In
  <2>2. QED
    BY <1>7, <2>1
<1>9. G \in RangeRec /\ k \in i..(N + 1)
  BY <1>2, <1>3, <1>21
<1>10. Merge(rs, i, r) = SubSeq(rs, 1, i - 1) \o <<G>> \o From(rs, k)
  BY <1>2
<1>11. ASSUME NEW j \in k..N PROVE End(G) < rs[j].start
  <2>1. m # R /\ k \in 1..N /\ k <= j /\ j \in 1..N
    BY <1>3, <1>21
  <2>2. End(G) < rs[k].start
    BY <1>2, <2>1
  <2>3. rs[k].start <= rs[j].start /\ rs[k].start \in Nat /\ rs[j].start \in Nat
    BY <2>1, Sorted, RangeIs DEF N
  <2>4. End(G) \in Nat
    BY <1>9, RangeIs
  <2> HIDE DEF G, k
  <2>5. QED
    BY <2>2, <2>3, <2>4
<1> HIDE DEF G
<1>12. G.length > 0
  <2>1. G.start \in Nat /\ G.length \in Nat /\ End(G) = G.start + G.length
    BY <1>9, RangeIs
  <2>2. QED
    BY <1>4, <1>8, <2>1
<1>13. i + m - 1 = k - 1 /\ i \in 1..(N + 1)
  BY <1>3, <1>21
<1> HIDE DEF k
<1>14. /\ Sound(Merge(rs, i, r))
       /\ \A v \in Nat : Has(Merge(rs, i, r), v) <=>
            \/ Holds(G, v)
            \/ \E j \in 1..N : Holds(rs[j], v) /\ (j < i \/ k <= j)
  <2> DEFINE d == SubSeq(rs, 1, i - 1) \o <<G>> \o From(rs, k)
  <2>1. \A j \in 1..(i - 1) : End(rs[j]) < G.start
    BY <1>8
  <2> HIDE DEF In
  <2>2. /\ Sound(d)
        /\ \A v \in Nat : Has(d, v) <=>
             \/ Holds(G, v)
             \/ \E j \in 1..N : Holds(rs[j], v) /\ (j < i \/ k <= j)
    BY <1>9, <1>11, <1>12, <1>13, <2>1, Replaced DEF N
  <2> HIDE DEF d
  <2>3. Merge(rs, i, r) = d
    BY <1>10 DEF d
  <2>4. QED
    BY <2>2, <2>3
<1>15. ASSUME NEW v \in Nat
       PROVE  Has(Merge(rs, i, r), v) <=> Has(rs, v) \/ Holds(r, v)
  <2>1. Holds(G, v) <=> Holds(r, v) \/ \E j \in i..(k - 1) : Holds(rs[j], v)
    BY <1>8, <1>13
  <2>2. \A j \in i..(k - 1) : j \in 1..N
    BY <1>1, <1>9
  <2>3. \A j \in 1..N : j < i \/ k <= j \/ j \in i..(k - 1)
    BY <1>1, <1>9
  <2>4. Has(rs, v) <=> \E j \in 1..N : Holds(rs[j], v)
    BY <1>1 DEF Has
  <2>5. QED
    BY <1>14, <2>1, <2>2, <2>3, <2>4
<1>16. QED
  BY <1>14, <1>15

\* add_range keeps the vector normal, and adds the bytes of the range.
LEMMA AddIs ==
  ASSUME NEW rs, Sound(rs), NEW r \in RangeRec
  PROVE  /\ Sound(add_range(rs, r))
         /\ \A v \in Nat : Has(add_range(rs, r), v) <=> Has(rs, v) \/ Holds(r, v)
<1> DEFINE N == Len(rs)
           I == {j \in DOMAIN rs : \/ End(r) < rs[j].start
                                   \/ r.start <= End(rs[j])}
           i == FirstOf(rs, I)
           plain == SubSeq(rs, 1, i - 1) \o <<r>> \o From(rs, i)
<1>1. rs \in Vec /\ N \in Nat /\ DOMAIN rs = 1..N
      /\ \A j \in 1..N : rs[j] \in RangeRec
  BY VecIs DEF Sound
<1>2. /\ r.start \in Nat /\ r.length \in Nat /\ End(r) \in Nat
      /\ End(r) = r.start + r.length
      /\ \A v : Holds(r, v) <=> r.start <= v /\ v < End(r)
  BY RangeIs
<1>3. add_range(rs, r) = IF r.length = 0 THEN rs
                         ELSE IF i <= N /\ rs[i].start <= End(r) THEN Merge(rs, i, r)
                         ELSE plain
  BY DEF add_range
<1>4. I \in SUBSET (1..N)
  BY <1>1
<1>5. i \in 1..(N + 1) /\ (i <= N => i \in I) /\ \A j \in I : i <= j
  <2> HIDE DEF I
  <2>1. QED
    BY <1>1, <1>4, FirstIs
<1>6. ASSUME NEW j \in 1..N, j < i PROVE j \notin I
  <2> HIDE DEF I, N, i
  <2>1. QED
    BY <1>5, <1>6
<1>7. ASSUME NEW j \in 1..(i - 1) PROVE End(rs[j]) < r.start /\ j \in 1..N
  <2>1. j \in 1..N /\ j < i
    <3> HIDE DEF i, N
    <3>1. QED
      BY <1>1, <1>5
  <2>2. j \notin I
    <3> HIDE DEF I, i, N
    <3>1. QED
      BY <1>6, <2>1
  <2>3. rs[j] \in RangeRec /\ ~(r.start <= End(rs[j]))
    BY <1>1, <2>1, <2>2
  <2>4. End(rs[j]) \in Nat
    BY <2>3, RangeIs
  <2>5. QED
    BY <1>2, <2>1, <2>3, <2>4
<1>8. i <= N => End(r) < rs[i].start \/ r.start <= End(rs[i])
  BY <1>5
<1> HIDE DEF I, i, N
<1>9. CASE r.length = 0
  <2>1. add_range(rs, r) = rs
    BY <1>3, <1>9
  <2>2. \A v \in Nat : ~Holds(r, v)
    BY <1>2, <1>9
  <2>3. QED
    BY <2>1, <2>2
<1>10. CASE r.length # 0 /\ i <= N /\ rs[i].start <= End(r)
  <2>1. add_range(rs, r) = Merge(rs, i, r)
    BY <1>3, <1>10
  <2>2. i \in 1..N
    BY <1>1, <1>5, <1>10
  <2>3. rs[i] \in RangeRec
    BY <1>1, <2>2
  <2>4. r.start <= End(rs[i]) /\ r.length > 0
    <3>1. rs[i].start \in Nat
      BY <2>3, RangeIs
    <3>2. QED
      BY <1>2, <1>8, <1>10, <3>1
  <2>5. QED
    BY <1>7, <1>10, <2>1, <2>2, <2>4, MergeIs DEF N
<1>11. CASE r.length # 0 /\ ~(i <= N /\ rs[i].start <= End(r))
  <2>1. add_range(rs, r) = plain
    BY <1>3, <1>11
  <2>2. i \in i..(N + 1)
    BY <1>1, <1>5
  <2>3. ASSUME NEW j \in i..N PROVE End(r) < rs[j].start
    <3>1. i \in 1..N /\ j \in 1..N /\ i <= j
      BY <1>1, <1>5
    <3>2. ~(rs[i].start <= End(r))
      BY <1>1, <1>11, <3>1
    <3>3. rs[i].start <= rs[j].start /\ rs[i].start \in Nat /\ rs[j].start \in Nat
      BY <3>1, Sorted, RangeIs DEF N
    <3>4. QED
      BY <1>2, <3>2, <3>3
  <2>4. r.length > 0
    BY <1>2, <1>11
  <2>5. /\ Sound(plain)
        /\ \A v \in Nat : Has(plain, v) <=>
             \/ Holds(r, v)
             \/ \E j \in 1..N : Holds(rs[j], v) /\ (j < i \/ i <= j)
    BY <1>5, <1>7, <2>2, <2>3, <2>4, Replaced DEF N
  <2>6. \A j \in 1..N : j < i \/ i <= j
    BY <1>1, <1>5
  <2>7. \A v : Has(rs, v) <=> \E j \in 1..N : Holds(rs[j], v)
    BY <1>1 DEF Has
  <2> HIDE DEF plain
  <2>8. QED
    BY <2>1, <2>5, <2>6, <2>7
<1>12. QED
  BY <1>9, <1>10, <1>11

-----------------------------------------------------------------------------
(* Taking a range away *)

LEMMA LeftIs ==
  ASSUME NEW h \in RangeRec, NEW r \in RangeRec, h.start < r.start
  PROVE  /\ Left(h, r) \in RangeRec /\ Left(h, r).length > 0
         /\ Left(h, r).start = h.start /\ End(Left(h, r)) = r.start
<1>1. h.start \in Nat /\ r.start \in Nat
  BY RangeIs
<1>2. QED
  BY <1>1, NewRangeIs DEF Left

LEMMA RightIs ==
  ASSUME NEW h \in RangeRec, NEW r \in RangeRec, End(r) < End(h)
  PROVE  /\ Right(h, r) \in RangeRec /\ Right(h, r).length > 0
         /\ Right(h, r).start = End(r) /\ End(Right(h, r)) = End(h)
<1>1. End(r) \in Nat /\ End(h) \in Nat
  BY RangeIs
<1>2. QED
  BY <1>1, NewRangeIs DEF Right

LEMMA PairIs ==
  ASSUME NEW S, NEW x \in S, NEW y \in S
  PROVE  <<x, y>> = <<x>> \o <<y>>
<1> DEFINE a == <<x>>
           b == <<y>>
           c == a \o b
           d == <<x, y>>
<1>1. a \in Seq(S) /\ Len(a) = 1 /\ a[1] = x
  OBVIOUS
<1>2. b \in Seq(S) /\ Len(b) = 1 /\ b[1] = y
  OBVIOUS
<1>3. d \in Seq(S) /\ Len(d) = 2 /\ d[1] = x /\ d[2] = y
  OBVIOUS
<1> HIDE DEF a, b, d
<1>4. /\ c \in Seq(S) /\ Len(c) = Len(a) + Len(b)
      /\ \A i \in 1..(Len(a) + Len(b)) :
           c[i] = IF i <= Len(a) THEN a[i] ELSE b[i - Len(a)]
  BY <1>1, <1>2, ConcatProperties
<1> HIDE DEF c
<1>5. Len(c) = 2 /\ c[1] = x /\ c[2] = y
  BY <1>1, <1>2, <1>4
<1>6. \A i \in 1..2 : i = 1 \/ i = 2
  OBVIOUS
<1>7. \A i \in 1..Len(c) : c[i] = d[i]
  BY <1>3, <1>5, <1>6
<1>8. c = d
  BY <1>3, <1>4, <1>5, <1>7, SeqEqual
<1>9. QED
  BY <1>8 DEF a, b, c, d

\* A range before the rest of a vector, from the k-th on.
LEMMA LedBy ==
  ASSUME NEW rs, Sound(rs), NEW k \in 1..(Len(rs) + 1), NEW g \in RangeRec,
         g.length > 0, \A j \in k..Len(rs) : End(g) < rs[j].start
  PROVE  /\ Sound(<<g>> \o From(rs, k))
         /\ Parts(<<g>> \o From(rs, k)) = {g} \cup {rs[j] : j \in k..Len(rs)}
<1> DEFINE b == SubSeq(rs, k, Len(rs))
           s == <<g>>
<1>1. Len(rs) \in 0..Len(rs)
  BY VecIs DEF Sound
<1>2. Sound(b) /\ Parts(b) = {rs[j] : j \in k..Len(rs)}
  BY <1>1, PieceSound
<1>3. Sound(s) /\ Parts(s) = {g}
  BY OneSound
<1> HIDE DEF b, s
<1>4. \A x \in Parts(s), y \in Parts(b) : End(x) < y.start
  BY <1>2, <1>3
<1>5. Sound(s \o b) /\ Parts(s \o b) = Parts(s) \cup Parts(b)
  BY <1>2, <1>3, <1>4, JoinSound
<1>6. s \o b = <<g>> \o From(rs, k)
  BY DEF s, b, From
<1>7. QED
  BY <1>2, <1>3, <1>5, <1>6

\* Ranges that the loop of subtract_range passes end where r starts, at the
\* latest: each keeps what r does not hold.
Passed(rs, r, n) ==
  [j \in 1..n |-> IF r.start < End(rs[j]) THEN Left(rs[j], r) ELSE rs[j]]

LEMMA PassedIs ==
  ASSUME NEW rs, Sound(rs), NEW r \in RangeRec, NEW n \in 0..Len(rs),
         \A j \in 1..n : rs[j].start < r.start /\ End(rs[j]) <= End(r)
  PROVE  /\ Sound(Passed(rs, r, n))
         /\ \A x \in Parts(Passed(rs, r, n)) : \E j \in 1..n : End(x) <= End(rs[j])
         /\ \A v \in Nat : (\E x \in Parts(Passed(rs, r, n)) : Holds(x, v))
                             <=> \E j \in 1..n : Holds(rs[j], v) /\ ~Holds(r, v)
<1> DEFINE N == Len(rs)
           p == Passed(rs, r, n)
<1>1. N \in Nat /\ \A j \in 1..N : rs[j] \in RangeRec
  BY VecIs DEF Sound
<1>2. n \in Nat /\ \A j \in 1..n : j \in 1..N
  BY <1>1
<1>3. r.start \in Nat /\ End(r) \in Nat
      /\ \A v : Holds(r, v) <=> r.start <= v /\ v < End(r)
  BY RangeIs
<1>4. ASSUME NEW j \in 1..n
      PROVE  /\ p[j] \in RangeRec /\ p[j].length > 0 /\ p[j].start = rs[j].start
             /\ End(p[j]) <= End(rs[j])
             /\ \A v \in Nat : Holds(p[j], v) <=> Holds(rs[j], v) /\ ~Holds(r, v)
  <2> DEFINE h == rs[j]
             x == p[j]
  <2>1. h \in RangeRec /\ h.start < r.start /\ End(h) <= End(r) /\ h.start < End(h)
    BY <1>1, <1>2, Sorted
  <2>2. x = IF r.start < End(h) THEN Left(h, r) ELSE h
    BY DEF Passed
  <2> HIDE DEF h, x
  <2>3. /\ h.start \in Nat /\ h.length \in Nat /\ End(h) \in Nat
        /\ End(h) = h.start + h.length
        /\ \A v : Holds(h, v) <=> h.start <= v /\ v < End(h)
    BY <2>1, RangeIs
  <2>4. x \in RangeRec /\ x.start = h.start /\ x.length > 0
        /\ End(x) = IF r.start < End(h) THEN r.start ELSE End(h)
    BY <2>1, <2>2, <2>3, LeftIs
  <2>5. \A v : Holds(x, v) <=> x.start <= v /\ v < End(x)
    BY <2>4, RangeIs
  <2>6. End(x) <= End(h)
    BY <1>3, <2>3, <2>4
  <2>7. ASSUME NEW v \in Nat PROVE Holds(x, v) <=> Holds(h, v) /\ ~Holds(r, v)
    BY <1>3, <2>1, <2>3, <2>4, <2>5
  <2>8. QED
    BY <2>4, <2>6, <2>7 DEF h, x
<1>5. p = [j \in 1..n |-> p[j]]
  BY DEF Passed
<1> HIDE DEF p
<1>6. \A j \in 1..n : p[j] \in RangeRec
  BY <1>4
<1>7. p \in Seq(RangeRec) /\ DOMAIN p = 1..n
  BY <1>2, <1>5, <1>6, IsASeq
<1>8. ASSUME NEW j \in 1..n, NEW l \in 1..n, j < l PROVE End(p[j]) < p[l].start
  <2>1. End(rs[j]) < rs[l].start
    BY <1>2, <1>8, Sorted
  <2>2. End(p[j]) <= End(rs[j]) /\ p[l].start = rs[l].start
        /\ p[j] \in RangeRec /\ p[l] \in RangeRec
        /\ rs[j] \in RangeRec /\ rs[l] \in RangeRec
    BY <1>1, <1>2, <1>4
  <2>3. End(p[j]) \in Nat /\ End(rs[j]) \in Nat /\ p[l].start \in Nat
    BY <2>2, RangeIs
  <2>4. QED
    BY <2>1, <2>2, <2>3
<1>9. Sound(p)
  BY <1>4, <1>7, <1>8 DEF Sound, Vec, IsNormal
<1>10. \A x \in Parts(p) : \E j \in 1..n : x = p[j]
  BY <1>7 DEF Parts
<1>11. \A j \in 1..n : p[j] \in Parts(p)
  BY <1>7 DEF Parts
<1>12. QED
  BY <1>4, <1>9, <1>10, <1>11 DEF p

\* What a cut leaves of the ranges from the i-th on, none of which starts
\* before r.
LEMMA CutIs ==
  ASSUME NEW rs, Sound(rs), NEW i \in 1..Len(rs), NEW r \in RangeRec,
         r.start <= rs[i].start
  PROVE  /\ Sound(Cut(rs, i, r))
         /\ \A y \in Parts(Cut(rs, i, r)) : \E l \in i..Len(rs) : rs[l].start <= y.start
         /\ \A v \in Nat : (\E y \in Parts(Cut(rs, i, r)) : Holds(y, v))
              <=> \E j \in i..Len(rs) : Holds(rs[j], v) /\ ~Holds(r, v)
<1> DEFINE N == Len(rs)
           I == {j \in i..N : End(r) < End(rs[j])}
           k == FirstOf(rs, I)
           c == Cut(rs, i, r)
<1>1. rs \in Vec /\ N \in Nat /\ \A j \in 1..N : rs[j] \in RangeRec
  BY VecIs DEF Sound
<1>2. i \in 1..N /\ I \in SUBSET (1..N)
  BY <1>1
<1>3. c = IF k <= N /\ rs[k].start < End(r)
          THEN <<Right(rs[k], r)>> \o From(rs, k + 1) ELSE From(rs, k)
  BY DEF Cut
<1>4. k \in 1..(N + 1) /\ (k <= N => k \in I) /\ \A j \in I : k <= j
  <2> HIDE DEF I
  <2>1. QED
    BY <1>1, <1>2, FirstIs
<1> HIDE DEF k
<1>5. k \in i..(N + 1) /\ (k <= N => End(r) < End(rs[k]))
  <2>1. k <= N => k \in i..N /\ End(r) < End(rs[k])
    BY <1>4
  <2> HIDE DEF I, N
  <2>2. QED
    BY <1>1, <1>2, <1>4, <2>1
<1>6. ASSUME NEW j \in i..N, j < k PROVE ~(End(r) < End(rs[j]))
  <2>1. j \in I => k <= j
    <3> HIDE DEF I
    <3>1. QED
      BY <1>4
  <2>2. k \in Nat /\ j \in Nat
    <3> HIDE DEF I, N
    <3>1. QED
      BY <1>1, <1>2, <1>4
  <2>3. j \notin I
    <3> HIDE DEF I
    <3>1. QED
      BY <1>6, <2>1, <2>2
  <2>4. QED
    BY <2>3
<1> HIDE DEF I, N
<1>7. /\ r.start \in Nat /\ End(r) \in Nat
      /\ \A v : Holds(r, v) <=> r.start <= v /\ v < End(r)
  BY RangeIs
<1>8. ASSUME NEW j \in i..N
      PROVE  /\ j \in 1..N /\ rs[j] \in RangeRec
             /\ rs[j].start \in Nat /\ End(rs[j]) \in Nat
             /\ r.start <= rs[j].start /\ rs[j].start < End(rs[j])
             /\ \A v : Holds(rs[j], v) <=> rs[j].start <= v /\ v < End(rs[j])
  <2>1. j \in 1..N /\ i <= j
    BY <1>1, <1>2
  <2>2. rs[i].start <= rs[j].start /\ rs[j].start < End(rs[j])
    BY <1>2, <2>1, Sorted DEF N
  <2>3. rs[i] \in RangeRec /\ rs[j] \in RangeRec
    BY <1>1, <1>2, <2>1
  <2>4. rs[i].start \in Nat
    BY <2>3, RangeIs
  <2>5. rs[j].start \in Nat /\ End(rs[j]) \in Nat
        /\ \A v : Holds(rs[j], v) <=> rs[j].start <= v /\ v < End(rs[j])
    BY <2>3, RangeIs
  <2>6. r.start <= rs[j].start
    BY <1>7, <2>2, <2>4, <2>5
  <2>7. QED
    BY <2>1, <2>2, <2>3, <2>5, <2>6
<1>9. ASSUME NEW j \in i..N, j < k, NEW v \in Nat
      PROVE  ~(Holds(rs[j], v) /\ ~Holds(r, v))
  <2> DEFINE h == rs[j]
  <2>1. ~(End(r) < End(h)) /\ h.start \in Nat /\ End(h) \in Nat
        /\ r.start <= h.start
        /\ (Holds(h, v) <=> h.start <= v /\ v < End(h))
    BY <1>6, <1>8, <1>9
  <2> HIDE DEF h
  <2>2. ~(Holds(h, v) /\ ~Holds(r, v))
    BY <1>7, <2>1
  <2>3. QED
    BY <2>2 DEF h
<1>10. CASE k <= N /\ rs[k].start < End(r)
  <2> DEFINE g == Right(rs[k], r)
  <2>1. k \in i..N /\ k \in 1..N /\ k + 1 \in 1..(N + 1) /\ k \in Nat
    BY <1>1, <1>2, <1>5, <1>10
  <2>2. rs[k] \in RangeRec /\ End(r) < End(rs[k])
    BY <1>5, <1>8, <1>10, <2>1
  <2>3. g \in RangeRec /\ g.length > 0 /\ g.start = End(r) /\ End(g) = End(rs[k])
    BY <2>2, RightIs
  <2> HIDE DEF g
  <2>4. ASSUME NEW j \in (k + 1)..N PROVE j \in i..N /\ k < j /\ End(g) < rs[j].start
    <3>1. j \in i..N /\ j \in 1..N /\ k < j
      BY <1>1, <1>2, <2>1
    <3>2. End(rs[k]) < rs[j].start
      BY <2>1, <3>1, Sorted DEF N
    <3>3. QED
      BY <2>3, <3>1, <3>2
  <2>5. c = <<g>> \o From(rs, k + 1)
    BY <1>3, <1>10 DEF g
  <2>6. Sound(c) /\ Parts(c) = {g} \cup {rs[j] : j \in (k + 1)..N}
    <3> DEFINE d == <<g>> \o From(rs, k + 1)
    <3>1. Sound(d) /\ Parts(d) = {g} \cup {rs[j] : j \in (k + 1)..N}
      BY <2>1, <2>3, <2>4, LedBy DEF N
    <3>2. QED
      BY <2>5, <3>1
  <2> HIDE DEF c
  <2>7. \A y \in Parts(c) : \E l \in i..N : rs[l].start <= y.start
    <3>1. rs[k].start <= g.start
      BY <1>7, <1>8, <1>10, <2>1, <2>3
    <3>2. \A j \in (k + 1)..N : j \in i..N /\ rs[j].start <= rs[j].start
      BY <1>8, <2>4
    <3>3. QED
      BY <2>1, <2>6, <3>1, <3>2
  <2>8. ASSUME NEW v \in Nat
        PROVE  (\E y \in Parts(c) : Holds(y, v))
                 <=> \E j \in i..N : Holds(rs[j], v) /\ ~Holds(r, v)
    <3>1. Holds(g, v) <=> Holds(rs[k], v) /\ ~Holds(r, v)
      <4>1. Holds(g, v) <=> g.start <= v /\ v < End(g)
        BY <2>3, RangeIs
      <4>2. /\ rs[k].start \in Nat /\ End(rs[k]) \in Nat /\ r.start <= rs[k].start
            /\ Holds(rs[k], v) <=> rs[k].start <= v /\ v < End(rs[k])
        BY <1>8, <2>1
      <4>3. QED
        BY <1>7, <1>10, <2>3, <4>1, <4>2
    <3>2. ASSUME NEW j \in (k + 1)..N PROVE Holds(rs[j], v) => ~Holds(r, v)
      <4>1. j \in i..N /\ End(g) < rs[j].start
        BY <2>4
      <4>2. rs[j].start \in Nat /\ (Holds(rs[j], v) => rs[j].start <= v)
        BY <1>8, <4>1
      <4>3. End(rs[k]) \in Nat
        BY <1>8, <2>1
      <4>4. QED
        BY <1>7, <2>2, <2>3, <4>1, <4>2, <4>3
    <3>3. \A j \in i..N : j < k \/ j = k \/ j \in (k + 1)..N
      BY <1>1, <1>2, <2>1
    <3>4. (\E y \in Parts(c) : Holds(y, v)) <=>
            Holds(g, v) \/ \E j \in (k + 1)..N : Holds(rs[j], v)
      BY <2>6
    <3>5. QED
      BY <1>9, <2>1, <2>4, <3>1, <3>2, <3>3, <3>4
  <2>9. QED
    BY <2>6, <2>7, <2>8 DEF c, N
<1>11. CASE ~(k <= N /\ rs[k].start < End(r))
  <2>1. c = From(rs, k)
    BY <1>3, <1>11
  <2>2. N \in 0..N /\ k \in 1..(N + 1)
    BY <1>1, <1>4
  <2>3. Sound(c) /\ Parts(c) = {rs[j] : j \in k..N}
    <3> DEFINE d == SubSeq(rs, k, N)
    <3>1. Sound(d) /\ Parts(d) = {rs[j] : j \in k..N}
      BY <2>2, PieceSound DEF N
    <3> HIDE DEF d
    <3>2. c = d
      BY <2>1 DEF d, From, N
    <3>3. QED
      BY <3>1, <3>2
  <2> HIDE DEF c
  <2>4. \A j \in k..N : j \in i..N /\ ~(j < k)
    BY <1>1, <1>2, <1>5
  <2>5. \A y \in Parts(c) : \E l \in i..N : rs[l].start <= y.start
    <3>1. \A j \in k..N : j \in i..N /\ rs[j].start <= rs[j].start
      BY <1>8, <2>4
    <3>2. QED
      BY <2>3, <3>1
  <2>6. ASSUME NEW j \in k..N, NEW v \in Nat, Holds(rs[j], v) PROVE ~Holds(r, v)
    <3>1. k \in i..N /\ k \in 1..N /\ j \in 1..N /\ k <= j /\ k <= N
      BY <1>1, <1>2, <1>5
    <3>2. ~(rs[k].start < End(r)) /\ rs[k].start \in Nat
      BY <1>8, <1>11, <3>1
    <3>3. rs[k].start <= rs[j].start
      BY <3>1, Sorted DEF N
    <3>4. rs[j].start \in Nat /\ rs[j].start <= v
      BY <1>8, <2>4, <2>6
    <3>5. QED
      BY <1>7, <3>2, <3>3, <3>4
  <2>7. \A j \in i..N : j < k \/ j \in k..N
    BY <1>1, <1>2, <1>5
  <2>8. \A v \in Nat : (\E y \in Parts(c) : Holds(y, v))
          <=> \E j \in i..N : Holds(rs[j], v) /\ ~Holds(r, v)
    BY <1>9, <2>3, <2>4, <2>6, <2>7
  <2>9. QED
    BY <2>3, <2>5, <2>8 DEF c, N
<1>12. QED
  BY <1>10, <1>11

\* subtract_range keeps the vector normal, and takes the bytes of the range away.
LEMMA SubtractIs ==
  ASSUME NEW rs, Sound(rs), NEW r \in RangeRec
  PROVE  /\ Sound(subtract_range(rs, r))
         /\ \A v \in Nat :
              Has(subtract_range(rs, r), v) <=> Has(rs, v) /\ ~Holds(r, v)
<1> DEFINE N == Len(rs)
           I == {j \in DOMAIN rs : \/ End(r) <= rs[j].start
                                   \/ r.start <= rs[j].start
                                   \/ End(r) < End(rs[j])}
           i == FirstOf(rs, I)
           p == [j \in 1..(i - 1) |->
                   IF r.start < End(rs[j]) THEN Left(rs[j], r) ELSE rs[j]]
           b == IF i > N THEN <<>>
                ELSE IF End(r) <= rs[i].start THEN From(rs, i)
                ELSE IF r.start <= rs[i].start THEN Cut(rs, i, r)
                ELSE <<Left(rs[i], r), Right(rs[i], r)>> \o From(rs, i + 1)
<1>1. rs \in Vec /\ N \in Nat /\ DOMAIN rs = 1..N
      /\ \A j \in 1..N : rs[j] \in RangeRec
  BY VecIs DEF Sound
<1>2. /\ r.start \in Nat /\ r.length \in Nat /\ End(r) \in Nat
      /\ End(r) = r.start + r.length
      /\ \A v : Holds(r, v) <=> r.start <= v /\ v < End(r)
  BY RangeIs
<1>3. subtract_range(rs, r) = IF r.length = 0 THEN rs ELSE p \o b
  BY DEF subtract_range
<1>4. I \in SUBSET (1..N)
  BY <1>1
<1>5. i \in 1..(N + 1) /\ (i <= N => i \in I) /\ \A j \in I : i <= j
  <2> HIDE DEF I
  <2>1. QED
    BY <1>1, <1>4, FirstIs
<1>6. ASSUME NEW j \in 1..(i - 1)
      PROVE  j \in 1..N /\ rs[j].start < r.start /\ End(rs[j]) <= End(r)
  <2>1. j \in 1..N /\ j < i /\ i \in Nat
    <3> HIDE DEF i, N
    <3>1. QED
      BY <1>1, <1>5
  <2>2. j \notin I
    <3> HIDE DEF I, i, N
    <3>1. QED
      BY <1>5, <2>1
  <2>3. rs[j] \in RangeRec /\ ~(r.start <= rs[j].start) /\ ~(End(r) < End(rs[j]))
    BY <1>1, <2>1, <2>2
  <2>4. End(rs[j]) \in Nat /\ rs[j].start \in Nat
    BY <2>3, RangeIs
  <2>5. QED
    BY <1>2, <2>1, <2>3, <2>4
<1>7. i <= N => \/ End(r) <= rs[i].start
                \/ r.start <= rs[i].start
                \/ End(r) < End(rs[i])
  BY <1>5
<1> HIDE DEF I, i, N
<1>8. \A v : Has(rs, v) <=> \E j \in 1..N : Holds(rs[j], v)
  BY <1>1 DEF Has
<1>9. CASE r.length = 0
  <2>1. subtract_range(rs, r) = rs
    BY <1>3, <1>9
  <2>2. \A v \in Nat : ~Holds(r, v)
    BY <1>2, <1>9
  <2>3. QED
    BY <2>1, <2>2
<1>10. CASE r.length # 0
  <2>1. i - 1 \in 0..N
    BY <1>1, <1>5
  <2>2. /\ Sound(p)
        /\ \A x \in Parts(p) : \E j \in 1..(i - 1) : End(x) <= End(rs[j])
        /\ \A v \in Nat : (\E x \in Parts(p) : Holds(x, v))
             <=> \E j \in 1..(i - 1) : Holds(rs[j], v) /\ ~Holds(r, v)
    <3> DEFINE n == i - 1
    <3>1. p = Passed(rs, r, n)
      BY DEF Passed
    <3> HIDE DEF p, n
    <3>2. n \in 0..N /\ \A j \in 1..n : rs[j].start < r.start /\ End(rs[j]) <= End(r)
      BY <1>6, <2>1 DEF n
    <3>3. /\ Sound(p)
          /\ \A x \in Parts(p) : \E j \in 1..n : End(x) <= End(rs[j])
          /\ \A v \in Nat : (\E x \in Parts(p) : Holds(x, v))
               <=> \E j \in 1..n : Holds(rs[j], v) /\ ~Holds(r, v)
      BY <3>1, <3>2, PassedIs DEF N
    <3>4. QED
      BY <3>3 DEF n
  <2>3. /\ Sound(b)
        /\ \A y \in Parts(b) : \E l \in i..N : rs[l].start <= y.start
        /\ \A v \in Nat : (\E y \in Parts(b) : Holds(y, v))
             <=> \E j \in i..N : Holds(rs[j], v) /\ ~Holds(r, v)
    <3>1. CASE i > N
      <4>1. b = <<>> /\ i..N = {}
        BY <1>1, <1>5, <3>1
      <4> HIDE DEF b
      <4>2. Sound(b) /\ Parts(b) = {}
        BY <4>1, NoneSound
      <4>3. QED
        BY <4>1, <4>2
    <3>2. CASE i <= N /\ End(r) <= rs[i].start
      <4>1. i \in 1..N /\ N \in 0..N /\ i \in 1..(N + 1) /\ ~(i > N)
        BY <1>1, <1>5, <3>2
      <4> DEFINE d == SubSeq(rs, i, N)
      <4>2. Sound(d) /\ Parts(d) = {rs[j] : j \in i..N}
        BY <4>1, PieceSound DEF N
      <4>3. b = From(rs, i)
        BY <3>2, <4>1
      <4>4. b = d
        BY <4>3 DEF From, N
      <4> HIDE DEF b, d
      <4>5. ASSUME NEW j \in i..N
            PROVE  /\ rs[j].start <= rs[j].start
                   /\ \A v \in Nat : Holds(rs[j], v) => ~Holds(r, v)
        <5>1. j \in 1..N /\ i <= j
          BY <4>1
        <5>2. rs[i].start <= rs[j].start /\ rs[i] \in RangeRec /\ rs[j] \in RangeRec
          BY <4>1, <5>1, Sorted DEF N
        <5>3. rs[i].start \in Nat
          BY <5>2, RangeIs
        <5>4. rs[j].start \in Nat /\ \A v : Holds(rs[j], v) => rs[j].start <= v
          BY <5>2, RangeIs
        <5>5. QED
          BY <1>2, <3>2, <5>2, <5>3, <5>4
      <4>6. QED
        BY <4>2, <4>4, <4>5
    <3>3. CASE i <= N /\ ~(End(r) <= rs[i].start) /\ r.start <= rs[i].start
      <4>1. i \in 1..N /\ ~(i > N)
        BY <1>1, <1>5, <3>3
      <4>2. b = Cut(rs, i, r)
        BY <3>3, <4>1
      <4> HIDE DEF b
      <4>3. QED
        BY <3>3, <4>1, <4>2, CutIs DEF N
    <3>4. CASE i <= N /\ ~(End(r) <= rs[i].start) /\ ~(r.start <= rs[i].start)
      <4> DEFINE h == rs[i]
                 x == Left(h, r)
                 y == Right(h, r)
                 t == <<y>> \o From(rs, i + 1)
                 s == <<x>>
      <4>1. i \in 1..N /\ ~(i > N) /\ i + 1 \in 1..(N + 1) /\ i \in i..N
        BY <1>1, <1>5, <3>4
      <4>2. h \in RangeRec /\ End(r) < End(h)
        BY <1>1, <1>7, <3>4, <4>1
      <4>3. b = <<x, y>> \o From(rs, i + 1)
        BY <3>4, <4>1
      <4>4. ASSUME NEW j \in (i + 1)..N
            PROVE  /\ j \in i..N /\ End(h) < rs[j].start /\ rs[j] \in RangeRec
        <5>1. j \in i..N /\ j \in 1..N /\ i < j
          BY <4>1
        <5>2. QED
          BY <4>1, <5>1, Sorted DEF N
      <4>5. /\ h.start \in Nat /\ End(h) \in Nat
            /\ \A v : Holds(h, v) <=> h.start <= v /\ v < End(h)
        BY <4>2, RangeIs
      <4>6. h.start < r.start
        BY <1>2, <3>4, <4>5
      <4>7. x \in RangeRec /\ x.length > 0 /\ x.start = h.start /\ End(x) = r.start
        BY <4>2, <4>6, LeftIs
      <4>8. y \in RangeRec /\ y.length > 0 /\ y.start = End(r) /\ End(y) = End(h)
        BY <4>2, RightIs
      <4>9. \A v : /\ Holds(x, v) <=> x.start <= v /\ v < End(x)
                   /\ Holds(y, v) <=> y.start <= v /\ v < End(y)
        BY <4>7, <4>8, RangeIs
      <4> HIDE DEF b, x, y
      <4>10. \A j \in (i + 1)..N : End(y) < rs[j].start
        BY <4>4, <4>8
      <4>11. Sound(t) /\ Parts(t) = {y} \cup {rs[j] : j \in (i + 1)..N}
        BY <4>1, <4>8, <4>10, LedBy DEF N
      <4>12. Sound(s) /\ Parts(s) = {x}
        BY <4>7, OneSound
      <4>13. b = s \o t
        <5> DEFINE e == From(rs, i + 1)
        <5>1. e \in Seq(RangeRec)
          <6>1. N \in 0..N /\ e = SubSeq(rs, i + 1, N)
            BY <1>1 DEF From, N
          <6>2. Sound(e)
            BY <4>1, <6>1, PieceSound DEF N
          <6>3. QED
            BY <6>2 DEF Sound, Vec
        <5> HIDE DEF e
        <5>2. <<x>> \in Seq(RangeRec) /\ <<y>> \in Seq(RangeRec)
          BY <4>7, <4>8
        <5>3. <<x, y>> = <<x>> \o <<y>>
          BY <4>7, <4>8, PairIs
        <5>4. (<<x>> \o <<y>>) \o e = <<x>> \o (<<y>> \o e)
          BY <5>1, <5>2, ConcatAssociative
        <5>5. QED
          BY <4>3, <5>3, <5>4 DEF e
      <4> HIDE DEF s, t, h
      <4>14. \A u \in Parts(s), w \in Parts(t) : End(u) < w.start
        <5>1. End(x) < y.start
          BY <1>2, <1>10, <4>7, <4>8
        <5>2. ASSUME NEW j \in (i + 1)..N PROVE End(x) < rs[j].start
          <6>1. rs[j].start \in Nat /\ End(h) < rs[j].start
            BY <4>4, RangeIs
          <6>2. QED
            BY <1>2, <4>2, <4>5, <4>7, <6>1
        <5>3. QED
          BY <4>11, <4>12, <5>1, <5>2
      <4>15. Sound(b) /\ Parts(b) = {x, y} \cup {rs[j] : j \in (i + 1)..N}
        BY <4>11, <4>12, <4>13, <4>14, JoinSound
      <4>16. \A z \in Parts(b) : \E l \in i..N : rs[l].start <= z.start
        <5>1. h.start <= x.start /\ h.start <= y.start
          BY <1>2, <4>5, <4>6, <4>7, <4>8
        <5>2. \A j \in (i + 1)..N : j \in i..N /\ rs[j].start <= rs[j].start
          BY <4>4, RangeIs
        <5>3. QED
          BY <4>1, <4>15, <5>1, <5>2 DEF h
      <4>17. ASSUME NEW v \in Nat
             PROVE  (\E z \in Parts(b) : Holds(z, v))
                      <=> \E j \in i..N : Holds(rs[j], v) /\ ~Holds(r, v)
        <5>1. Holds(x, v) \/ Holds(y, v) <=> Holds(h, v) /\ ~Holds(r, v)
          BY <1>2, <4>2, <4>5, <4>6, <4>7, <4>8, <4>9
        <5>2. ASSUME NEW j \in (i + 1)..N PROVE Holds(rs[j], v) => ~Holds(r, v)
          <6>1. rs[j].start \in Nat /\ End(h) < rs[j].start
                /\ (Holds(rs[j], v) => rs[j].start <= v)
            BY <4>4, RangeIs
          <6>2. QED
            BY <1>2, <4>2, <4>5, <6>1
        <5>3. \A j \in i..N : j = i \/ j \in (i + 1)..N
          BY <1>1, <4>1
        <5>4. \A j \in (i + 1)..N : j \in i..N
          BY <4>4
        <5>5. (\E z \in Parts(b) : Holds(z, v)) <=>
                \/ Holds(x, v) \/ Holds(y, v)
                \/ \E j \in (i + 1)..N : Holds(rs[j], v)
          BY <4>15
        <5>6. QED
          BY <4>1, <5>1, <5>2, <5>3, <5>4, <5>5 DEF h
      <4>18. QED
        BY <4>15, <4>16, <4>17
    <3>5. i > N \/ i <= N
      BY <1>1, <1>5
    <3>6. QED
      BY <3>1, <3>2, <3>3, <3>4, <3>5
  <2> HIDE DEF p, b
  <2>4. ASSUME NEW x \in Parts(p), NEW y \in Parts(b) PROVE End(x) < y.start
    <3>1. PICK j \in 1..(i - 1) : End(x) <= End(rs[j])
      BY <2>2
    <3>2. PICK l \in i..N : rs[l].start <= y.start
      BY <2>3
    <3>3. j \in 1..N /\ l \in 1..N /\ j < l
      BY <1>1, <1>5, <3>1, <3>2
    <3>4. End(rs[j]) < rs[l].start /\ rs[j] \in RangeRec /\ rs[l] \in RangeRec
      BY <3>3, Sorted DEF N
    <3>5. x \in RangeRec /\ y \in RangeRec
      BY <2>2, <2>3, VecIs DEF Sound, Parts
    <3>6. /\ End(x) \in Nat /\ y.start \in Nat
          /\ End(rs[j]) \in Nat /\ rs[l].start \in Nat
      BY <3>4, <3>5, RangeIs
    <3>7. QED
      BY <3>1, <3>2, <3>4, <3>6
  <2>5. Sound(p \o b) /\ Parts(p \o b) = Parts(p) \cup Parts(b)
    BY <2>2, <2>3, <2>4, JoinSound
  <2> DEFINE c == p \o b
  <2>6. subtract_range(rs, r) = c
    BY <1>3, <1>10
  <2>7. Sound(c) /\ Parts(c) = Parts(p) \cup Parts(b)
    BY <2>5
  <2> HIDE DEF c
  <2>8. \A j \in 1..N : j \in 1..(i - 1) \/ j \in i..N
    BY <1>1, <1>5
  <2>9. (\A j \in 1..(i - 1) : j \in 1..N) /\ \A j \in i..N : j \in 1..N
    BY <1>1, <1>5
  <2>10. ASSUME NEW v \in Nat PROVE Has(c, v) <=> Has(rs, v) /\ ~Holds(r, v)
    <3>1. Has(c, v) <=> \/ \E x \in Parts(p) : Holds(x, v)
                        \/ \E x \in Parts(b) : Holds(x, v)
      BY <2>7, HasIs
    <3>2. Has(c, v) <=> \/ \E j \in 1..(i - 1) : Holds(rs[j], v) /\ ~Holds(r, v)
                        \/ \E j \in i..N : Holds(rs[j], v) /\ ~Holds(r, v)
      BY <2>2, <2>3, <3>1
    <3>3. QED
      BY <1>8, <2>8, <2>9, <3>2
  <2>11. QED
    BY <2>6, <2>7, <2>10
<1>11. QED
  BY <1>9, <1>10

-----------------------------------------------------------------------------
(* Vectors and the sets of bytes they stand for *)

\* The bytes of a range are the numbers that it holds.
LEMMA BytesAre ==
  ASSUME NEW r \in RangeRec
  PROVE  BytesOf(r) \subseteq Nat /\ \A v \in Nat : v \in BytesOf(r) <=> Holds(r, v)
<1>1. /\ r.start \in Nat /\ End(r) \in Nat
      /\ \A v : Holds(r, v) <=> r.start <= v /\ v < End(r)
  BY RangeIs
<1> DEFINE s == r.start
           e == End(r)
<1> HIDE DEF s, e
<1>2. s \in Nat /\ e \in Nat
  BY <1>1 DEF s, e
<1>3. s..(e - 1) \subseteq Nat /\ \A v \in Nat : v \in s..(e - 1) <=> s <= v /\ v < e
  BY <1>2
<1>4. BytesOf(r) = s..(e - 1)
  BY DEF BytesOf, s, e
<1>5. QED
  BY <1>1, <1>3, <1>4 DEF s, e

\* The bytes of a vector.
All(rs) == UNION {BytesOf(rs[i]) : i \in DOMAIN rs}

LEMMA AllIs ==
  ASSUME NEW rs \in Vec
  PROVE  All(rs) \subseteq Nat /\ \A v \in Nat : v \in All(rs) <=> Has(rs, v)
<1>1. \A i \in DOMAIN rs : rs[i] \in RangeRec
  BY VecIs
<1>2. \A i \in DOMAIN rs : BytesOf(rs[i]) \subseteq Nat
                           /\ \A v \in Nat : v \in BytesOf(rs[i]) <=> Holds(rs[i], v)
  BY <1>1, BytesAre
<1>3. QED
  BY <1>2 DEF All, Has

\* A normal vector stands for a set of numbers if it has just those.
LEMMA Stands ==
  ASSUME NEW rs, Sound(rs), NEW S \in SUBSET Nat,
         \A v \in Nat : v \in S <=> Has(rs, v)
  PROVE  Denotes(rs, S)
<1>1. rs \in Vec /\ IsNormal(rs)
  BY DEF Sound
<1>2. All(rs) \subseteq Nat /\ \A v \in Nat : v \in All(rs) <=> Has(rs, v)
  BY <1>1, AllIs
<1>3. All(rs) = S
  BY <1>2
<1>4. QED
  BY <1>1, <1>3 DEF Denotes, All

LEMMA Denoted ==
  ASSUME NEW rs \in Vec, NEW S, Denotes(rs, S)
  PROVE  Sound(rs) /\ S \subseteq Nat /\ \A v \in Nat : v \in S <=> Has(rs, v)
<1>1. IsNormal(rs) /\ All(rs) = S
  BY DEF Denotes, All
<1>2. QED
  BY <1>1, AllIs DEF Sound

-----------------------------------------------------------------------------
(* Queries *)

\* One range at most holds a value, and the queries come to it: those before
\* it start before it.
LEMMA FoundIs ==
  ASSUME NEW rs, Sound(rs), NEW v \in Nat
  PROVE  /\ Found(rs, v) = {i \in 1..Len(rs) : Holds(rs[i], v)}
         /\ \A i, j \in Found(rs, v) : i = j
<1> DEFINE N == Len(rs)
<1>1. rs \in Vec /\ N \in Nat /\ DOMAIN rs = 1..N
      /\ \A j \in 1..N : rs[j] \in RangeRec
  BY VecIs DEF Sound
<1>2. \A i \in 1..N : /\ rs[i].start \in Nat /\ End(rs[i]) \in Nat
                      /\ Holds(rs[i], v) <=> rs[i].start <= v /\ v < End(rs[i])
  BY <1>1, RangeIs
<1>3. ASSUME NEW i \in 1..N, Holds(rs[i], v) PROVE i \in Reached(rs, v)
  <2>1. ASSUME NEW j \in 1..i PROVE rs[j].start <= v
    <3>1. j \in 1..N /\ j <= i
      BY <1>1
    <3>2. rs[j].start <= rs[i].start
      BY <3>1, Sorted
    <3> HIDE DEF N
    <3>3. QED
      BY <1>2, <1>3, <3>1, <3>2
  <2>2. QED
    BY <1>1, <2>1 DEF Reached
<1>4. Found(rs, v) = {i \in 1..N : Holds(rs[i], v)}
  BY <1>1, <1>3 DEF Found, Reached
<1>5. ASSUME NEW i \in 1..N, NEW j \in 1..N, Holds(rs[i], v), Holds(rs[j], v), i < j
      PROVE  FALSE
  <2>1. End(rs[i]) < rs[j].start
    BY <1>1, <1>5, Sorted
  <2> HIDE DEF N
  <2>2. QED
    BY <1>2, <1>5, <2>1
<1>6. \A i, j \in 1..N : i < j \/ j < i \/ i = j
  BY <1>1
<1> HIDE DEF N
<1>7. \A i, j \in Found(rs, v) : i = j
  BY <1>4, <1>5, <1>6
<1>8. QED
  BY <1>4, <1>7 DEF N

\* contains answers as the set does, contained_length_from_value is the way to
\* the next gap.
LEMMA QueriesAre ==
  ASSUME NEW rs, Sound(rs), NEW v \in Nat
  PROVE  /\ contains(rs, v) <=> Has(rs, v)
         /\ contained_length_from_value(rs, v) \in Nat
         /\ \A w \in Nat : v <= w /\ w < v + contained_length_from_value(rs, v)
                             => Has(rs, w)
         /\ ~Has(rs, v + contained_length_from_value(rs, v))
<1> DEFINE N == Len(rs)
           F == Found(rs, v)
           n == contained_length_from_value(rs, v)
<1>1. rs \in Vec /\ N \in Nat /\ DOMAIN rs = 1..N
      /\ \A j \in 1..N : rs[j] \in RangeRec
  BY VecIs DEF Sound
<1>2. F = {i \in 1..N : Holds(rs[i], v)} /\ \A i, j \in F : i = j
  BY FoundIs
<1>3. contains(rs, v) <=> Has(rs, v)
  BY <1>1, <1>2 DEF contains, Has
<1>4. CASE ~contains(rs, v)
  <2>1. n = 0
    BY <1>4 DEF contained_length_from_value
  <2> HIDE DEF n
  <2>2. QED
    BY <1>3, <1>4, <2>1 DEF n
<1>5. CASE contains(rs, v)
  <2>1. F # {} /\ F \subseteq Nat
    BY <1>2, <1>5 DEF contains
  <2>2. \E i \in F : \A j \in F : i <= j
    <3> HIDE DEF F
    <3>1. QED
      BY <2>1, LeastNumber
  <2>3. Min(F) \in F
    <3> HIDE DEF F
    <3>1. QED
      BY <2>2, Zenon DEF Min
  <2> DEFINE i == Min(F)
             h == rs[i]
  <2>4. n = End(h) - v
    BY <1>5 DEF contained_length_from_value
  <2>5. i \in 1..N /\ Holds(h, v)
    BY <1>2, <2>3
  <2> HIDE DEF i, F, n
  <2>6. h \in RangeRec /\ h.start < End(h)
    BY <1>1, <2>5, Sorted
  <2> HIDE DEF N
  <2>7. /\ h.start \in Nat /\ End(h) \in Nat
        /\ \A w : Holds(h, w) <=> h.start <= w /\ w < End(h)
    BY <2>6, RangeIs
  <2>8. n \in Nat /\ v + n = End(h)
    BY <2>4, <2>5, <2>7
  <2>9. ASSUME NEW w \in Nat, v <= w, w < v + n PROVE Has(rs, w)
    <3>1. Holds(h, w)
      BY <2>5, <2>7, <2>8, <2>9
    <3>2. QED
      BY <1>1, <2>5, <3>1 DEF Has
  <2>10. ASSUME NEW j \in 1..N, Holds(rs[j], End(h)) PROVE FALSE
    <3>1. /\ rs[j].start \in Nat /\ End(rs[j]) \in Nat
          /\ rs[j].start <= End(h) /\ End(h) < End(rs[j])
      BY <1>1, <2>10, RangeIs
    <3>2. CASE j < i
      <4>1. End(rs[j]) <= End(h)
        BY <2>5, <3>2, Sorted DEF N
      <4>2. QED
        BY <2>7, <3>1, <4>1
    <3>3. CASE j = i
      BY <2>7, <3>1, <3>3
    <3>4. CASE i < j
      <4>1. End(h) < rs[j].start
        BY <2>5, <3>4, Sorted DEF N
      <4>2. QED
        BY <2>7, <3>1, <4>1
    <3>5. j < i \/ j = i \/ i < j
      BY <1>1, <2>5
    <3>6. QED
      BY <3>2, <3>3, <3>4, <3>5
  <2>11. ~Has(rs, v + n)
    BY <1>1, <2>8, <2>10 DEF Has
  <2>12. QED
    BY <1>3, <2>8, <2>9, <2>11 DEF n
<1>6. QED
  BY <1>4, <1>5

\* contains_range_set looks from each start of the other's ranges only, which is
\* enough: it tells whether all that the other has is held.
LEMMA ContainsAllIs ==
  ASSUME NEW rs, Sound(rs), NEW other, Sound(other)
  PROVE  contains_range_set(rs, other)
           <=> \A w \in Nat : Has(other, w) => Has(rs, w)
<1> DEFINE N == Len(other)
           n(i) == contained_length_from_value(rs, other[i].start)
<1>1. other \in Vec /\ N \in Nat /\ DOMAIN other = 1..N
      /\ \A j \in 1..N : other[j] \in RangeRec
  BY VecIs DEF Sound
<1>2. contains_range_set(rs, other) <=> \A i \in 1..N : n(i) >= other[i].length
  BY <1>1 DEF contains_range_set
<1>3. ASSUME NEW i \in 1..N
      PROVE  /\ other[i].start \in Nat /\ other[i].length \in Nat
             /\ End(other[i]) = other[i].start + other[i].length
             /\ \A w : Holds(other[i], w)
                         <=> other[i].start <= w /\ w < End(other[i])
             /\ n(i) \in Nat
             /\ \A w \in Nat : other[i].start <= w /\ w < other[i].start + n(i)
                                 => Has(rs, w)
             /\ ~Has(rs, other[i].start + n(i))
  <2>1. /\ other[i].start \in Nat /\ other[i].length \in Nat
        /\ End(other[i]) = other[i].start + other[i].length
        /\ \A w : Holds(other[i], w) <=> other[i].start <= w /\ w < End(other[i])
    BY <1>1, RangeIs
  <2>2. QED
    BY <2>1, QueriesAre
<1> HIDE DEF n
<1>4. ASSUME \A i \in 1..N : n(i) >= other[i].length, NEW w \in Nat, Has(other, w)
      PROVE  Has(rs, w)
  <2>1. PICK i \in 1..N : Holds(other[i], w)
    BY <1>1, <1>4 DEF Has
  <2> DEFINE s == other[i].start
             l == other[i].length
             m == n(i)
  <2>2. s \in Nat /\ l \in Nat /\ m \in Nat /\ m >= l /\ s <= w /\ w < s + l
    BY <1>3, <1>4, <2>1
  <2> HIDE DEF s, l, m
  <2>3. s <= w /\ w < s + m
    BY <2>2
  <2>4. QED
    BY <1>3, <2>3 DEF s, m
<1>5. ASSUME \A w \in Nat : Has(other, w) => Has(rs, w), NEW i \in 1..N
      PROVE  n(i) >= other[i].length
  <2> DEFINE s == other[i].start
             l == other[i].length
             m == n(i)
  <2>1. s \in Nat /\ l \in Nat /\ m \in Nat /\ ~Has(rs, s + m)
        /\ (Holds(other[i], s + m) <=> s <= s + m /\ s + m < s + l)
    BY <1>3
  <2>2. s + m \in Nat
    BY <2>1
  <2>3. ~Holds(other[i], s + m)
    <3> HIDE DEF s, m
    <3>1. QED
      BY <1>1, <1>5, <2>1, <2>2 DEF Has
  <2> HIDE DEF s, l, m
  <2>4. m >= l
    BY <2>1, <2>3
  <2>5. QED
    BY <2>4 DEF m, l
<1>6. QED
  BY <1>2, <1>4, <1>5

-----------------------------------------------------------------------------
(* Operations between two vectors *)

\* Each range of the other is added in turn.
LEMMA UnionIs ==
  ASSUME NEW rs, Sound(rs), NEW other \in Vec
  PROVE  /\ Sound(union(rs, other))
         /\ \A v \in Nat : Has(union(rs, other), v) <=> Has(rs, v) \/ Has(other, v)
<1> DEFINE N == Len(other)
           S == {s \in Vec : IsNormal(s)}
           step == [n \in 1..N |-> [s \in S |-> add_range(s, other[n])]]
           Is(g) == g = [n \in 0..N |->
                           IF n = 0 THEN rs ELSE add_range(g[n - 1], other[n])]
           c == CHOOSE g : Is(g)
<1>1. N \in Nat /\ DOMAIN other = 1..N /\ \A n \in 1..N : other[n] \in RangeRec
  BY VecIs
<1>2. rs \in S /\ \A s : s \in S <=> Sound(s)
  BY DEF Sound
<1>3. union(rs, other) = c[N]
  BY DEF union, add_range_set
<1> HIDE DEF N, S
<1>4. step \in [1..N -> [S -> S]]
  <2>1. ASSUME NEW n \in 1..N, NEW s \in S PROVE add_range(s, other[n]) \in S
    BY <1>1, <1>2, AddIs
  <2>2. QED
    BY <2>1
<1>5. PICK g \in [0..N -> S] : Rounds(g, rs, step, N)
  <2> HIDE DEF step
  <2>1. QED
    BY <1>1, <1>2, <1>4, RoundsExist
<1>6. \A n \in 0..N : g[n] = IF n = 0 THEN rs ELSE add_range(g[n - 1], other[n])
  <2>1. \A n \in 0..N : g[n] = IF n = 0 THEN rs ELSE step[n][g[n - 1]]
    <3> HIDE DEF step
    <3>1. QED
      BY <1>5 DEF Rounds
  <2>2. ASSUME NEW n \in 1..N PROVE step[n][g[n - 1]] = add_range(g[n - 1], other[n])
    <3>1. n - 1 \in 0..N
      BY <1>1
    <3>2. QED
      BY <3>1
  <2> HIDE DEF step
  <2>3. \A n \in 0..N : n = 0 \/ n \in 1..N
    BY <1>1
  <2>4. QED
    BY <2>1, <2>2, <2>3
<1>7. Is(g)
  BY <1>5, <1>6
<1>8. Is(c)
  BY <1>7
<1>9. \A n \in 0..N : c[n] = IF n = 0 THEN rs ELSE add_range(c[n - 1], other[n])
  <2> HIDE DEF c
  <2>1. QED
    BY <1>8
<1> HIDE DEF c, Is, step
<1> DEFINE In(s, n) == /\ Sound(s)
                       /\ \A v \in Nat : Has(s, v) <=> Has(rs, v) \/ \E j \in 1..n : Holds(other[j], v)
           P == {n \in 0..N : In(c[n], n)}
<1>10. 0 \in P
  <2>1. c[0] = rs /\ 0 \in 0..N
    BY <1>1, <1>9
  <2>2. 1..0 = {}
    OBVIOUS
  <2>3. In(rs, 0)
    BY <2>2
  <2> HIDE DEF In
  <2>4. QED
    BY <2>1, <2>3
<1>11. ASSUME NEW n \in 1..N, n - 1 \in P PROVE n \in P
  <2> DEFINE s == c[n - 1]
             r == other[n]
             t == add_range(s, r)
  <2>1. n \in 0..N /\ n \in Nat /\ c[n] = t /\ r \in RangeRec
    BY <1>1, <1>9
  <2>2. In(s, n - 1)
    BY <1>11
  <2>3. \A j \in 1..n : j = n \/ j \in 1..(n - 1)
    BY <2>1
  <2>4. n \in 1..n /\ \A j \in 1..(n - 1) : j \in 1..n
    BY <2>1
  <2> HIDE DEF s
  <2>5. Sound(t) /\ \A v \in Nat : Has(t, v) <=> Has(s, v) \/ Holds(r, v)
    BY <2>1, <2>2, AddIs
  <2> HIDE DEF t
  <2>6. In(t, n)
    BY <2>2, <2>3, <2>4, <2>5
  <2> HIDE DEF In
  <2>7. QED
    BY <2>1, <2>6
<1>12. \A n \in 0..N : n \in P
  <2> HIDE DEF P
  <2>1. QED
    BY <1>1, <1>10, <1>11, EveryRound
<1>13. In(c[N], N)
  <2>1. N \in 0..N
    BY <1>1
  <2> HIDE DEF In
  <2>2. QED
    BY <1>12, <2>1
<1>14. \A v : Has(other, v) <=> \E j \in 1..N : Holds(other[j], v)
  BY <1>1 DEF Has
<1>15. QED
  BY <1>3, <1>13, <1>14

\* Each range of the other is taken away in turn.
LEMMA MinusIs ==
  ASSUME NEW rs, Sound(rs), NEW other \in Vec
  PROVE  /\ Sound(minus(rs, other))
         /\ \A v \in Nat : Has(minus(rs, other), v) <=> Has(rs, v) /\ ~Has(other, v)
<1> DEFINE N == Len(other)
           S == {s \in Vec : IsNormal(s)}
           step == [n \in 1..N |-> [s \in S |-> subtract_range(s, other[n])]]
           Is(g) == g = [n \in 0..N |->
                           IF n = 0 THEN rs ELSE subtract_range(g[n - 1], other[n])]
           c == CHOOSE g : Is(g)
<1>1. N \in Nat /\ DOMAIN other = 1..N /\ \A n \in 1..N : other[n] \in RangeRec
  BY VecIs
<1>2. rs \in S /\ \A s : s \in S <=> Sound(s)
  BY DEF Sound
<1>3. minus(rs, other) = c[N]
  BY DEF minus, subtract_range_set
<1> HIDE DEF N, S
<1>4. step \in [1..N -> [S -> S]]
  <2>1. ASSUME NEW n \in 1..N, NEW s \in S PROVE subtract_range(s, other[n]) \in S
    BY <1>1, <1>2, SubtractIs
  <2>2. QED
    BY <2>1
<1>5. PICK g \in [0..N -> S] : Rounds(g, rs, step, N)
  <2> HIDE DEF step
  <2>1. QED
    BY <1>1, <1>2, <1>4, RoundsExist
<1>6. \A n \in 0..N : g[n] = IF n = 0 THEN rs ELSE subtract_range(g[n - 1], other[n])
  <2>1. \A n \in 0..N : g[n] = IF n = 0 THEN rs ELSE step[n][g[n - 1]]
    <3> HIDE DEF step
    <3>1. QED
      BY <1>5 DEF Rounds
  <2>2. ASSUME NEW n \in 1..N PROVE step[n][g[n - 1]] = subtract_range(g[n - 1], other[n])
    <3>1. n - 1 \in 0..N
      BY <1>1
    <3>2. QED
      BY <3>1
  <2> HIDE DEF step
  <2>3. \A n \in 0..N : n = 0 \/ n \in 1..N
    BY <1>1
  <2>4. QED
    BY <2>1, <2>2, <2>3
<1>7. Is(g)
  BY <1>5, <1>6
<1>8. Is(c)
  BY <1>7
<1>9. \A n \in 0..N : c[n] = IF n = 0 THEN rs ELSE subtract_range(c[n - 1], other[n])
  <2> HIDE DEF c
  <2>1. QED
    BY <1>8
<1> HIDE DEF c, Is, step
<1> DEFINE In(s, n) == /\ Sound(s)
                       /\ \A v \in Nat : Has(s, v) <=> Has(rs, v) /\ ~\E j \in 1..n : Holds(other[j], v)
           P == {n \in 0..N : In(c[n], n)}
<1>10. 0 \in P
  <2>1. c[0] = rs /\ 0 \in 0..N
    BY <1>1, <1>9
  <2>2. 1..0 = {}
    OBVIOUS
  <2>3. In(rs, 0)
    BY <2>2
  <2> HIDE DEF In
  <2>4. QED
    BY <2>1, <2>3
<1>11. ASSUME NEW n \in 1..N, n - 1 \in P PROVE n \in P
  <2> DEFINE s == c[n - 1]
             r == other[n]
             t == subtract_range(s, r)
  <2>1. n \in 0..N /\ n \in Nat /\ c[n] = t /\ r \in RangeRec
    BY <1>1, <1>9
  <2>2. In(s, n - 1)
    BY <1>11
  <2>3. \A j \in 1..n : j = n \/ j \in 1..(n - 1)
    BY <2>1
  <2>4. n \in 1..n /\ \A j \in 1..(n - 1) : j \in 1..n
    BY <2>1
  <2> HIDE DEF s
  <2>5. Sound(t) /\ \A v \in Nat : Has(t, v) <=> Has(s, v) /\ ~Holds(r, v)
    BY <2>1, <2>2, SubtractIs
  <2> HIDE DEF t
  <2>6. In(t, n)
    BY <2>2, <2>3, <2>4, <2>5
  <2> HIDE DEF In
  <2>7. QED
    BY <2>1, <2>6
<1>12. \A n \in 0..N : n \in P
  <2> HIDE DEF P
  <2>1. QED
    BY <1>1, <1>10, <1>11, EveryRound
<1>13. In(c[N], N)
  <2>1. N \in 0..N
    BY <1>1
  <2> HIDE DEF In
  <2>2. QED
    BY <1>12, <2>1
<1>14. \A v : Has(other, v) <=> \E j \in 1..N : Holds(other[j], v)
  BY <1>1 DEF Has
<1>15. QED
  BY <1>3, <1>13, <1>14

\* What two ranges that overlap share.
LEMMA SharedIs ==
  ASSUME NEW a \in RangeRec, NEW b \in RangeRec,
         ~(End(a) <= b.start), ~(End(b) <= a.start)
  PROVE  /\ Shared(a, b) \in RangeRec
         /\ \A v \in Nat : Holds(Shared(a, b), v) <=> Holds(a, v) /\ Holds(b, v)
<1> DEFINE s == Max({a.start, b.start})
           e == Min({End(a), End(b)})
           c == Shared(a, b)
<1>1. c = NewRange(s, e - s)
  BY DEF Shared
<1>2. /\ a.start \in Nat /\ a.length \in Nat /\ End(a) = a.start + a.length
      /\ b.start \in Nat /\ b.length \in Nat /\ End(b) = b.start + b.length
      /\ End(a) \in Nat /\ End(b) \in Nat
      /\ \A v : Holds(a, v) <=> a.start <= v /\ v < End(a)
      /\ \A v : Holds(b, v) <=> b.start <= v /\ v < End(b)
  BY RangeIs
<1>3. /\ s = (IF a.start >= b.start THEN a.start ELSE b.start)
      /\ e = (IF End(a) <= End(b) THEN End(a) ELSE End(b))
  BY <1>2, MinOfTwo, MaxOfTwo
<1> HIDE DEF s, e, c
<1>4. s \in Nat /\ e \in Nat /\ s <= e
  BY <1>2, <1>3
<1>5. c \in RangeRec /\ c.start = s /\ End(c) = e
  BY <1>1, <1>4, NewRangeIs
<1>6. \A v : Holds(c, v) <=> s <= v /\ v < e
  BY <1>5, RangeIs
<1>7. ASSUME NEW v \in Nat PROVE Holds(c, v) <=> Holds(a, v) /\ Holds(b, v)
  BY <1>2, <1>3, <1>6
<1>8. QED
  BY <1>5, <1>7 DEF c

\* The state of the loop of intersection, and what its result is at any time:
\* the shared bytes that are in a range that was passed.
LoopState(rs, other) ==
  [result : {s \in Vec : IsNormal(s)}, i : 1..(Len(rs) + 1), j : 1..(Len(other) + 1)]
Behind(rs, n, v) == \E i \in 1..(n - 1) : Holds(rs[i], v)
SharedSoFar(rs, other, f) ==
  \A v \in Nat : Has(f.result, v) <=> /\ Has(rs, v) /\ Has(other, v)
                                      /\ Behind(rs, f.i, v) \/ Behind(other, f.j, v)

\* Passing a range.
LEMMA BehindNext ==
  ASSUME NEW rs, NEW n \in Nat \ {0}, NEW v
  PROVE  Behind(rs, n + 1, v) <=> Behind(rs, n, v) \/ Holds(rs[n], v)
<1>1. (n + 1) - 1 = n /\ n \in 1..n /\ \A i \in 1..(n - 1) : i \in 1..n
  OBVIOUS
<1>2. \A i \in 1..n : i = n \/ i \in 1..(n - 1)
  OBVIOUS
<1>3. QED
  BY <1>1, <1>2 DEF Behind

\* A byte of a normal vector before the end of its n-th range is in one up to
\* it, and before the start of its n-th range in one that was passed.
LEMMA HeldBefore ==
  ASSUME NEW rs, Sound(rs), NEW n \in 1..Len(rs), NEW v \in Nat, Has(rs, v)
  PROVE  /\ v < End(rs[n]) => Behind(rs, n, v) \/ Holds(rs[n], v)
         /\ v < rs[n].start => Behind(rs, n, v)
<1> DEFINE N == Len(rs)
<1>1. rs \in Vec /\ N \in Nat /\ DOMAIN rs = 1..N
      /\ \A j \in 1..N : rs[j] \in RangeRec
  BY VecIs DEF Sound
<1>2. PICK k \in 1..N : Holds(rs[k], v)
  BY <1>1 DEF Has
<1>3. rs[k].start <= v /\ rs[k].start \in Nat /\ rs[n].start \in Nat
      /\ End(rs[n]) \in Nat
  BY <1>1, <1>2, RangeIs
<1>4. CASE k < n
  <2>1. k \in 1..(n - 1)
    BY <1>1, <1>4
  <2>2. QED
    BY <1>2, <2>1 DEF Behind
<1>5. CASE k = n
  BY <1>2, <1>3, <1>5
<1>6. CASE n < k
  <2>1. End(rs[n]) < rs[k].start /\ rs[n].start < End(rs[n])
    BY <1>6, Sorted
  <2>2. ~(v < End(rs[n])) /\ ~(v < rs[n].start)
    <3> HIDE DEF N
    <3>1. QED
      BY <1>3, <2>1
  <2>3. QED
    BY <2>2
<1>7. k < n \/ k = n \/ n < k
  BY <1>1
<1>8. QED
  BY <1>4, <1>5, <1>6, <1>7

\* One round of the loop.
LEMMA IntersectStepIs ==
  ASSUME NEW rs, Sound(rs), NEW other, Sound(other), NEW f \in LoopState(rs, other)
  PROVE  /\ IntersectStep(rs, other, f) \in LoopState(rs, other)
         /\ SharedSoFar(rs, other, f)
              => SharedSoFar(rs, other, IntersectStep(rs, other, f))
         /\ \/ IntersectStep(rs, other, f) = f
               /\ (f.i = Len(rs) + 1 \/ f.j = Len(other) + 1)
            \/ IntersectStep(rs, other, f).i + IntersectStep(rs, other, f).j
                 = f.i + f.j + 1
<1> DEFINE M == Len(rs)
           N == Len(other)
           i == f.i
           j == f.j
           a == rs[i]
           b == other[j]
           next == add_range(f.result, Shared(a, b))
           g == IntersectStep(rs, other, f)
<1>1. M \in Nat /\ N \in Nat
      /\ (\A k \in 1..M : rs[k] \in RangeRec) /\ \A k \in 1..N : other[k] \in RangeRec
  BY VecIs DEF Sound
<1>2. /\ f = [result |-> f.result, i |-> f.i, j |-> f.j]
      /\ Sound(f.result) /\ i \in 1..(M + 1) /\ j \in 1..(N + 1)
  BY DEF LoopState, Sound
<1>3. g = IF i > M \/ j > N THEN f
          ELSE IF End(a) <= b.start THEN [f EXCEPT !.i = @ + 1]
          ELSE IF End(b) <= a.start THEN [f EXCEPT !.j = @ + 1]
          ELSE IF End(a) <= End(b) THEN [f EXCEPT !.i = @ + 1, !.result = next]
          ELSE [f EXCEPT !.j = @ + 1, !.result = next]
  BY DEF IntersectStep
<1>4. ASSUME NEW x, Sound(x), NEW k \in 1..(M + 1), NEW l \in 1..(N + 1),
             g = [result |-> x, i |-> k, j |-> l]
      PROVE  g \in LoopState(rs, other) /\ g.result = x /\ g.i = k /\ g.j = l
  BY <1>4 DEF LoopState, Sound
<1>5. ASSUME NEW v \in Nat, Has(rs, v), Has(other, v), i <= M, j <= N
      PROVE  /\ v < End(a) => Behind(rs, i, v) \/ Holds(a, v)
             /\ v < a.start => Behind(rs, i, v)
             /\ v < End(b) => Behind(other, j, v) \/ Holds(b, v)
             /\ v < b.start => Behind(other, j, v)
  <2>1. i \in 1..M /\ j \in 1..N
    BY <1>1, <1>2, <1>5
  <2>2. QED
    BY <1>5, <2>1, HeldBefore
<1>6. ASSUME NEW v PROVE /\ Behind(rs, i + 1, v) <=> Behind(rs, i, v) \/ Holds(a, v)
                         /\ Behind(other, j + 1, v) <=> Behind(other, j, v) \/ Holds(b, v)
  <2>1. i \in Nat \ {0} /\ j \in Nat \ {0}
    BY <1>1, <1>2
  <2>2. QED
    BY <2>1, BehindNext
<1>7. ASSUME i <= M, j <= N
      PROVE  /\ a \in RangeRec /\ b \in RangeRec
             /\ a.start \in Nat /\ End(a) \in Nat /\ b.start \in Nat /\ End(b) \in Nat
             /\ \A v : Holds(a, v) <=> a.start <= v /\ v < End(a)
             /\ \A v : Holds(b, v) <=> b.start <= v /\ v < End(b)
             /\ i + 1 \in 1..(M + 1) /\ j + 1 \in 1..(N + 1)
             /\ \A v : Holds(a, v) => Has(rs, v)
             /\ \A v : Holds(b, v) => Has(other, v)
  <2>1. i \in 1..M /\ j \in 1..N /\ i + 1 \in 1..(M + 1) /\ j + 1 \in 1..(N + 1)
    BY <1>1, <1>2, <1>7
  <2>2. a \in RangeRec /\ b \in RangeRec
    BY <1>1, <2>1
  <2>3. DOMAIN rs = 1..M /\ DOMAIN other = 1..N
    BY VecIs DEF Sound
  <2>4. \A v : (Holds(a, v) => Has(rs, v)) /\ (Holds(b, v) => Has(other, v))
    BY <2>1, <2>3 DEF Has
  <2> HIDE DEF M, N, a, b
  <2>5. QED
    BY <2>1, <2>2, <2>4, RangeIs
<1> DEFINE Was(v) == Has(rs, v) /\ Has(other, v)
                     /\ (Behind(rs, i, v) \/ Behind(other, j, v))
<1> HIDE DEF M, N, a, b, g
<1>8. CASE i > M \/ j > N
  <2>1. g = f /\ (i = M + 1 \/ j = N + 1)
    BY <1>1, <1>2, <1>3, <1>8
  <2>2. QED
    BY <2>1 DEF g, M, N
<1>9. ASSUME i <= M, j <= N
      PROVE  /\ g \in LoopState(rs, other) /\ g.i + g.j = i + j + 1
             /\ SharedSoFar(rs, other, f) => SharedSoFar(rs, other, g)
  <2>1. ~(i > M \/ j > N) /\ i \in Nat /\ j \in Nat
    BY <1>1, <1>2, <1>9
  <2>2. i \in 1..(M + 1) /\ j \in 1..(N + 1)
        /\ i + 1 \in 1..(M + 1) /\ j + 1 \in 1..(N + 1)
    BY <1>2, <1>7, <1>9
  <2>3. CASE End(a) <= b.start
    <3>1. g = [f EXCEPT !.i = @ + 1]
      BY <1>3, <2>1, <2>3
    <3>2. g = [result |-> f.result, i |-> i + 1, j |-> j]
      BY <1>2, <3>1
    <3>3. g \in LoopState(rs, other) /\ g.result = f.result /\ g.i = i + 1 /\ g.j = j
      BY <1>2, <1>4, <2>2, <3>2
    <3>4. ASSUME SharedSoFar(rs, other, f), NEW v \in Nat
          PROVE  Has(g.result, v) <=> /\ Has(rs, v) /\ Has(other, v)
                                      /\ Behind(rs, g.i, v) \/ Behind(other, g.j, v)
      <4>1. Has(f.result, v) <=> Was(v)
        BY <3>4 DEF SharedSoFar
      <4>2. Holds(a, v) => v < b.start
        BY <1>7, <1>9, <2>3
      <4>3. QED
        BY <1>5, <1>6, <1>9, <3>3, <4>1, <4>2
    <3>5. g.i + g.j = i + j + 1
      BY <2>1, <3>3
    <3>6. QED
      BY <3>3, <3>4, <3>5 DEF SharedSoFar
  <2>4. CASE ~(End(a) <= b.start) /\ End(b) <= a.start
    <3>1. g = [f EXCEPT !.j = @ + 1]
      BY <1>3, <2>1, <2>4
    <3>2. g = [result |-> f.result, i |-> i, j |-> j + 1]
      BY <1>2, <3>1
    <3>3. g \in LoopState(rs, other) /\ g.result = f.result /\ g.i = i /\ g.j = j + 1
      BY <1>2, <1>4, <2>2, <3>2
    <3>4. ASSUME SharedSoFar(rs, other, f), NEW v \in Nat
          PROVE  Has(g.result, v) <=> /\ Has(rs, v) /\ Has(other, v)
                                      /\ Behind(rs, g.i, v) \/ Behind(other, g.j, v)
      <4>1. Has(f.result, v) <=> Was(v)
        BY <3>4 DEF SharedSoFar
      <4>2. Holds(b, v) => v < a.start
        BY <1>7, <1>9, <2>4
      <4>3. QED
        BY <1>5, <1>6, <1>9, <3>3, <4>1, <4>2
    <3>5. g.i + g.j = i + j + 1
      BY <2>1, <3>3
    <3>6. QED
      BY <3>3, <3>4, <3>5 DEF SharedSoFar
  <2>5. CASE ~(End(a) <= b.start) /\ ~(End(b) <= a.start)
    <3>1. /\ Shared(a, b) \in RangeRec
          /\ \A v \in Nat : Holds(Shared(a, b), v) <=> Holds(a, v) /\ Holds(b, v)
      BY <1>7, <1>9, <2>5, SharedIs
    <3>2. /\ Sound(next)
          /\ \A v \in Nat :
               Has(next, v) <=> Has(f.result, v) \/ (Holds(a, v) /\ Holds(b, v))
      BY <1>2, <3>1, AddIs
    <3> HIDE DEF next
    <3>3. CASE End(a) <= End(b)
      <4>1. g = [f EXCEPT !.i = @ + 1, !.result = next]
        BY <1>3, <2>1, <2>5, <3>3
      <4>2. g = [result |-> next, i |-> i + 1, j |-> j]
        BY <1>2, <4>1
      <4>3. g \in LoopState(rs, other) /\ g.result = next /\ g.i = i + 1 /\ g.j = j
        BY <1>4, <2>2, <3>2, <4>2
      <4>4. ASSUME SharedSoFar(rs, other, f), NEW v \in Nat
            PROVE  Has(g.result, v) <=> /\ Has(rs, v) /\ Has(other, v)
                                        /\ Behind(rs, g.i, v) \/ Behind(other, g.j, v)
        <5>1. Has(f.result, v) <=> Was(v)
          BY <4>4 DEF SharedSoFar
        <5>2. Holds(a, v) => v < End(b)
          BY <1>7, <1>9, <3>3
        <5>3. (Holds(a, v) => Has(rs, v)) /\ (Holds(b, v) => Has(other, v))
          BY <1>7, <1>9
        <5>4. QED
          BY <1>5, <1>6, <1>9, <3>2, <4>3, <5>1, <5>2, <5>3
      <4>5. g.i + g.j = i + j + 1
        BY <2>1, <4>3
      <4>6. QED
        BY <4>3, <4>4, <4>5 DEF SharedSoFar
    <3>4. CASE ~(End(a) <= End(b))
      <4>1. g = [f EXCEPT !.j = @ + 1, !.result = next]
        BY <1>3, <2>1, <2>5, <3>4
      <4>2. g = [result |-> next, i |-> i, j |-> j + 1]
        BY <1>2, <4>1
      <4>3. g \in LoopState(rs, other) /\ g.result = next /\ g.i = i /\ g.j = j + 1
        BY <1>4, <2>2, <3>2, <4>2
      <4>4. ASSUME SharedSoFar(rs, other, f), NEW v \in Nat
            PROVE  Has(g.result, v) <=> /\ Has(rs, v) /\ Has(other, v)
                                        /\ Behind(rs, g.i, v) \/ Behind(other, g.j, v)
        <5>1. Has(f.result, v) <=> Was(v)
          BY <4>4 DEF SharedSoFar
        <5>2. Holds(b, v) => v < End(a)
          BY <1>7, <1>9, <3>4
        <5>3. (Holds(a, v) => Has(rs, v)) /\ (Holds(b, v) => Has(other, v))
          BY <1>7, <1>9
        <5>4. QED
          BY <1>5, <1>6, <1>9, <3>2, <4>3, <5>1, <5>2, <5>3
      <4>5. g.i + g.j = i + j + 1
        BY <2>1, <4>3
      <4>6. QED
        BY <4>3, <4>4, <4>5 DEF SharedSoFar
    <3>5. QED
      BY <3>3, <3>4
  <2>6. QED
    BY <2>3, <2>4, <2>5
<1>10. (i > M \/ j > N) \/ (i <= M /\ j <= N)
  BY <1>1, <1>2
<1>11. QED
  BY <1>8, <1>9, <1>10 DEF g

\* Each round passes a range of one of the two, so that as many rounds as both
\* have ranges are enough.
LEMMA IntersectionIs ==
  ASSUME NEW rs, Sound(rs), NEW other, Sound(other)
  PROVE  /\ Sound(intersection(rs, other))
         /\ \A v \in Nat :
              Has(intersection(rs, other), v) <=> Has(rs, v) /\ Has(other, v)
<1> DEFINE M == Len(rs)
           N == Len(other)
           K == M + N
           S == LoopState(rs, other)
           start == [result |-> <<>>, i |-> 1, j |-> 1]
           step == [n \in 1..K |-> [f \in S |-> IntersectStep(rs, other, f)]]
           Is(g) == g = [n \in 0..K |-> IF n = 0 THEN [result |-> <<>>, i |-> 1, j |-> 1]
                                        ELSE IntersectStep(rs, other, g[n - 1])]
           c == CHOOSE g : Is(g)
<1>1. M \in Nat /\ N \in Nat /\ K \in Nat
      /\ DOMAIN rs = 1..M /\ DOMAIN other = 1..N
  BY VecIs DEF Sound
<1>2. intersection(rs, other) = c[K].result
  BY DEF intersection
<1>3. start \in S /\ SharedSoFar(rs, other, start)
      /\ start.i = 1 /\ start.j = 1
  <2>1. <<>> \in Vec /\ IsNormal(<<>>) /\ \A v : ~Has(<<>>, v)
    BY NoneSound, HasIs DEF Sound
  <2> DEFINE e == <<>>
  <2>2. e \in Vec /\ IsNormal(e) /\ (\A v : ~Has(e, v))
        /\ start = [result |-> e, i |-> 1, j |-> 1]
    BY <2>1
  <2> HIDE DEF e
  <2>3. 1 \in 1..(M + 1) /\ 1 \in 1..(N + 1)
    BY <1>1
  <2>4. start \in S
    BY <2>2, <2>3 DEF LoopState
  <2>5. start.result = e /\ start.i = 1 /\ start.j = 1
    BY <2>2
  <2> HIDE DEF start
  <2>6. 1..(1 - 1) = {}
    OBVIOUS
  <2>7. \A v : ~Behind(rs, 1, v) /\ ~Behind(other, 1, v)
    BY <2>6 DEF Behind
  <2>8. SharedSoFar(rs, other, start)
    BY <2>2, <2>5, <2>7 DEF SharedSoFar
  <2>9. QED
    BY <2>4, <2>5, <2>8
<1>4. ASSUME NEW f \in S
      PROVE  /\ IntersectStep(rs, other, f) \in S
             /\ SharedSoFar(rs, other, f)
                  => SharedSoFar(rs, other, IntersectStep(rs, other, f))
             /\ \/ IntersectStep(rs, other, f) = f /\ (f.i = M + 1 \/ f.j = N + 1)
                \/ IntersectStep(rs, other, f).i + IntersectStep(rs, other, f).j
                     = f.i + f.j + 1
  BY <1>4, IntersectStepIs
<1>5. \A f \in S : Sound(f.result) /\ f.i \in 1..(M + 1) /\ f.j \in 1..(N + 1)
  BY DEF LoopState, Sound
<1>6. K = M + N
  OBVIOUS
<1> HIDE DEF M, N, K, S, start
<1>7. step \in [1..K -> [S -> S]]
  <2>1. \A f \in S : IntersectStep(rs, other, f) \in S
    BY <1>4
  <2>2. QED
    BY <2>1
<1>8. PICK g \in [0..K -> S] : Rounds(g, start, step, K)
  <2> HIDE DEF step
  <2>1. QED
    BY <1>1, <1>3, <1>7, RoundsExist
<1>9. \A n \in 0..K : g[n] = IF n = 0 THEN start ELSE IntersectStep(rs, other, g[n - 1])
  <2>1. \A n \in 0..K : g[n] = IF n = 0 THEN start ELSE step[n][g[n - 1]]
    <3> HIDE DEF step
    <3>1. QED
      BY <1>8 DEF Rounds
  <2>2. ASSUME NEW n \in 1..K
        PROVE  step[n][g[n - 1]] = IntersectStep(rs, other, g[n - 1])
    <3>1. n - 1 \in 0..K
      BY <1>1
    <3>2. QED
      BY <3>1
  <2> HIDE DEF step
  <2>3. \A n \in 0..K : n = 0 \/ n \in 1..K
    BY <1>1
  <2>4. QED
    BY <2>1, <2>2, <2>3
<1>10. Is(g)
  <2>1. g = [n \in 0..K |-> g[n]]
    BY <1>8
  <2>2. QED
    BY <1>9, <2>1 DEF start
<1>11. Is(c)
  BY <1>10
<1>12. \A n \in 0..K : c[n] = IF n = 0 THEN start ELSE IntersectStep(rs, other, c[n - 1])
  <2> HIDE DEF c
  <2>1. QED
    BY <1>11 DEF start
<1> HIDE DEF c, Is, step
<1> DEFINE In(f, n) == /\ f \in S /\ SharedSoFar(rs, other, f)
                       /\ f.i = M + 1 \/ f.j = N + 1 \/ f.i + f.j = n + 2
           P == {n \in 0..K : In(c[n], n)}
<1>13. 0 \in P
  <2>1. c[0] = start /\ 0 \in 0..K
    BY <1>1, <1>12
  <2>2. In(start, 0)
    BY <1>3
  <2> HIDE DEF In
  <2>3. QED
    BY <2>1, <2>2
<1>14. ASSUME NEW n \in 1..K, n - 1 \in P PROVE n \in P
  <2> DEFINE f == c[n - 1]
             h == IntersectStep(rs, other, f)
  <2>1. n \in 0..K /\ n \in Nat /\ c[n] = h
    BY <1>1, <1>12
  <2>2. In(f, n - 1)
    BY <1>14
  <2> HIDE DEF f
  <2>3. /\ h \in S /\ SharedSoFar(rs, other, h)
        /\ (h = f /\ (f.i = M + 1 \/ f.j = N + 1)) \/ h.i + h.j = f.i + f.j + 1
    BY <1>4, <2>2
  <2> HIDE DEF h
  <2>4. /\ f.i \in 1..(M + 1) /\ f.j \in 1..(N + 1)
        /\ h.i \in 1..(M + 1) /\ h.j \in 1..(N + 1)
    BY <1>5, <2>2, <2>3
  <2>5. h.i = M + 1 \/ h.j = N + 1 \/ h.i + h.j = n + 2
    <3>1. CASE h = f /\ (f.i = M + 1 \/ f.j = N + 1)
      BY <3>1
    <3>2. CASE h.i + h.j = f.i + f.j + 1 /\ f.i + f.j = (n - 1) + 2
      BY <2>1, <2>4, <3>2
    <3>3. CASE h.i + h.j = f.i + f.j + 1 /\ ~(f.i + f.j = (n - 1) + 2)
      <4>1. f.i = M + 1 \/ f.j = N + 1
        BY <2>2, <3>3
      <4>2. h = f \/ ~(f.i = M + 1 \/ f.j = N + 1)
        <5>1. CASE f.i > M \/ f.j > N
          <6>1. IntersectStep(rs, other, f) = f
            BY <5>1 DEF IntersectStep, M, N
          <6>2. QED
            BY <6>1 DEF h
        <5>2. QED
          BY <1>1, <5>1
      <4>3. QED
        BY <4>1, <4>2
    <3>4. QED
      BY <2>3, <3>1, <3>2, <3>3
  <2>6. In(h, n)
    BY <2>3, <2>5
  <2> HIDE DEF In
  <2>7. QED
    BY <2>1, <2>6
<1>15. \A n \in 0..K : n \in P
  <2> HIDE DEF P
  <2>1. QED
    BY <1>1, <1>13, <1>14, EveryRound
<1> DEFINE f == c[K]
<1>16. In(f, K)
  <2>1. K \in 0..K
    BY <1>1
  <2> HIDE DEF In
  <2>2. QED
    BY <1>15, <2>1
<1> HIDE DEF f
<1>17. Sound(f.result) /\ f.i \in 1..(M + 1) /\ f.j \in 1..(N + 1)
  BY <1>5, <1>16
<1>18. f.i = M + 1 \/ f.j = N + 1
  BY <1>1, <1>6, <1>16, <1>17
<1>19. \A v : /\ f.i = M + 1 /\ Has(rs, v) => Behind(rs, f.i, v)
              /\ f.j = N + 1 /\ Has(other, v) => Behind(other, f.j, v)
  <2>1. (M + 1) - 1 = M /\ (N + 1) - 1 = N
    BY <1>1
  <2>2. QED
    BY <1>1, <2>1 DEF Has, Behind
<1>20. \A v \in Nat : Has(f.result, v) <=> Has(rs, v) /\ Has(other, v)
  BY <1>16, <1>18, <1>19 DEF SharedSoFar
<1>21. intersection(rs, other) = f.result
  BY <1>2 DEF f
<1>22. QED
  BY <1>17, <1>20, <1>21

\* The ranges of a normal vector are disjoint, so that the sum of their lengths
\* is the number of its bytes.
LEMMA LengthIs ==
  ASSUME NEW rs, Sound(rs)
  PROVE  len(rs) = Cardinality(All(rs))
<1> DEFINE N == Len(rs)
           step == [n \in 1..N |-> [x \in Nat |-> x + rs[n].length]]
           Is(g) == g = [n \in 0..N |-> IF n = 0 THEN 0 ELSE g[n - 1] + rs[n].length]
           c == CHOOSE g : Is(g)
           U(n) == {v \in Nat : \E j \in 1..n : Holds(rs[j], v)}
<1>1. rs \in Vec /\ N \in Nat /\ DOMAIN rs = 1..N
      /\ \A n \in 1..N : rs[n] \in RangeRec
  BY VecIs DEF Sound
<1>2. \A n \in 1..N : rs[n].length \in Nat /\ rs[n].start \in Nat
                      /\ End(rs[n]) = rs[n].start + rs[n].length
                      /\ \A v : Holds(rs[n], v) <=> rs[n].start <= v /\ v < End(rs[n])
  BY <1>1, RangeIs
<1>3. len(rs) = c[N]
  BY DEF len
<1> HIDE DEF N
<1>4. step \in [1..N -> [Nat -> Nat]]
  BY <1>2
<1>5. PICK g \in [0..N -> Nat] : Rounds(g, 0, step, N)
  <2> HIDE DEF step
  <2>1. QED
    BY <1>1, <1>4, RoundsExist
<1>6. \A n \in 0..N : g[n] = IF n = 0 THEN 0 ELSE g[n - 1] + rs[n].length
  <2>1. \A n \in 0..N : g[n] = IF n = 0 THEN 0 ELSE step[n][g[n - 1]]
    <3> HIDE DEF step
    <3>1. QED
      BY <1>5 DEF Rounds
  <2>2. ASSUME NEW n \in 1..N PROVE step[n][g[n - 1]] = g[n - 1] + rs[n].length
    <3>1. n - 1 \in 0..N
      BY <1>1
    <3>2. QED
      BY <3>1
  <2> HIDE DEF step
  <2>3. \A n \in 0..N : n = 0 \/ n \in 1..N
    BY <1>1
  <2>4. QED
    BY <2>1, <2>2, <2>3
<1>7. Is(g)
  BY <1>5, <1>6
<1>8. Is(c)
  BY <1>7
<1>9. \A n \in 0..N : c[n] = IF n = 0 THEN 0 ELSE c[n - 1] + rs[n].length
  <2> HIDE DEF c
  <2>1. QED
    BY <1>8
<1> HIDE DEF c, Is, step
<1> DEFINE P == {n \in 0..N : IsFiniteSet(U(n)) /\ c[n] = Cardinality(U(n))}
<1>10. 0 \in P
  <2>1. c[0] = 0 /\ 0 \in 0..N
    BY <1>1, <1>9
  <2>2. U(0) = {}
    OBVIOUS
  <2> HIDE DEF U
  <2>3. QED
    BY <2>1, <2>2, FS_EmptySet
<1>11. ASSUME NEW n \in 1..N, n - 1 \in P PROVE n \in P
  <2> DEFINE r == rs[n]
             A == U(n - 1)
             B == r.start..(End(r) - 1)
  <2>1. n \in 0..N /\ n \in Nat /\ c[n] = c[n - 1] + r.length
    BY <1>1, <1>9
  <2>2. IsFiniteSet(A) /\ c[n - 1] = Cardinality(A)
    <3> HIDE DEF U
    <3>1. QED
      BY <1>11
  <2>3. r.start \in Nat /\ r.length \in Nat /\ End(r) = r.start + r.length
        /\ \A v : Holds(r, v) <=> r.start <= v /\ v < End(r)
    BY <1>2
  <2>4. \A v \in Nat : v \in B <=> Holds(r, v)
    <3> HIDE DEF r
    <3>1. QED
      BY <2>3
  <2>5. B \subseteq Nat
    <3> HIDE DEF r
    <3>1. QED
      BY <2>3
  <2>6. U(n) = A \cup B
    <3>1. \A j \in 1..n : j = n \/ j \in 1..(n - 1)
      BY <2>1
    <3>2. n \in 1..n /\ \A j \in 1..(n - 1) : j \in 1..n
      BY <2>1
    <3> HIDE DEF B
    <3>3. \A v \in Nat : v \in U(n) <=> v \in A \/ v \in B
      BY <2>4, <3>1, <3>2
    <3>4. U(n) \subseteq Nat /\ A \subseteq Nat
      OBVIOUS
    <3> HIDE DEF U
    <3>5. QED
      BY <2>5, <3>3, <3>4
  <2>7. ASSUME NEW v \in A, v \in B PROVE FALSE
    <3>1. PICK j \in 1..(n - 1) : Holds(rs[j], v)
      BY <2>7
    <3>2. j \in 1..N /\ j < n /\ v \in Nat
      BY <1>1, <2>7
    <3>3. End(rs[j]) < r.start
      BY <3>2, Sorted DEF N
    <3>4. v < End(rs[j]) /\ End(rs[j]) = rs[j].start + rs[j].length
          /\ rs[j].start \in Nat /\ rs[j].length \in Nat
      BY <1>2, <3>1, <3>2
    <3>5. r.start <= v
      BY <2>3, <2>4, <2>7, <3>2
    <3> HIDE DEF r
    <3>6. QED
      BY <2>3, <3>2, <3>3, <3>4, <3>5
  <2>8. A \cap B = {}
    <3> HIDE DEF A, B
    <3>1. QED
      BY <2>7
  <2>9. IsFiniteSet(B) /\ Cardinality(B) = r.length
    <3> DEFINE s == r.start
               e == End(r) - 1
    <3>1. s \in Int /\ e \in Int /\ e - s + 1 = r.length /\ (s > e => r.length = 0)
      <4> HIDE DEF r
      <4>1. QED
        BY <2>3
    <3> HIDE DEF s, e
    <3>2. IsFiniteSet(s..e) /\ Cardinality(s..e) = IF s > e THEN 0 ELSE e - s + 1
      BY <3>1, FS_Interval
    <3>3. IsFiniteSet(s..e) /\ Cardinality(s..e) = r.length
      BY <3>1, <3>2
    <3>4. QED
      BY <3>3 DEF s, e
  <2> HIDE DEF A, B, r
  <2>10. Cardinality(A \cap B) = 0
    BY <2>8, FS_EmptySet
  <2>11. IsFiniteSet(A \cup B)
         /\ Cardinality(A \cup B) = Cardinality(A) + Cardinality(B) - Cardinality(A \cap B)
    BY <2>2, <2>9, FS_Union
  <2>12. Cardinality(A) \in Nat
    BY <2>2, FS_CardinalityType
  <2> DEFINE x == Cardinality(A)
             y == Cardinality(B)
  <2>13. Cardinality(A \cup B) = c[n]
    <3> HIDE DEF x, y
    <3>1. x \in Nat /\ y = r.length /\ c[n] = x + r.length
      BY <2>1, <2>2, <2>9, <2>12 DEF x, y
    <3>2. Cardinality(A \cup B) = x + y - 0
      BY <2>10, <2>11 DEF x, y
    <3>3. QED
      BY <2>3, <3>1, <3>2
  <2> HIDE DEF U
  <2>14. QED
    BY <2>1, <2>6, <2>11, <2>13
<1>12. \A n \in 0..N : n \in P
  <2> HIDE DEF P
  <2>1. QED
    BY <1>1, <1>10, <1>11, EveryRound
<1>13. c[N] = Cardinality(U(N))
  <2>1. N \in 0..N
    BY <1>1
  <2> HIDE DEF U
  <2>2. QED
    BY <1>12, <2>1
<1>14. All(rs) = U(N)
  <2>1. All(rs) \subseteq Nat /\ \A v \in Nat : v \in All(rs) <=> Has(rs, v)
    BY <1>1, AllIs
  <2>2. \A v : Has(rs, v) <=> \E j \in 1..N : Holds(rs[j], v)
    BY <1>1 DEF Has
  <2>3. QED
    BY <2>1, <2>2
<1> HIDE DEF U
<1>15. QED
  BY <1>3, <1>13, <1>14

-----------------------------------------------------------------------------
(* The theorem *)

\* A normal vector answers as the set it stands for.
LEMMA QueriesHold ==
  ASSUME NEW rs \in Vec, NEW set, Denotes(rs, set)
  PROVE  QueriesAgree(rs, set)
<1>1. Sound(rs) /\ set \subseteq Nat /\ \A v \in Nat : v \in set <=> Has(rs, v)
  BY Denoted
<1>2. All(rs) = set
  BY DEF Denotes, All
<1>3. len(rs) = Cardinality(set)
  BY <1>1, <1>2, LengthIs
<1>4. ASSUME NEW v \in 0..Size
      PROVE  LET n == contained_length_from_value(rs, v)
             IN /\ contains(rs, v) <=> v \in set
                /\ v..(v + n - 1) \subseteq set /\ v + n \notin set
  <2> DEFINE n == contained_length_from_value(rs, v)
  <2>1. v \in Nat
    BY RangesAssumption
  <2>2. /\ contains(rs, v) <=> Has(rs, v)
        /\ n \in Nat
        /\ \A w \in Nat : v <= w /\ w < v + n => Has(rs, w)
        /\ ~Has(rs, v + n)
    BY <1>1, <2>1, QueriesAre
  <2> HIDE DEF n
  <2>3. v + n \in Nat
    BY <2>1, <2>2
  <2>4. \A w \in v..(v + n - 1) : w \in Nat /\ v <= w /\ w < v + n
    BY <2>1, <2>2
  <2>5. v..(v + n - 1) \subseteq set /\ v + n \notin set
    BY <1>1, <2>2, <2>3, <2>4
  <2>6. QED
    BY <1>1, <2>1, <2>2, <2>5 DEF n
<1>5. QED
  BY <1>3, <1>4 DEF QueriesAgree

\* Two normal vectors behave as the sets they stand for.
LEMMA OperationsHold ==
  ASSUME NEW rs \in Vec, NEW set, Denotes(rs, set),
         NEW other \in Vec, NEW others, Denotes(other, others)
  PROVE  OperationsAgree(rs, set, other, others)
<1>1. Sound(rs) /\ set \subseteq Nat /\ \A v \in Nat : v \in set <=> Has(rs, v)
  BY Denoted
<1>2. /\ Sound(other) /\ others \subseteq Nat
      /\ \A v \in Nat : v \in others <=> Has(other, v)
  BY Denoted
<1>3. Denotes(union(rs, other), set \cup others)
  <2> DEFINE u == union(rs, other)
             s == set \cup others
  <2>1. Sound(u) /\ \A v \in Nat : Has(u, v) <=> Has(rs, v) \/ Has(other, v)
    BY <1>1, <1>2, UnionIs DEF Sound
  <2>2. s \in SUBSET Nat /\ \A v \in Nat : v \in s <=> Has(u, v)
    BY <1>1, <1>2, <2>1
  <2> HIDE DEF u, s
  <2>3. Denotes(u, s)
    BY <2>1, <2>2, Stands
  <2>4. QED
    BY <2>3 DEF u, s
<1>4. Denotes(minus(rs, other), set \ others)
  <2> DEFINE u == minus(rs, other)
             s == set \ others
  <2>1. Sound(u) /\ \A v \in Nat : Has(u, v) <=> Has(rs, v) /\ ~Has(other, v)
    BY <1>1, <1>2, MinusIs DEF Sound
  <2>2. s \in SUBSET Nat /\ \A v \in Nat : v \in s <=> Has(u, v)
    BY <1>1, <1>2, <2>1
  <2> HIDE DEF u, s
  <2>3. Denotes(u, s)
    BY <2>1, <2>2, Stands
  <2>4. QED
    BY <2>3 DEF u, s
<1>5. Denotes(intersection(rs, other), set \cap others)
  <2> DEFINE u == intersection(rs, other)
             s == set \cap others
  <2>1. Sound(u) /\ \A v \in Nat : Has(u, v) <=> Has(rs, v) /\ Has(other, v)
    BY <1>1, <1>2, IntersectionIs
  <2>2. s \in SUBSET Nat /\ \A v \in Nat : v \in s <=> Has(u, v)
    BY <1>1, <1>2, <2>1
  <2> HIDE DEF u, s
  <2>3. Denotes(u, s)
    BY <2>1, <2>2, Stands
  <2>4. QED
    BY <2>3 DEF u, s
<1>6. contains_range_set(rs, other) <=> others \subseteq set
  <2>1. contains_range_set(rs, other) <=> \A w \in Nat : Has(other, w) => Has(rs, w)
    BY <1>1, <1>2, ContainsAllIs
  <2>2. QED
    BY <1>1, <1>2, <2>1
<1>7. QED
  BY <1>3, <1>4, <1>5, <1>6 DEF OperationsAgree

\* The inductive invariant.
RangesInv ==
  /\ ranges \in [Sets -> Vec] /\ bytes \in [Sets -> SUBSET Nat]
  /\ \A k \in Sets : Denotes(ranges[k], bytes[k])

\* An addition and a subtraction keep it.
LEMMA UpdatesHold ==
  ASSUME RangesInv, NEW k \in Sets, NEW r \in Inputs, Add(k, r) \/ Subtract(k, r)
  PROVE  RangesInv'
<1> DEFINE rs == ranges[k]
           set == bytes[k]
<1>1. r \in RangeRec
  BY RangesAssumption DEF Inputs, RangeRec
<1>2. rs \in Vec /\ Denotes(rs, set) /\ set \subseteq Nat
  BY DEF RangesInv
<1>3. Sound(rs) /\ \A v \in Nat : v \in set <=> Has(rs, v)
  BY <1>2, Denoted
<1>4. BytesOf(r) \subseteq Nat /\ \A v \in Nat : v \in BytesOf(r) <=> Holds(r, v)
  BY <1>1, BytesAre
<1>5. ASSUME NEW t, NEW u, t \in Vec, u \in SUBSET Nat, Denotes(t, u),
             ranges' = [ranges EXCEPT ![k] = t], bytes' = [bytes EXCEPT ![k] = u]
      PROVE  RangesInv'
  BY <1>5 DEF RangesInv
<1>6. CASE Add(k, r)
  <2> DEFINE t == add_range(rs, r)
             u == set \cup BytesOf(r)
  <2>1. Sound(t) /\ \A v \in Nat : Has(t, v) <=> Has(rs, v) \/ Holds(r, v)
    BY <1>1, <1>3, AddIs
  <2>2. u \in SUBSET Nat /\ \A v \in Nat : v \in u <=> Has(t, v)
    BY <1>2, <1>3, <1>4, <2>1
  <2>3. ranges' = [ranges EXCEPT ![k] = t] /\ bytes' = [bytes EXCEPT ![k] = u]
    BY <1>6 DEF Add
  <2> HIDE DEF t, u
  <2>4. Denotes(t, u) /\ t \in Vec
    BY <2>1, <2>2, Stands DEF Sound
  <2>5. QED
    BY <1>5, <2>2, <2>3, <2>4
<1>7. CASE Subtract(k, r)
  <2> DEFINE t == subtract_range(rs, r)
             u == set \ BytesOf(r)
  <2>1. Sound(t) /\ \A v \in Nat : Has(t, v) <=> Has(rs, v) /\ ~Holds(r, v)
    BY <1>1, <1>3, SubtractIs
  <2>2. u \in SUBSET Nat /\ \A v \in Nat : v \in u <=> Has(t, v)
    BY <1>2, <1>3, <1>4, <2>1
  <2>3. ranges' = [ranges EXCEPT ![k] = t] /\ bytes' = [bytes EXCEPT ![k] = u]
    BY <1>7 DEF Subtract
  <2> HIDE DEF t, u
  <2>4. Denotes(t, u) /\ t \in Vec
    BY <2>1, <2>2, Stands DEF Sound
  <2>5. QED
    BY <1>5, <2>2, <2>3, <2>4
<1>8. QED
  BY <1>6, <1>7

\* Whatever is added and taken away, in whatever order, a range set stays
\* normal and stands for its bytes (range_set.rs:add_range, subtract_range).
THEOREM RangesInvariant == RangesSpec => []RangesInv
<1>1. RangesInit => RangesInv
  <2> SUFFICES ASSUME RangesInit PROVE RangesInv
    OBVIOUS
  <2> DEFINE e == <<>>
  <2>1. Sound(e) /\ \A v : ~Has(e, v)
    BY NoneSound, HasIs
  <2> HIDE DEF e
  <2>2. Denotes(e, {}) /\ e \in Vec
    BY <2>1, Stands DEF Sound
  <2>3. ranges = [k \in Sets |-> e] /\ bytes = [k \in Sets |-> {}]
    BY DEF RangesInit, e
  <2>4. QED
    BY <2>2, <2>3 DEF RangesInv
<1>2. RangesInv /\ [RangesNext]_rangeVars => RangesInv'
  <2> SUFFICES ASSUME RangesInv, [RangesNext]_rangeVars PROVE RangesInv'
    OBVIOUS
  <2>1. CASE RangesNext
    BY <2>1, UpdatesHold DEF RangesNext
  <2>2. CASE UNCHANGED rangeVars
    BY <2>2 DEF rangeVars, RangesInv
  <2>3. QED
    BY <2>1, <2>2
<1>3. QED
  BY <1>1, <1>2, PTL DEF RangesSpec

\* Every query and every operation on range sets of any size answers as the
\* sets of bytes do: no early return of range_set.rs is taken too soon, and no
\* loop of it stops too soon.
THEOREM RangesAreSetsHolds == RangesSpec => []RangesAreSets
<1>1. RangesInv => RangesAreSets
  <2> SUFFICES ASSUME RangesInv PROVE RangesAreSets
    OBVIOUS
  <2>1. ASSUME NEW k \in Sets PROVE ranges[k] \in Vec /\ Denotes(ranges[k], bytes[k])
    BY <2>1 DEF RangesInv
  <2>2. \A k \in Sets : QueriesAgree(ranges[k], bytes[k])
    BY <2>1, QueriesHold
  <2>3. \A k, l \in Sets : OperationsAgree(ranges[k], bytes[k], ranges[l], bytes[l])
    BY <2>1, OperationsHold
  <2>4. QED
    BY <2>1, <2>2, <2>3 DEF RangesAreSets
<1>2. QED
  BY <1>1, RangesInvariant, PTL
====
