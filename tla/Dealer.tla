------------------------------- MODULE Dealer -------------------------------
(***************************************************************************)
(* The dealer, the websocket over which Spotify sends messages and         *)
(* requests (core/src/dealer): the manager that is built before it is      *)
(* started (manager.rs), the trees of handlers and subscribers (maps.rs),  *)
(* the two tasks of a connection, the task that reconnects, and the        *)
(* responders that owe an answer to a request (mod.rs).                    *)
(*                                                                         *)
(* A path is a uri that has been split into its parts.  A tree is the set  *)
(* of its leaves, each with its path.                                      *)
(***************************************************************************)
EXTENDS Integers, Sequences, SequencesExt, FiniteSets

CONSTANTS Paths,        \* paths of uris
          Clients,      \* who listens, or handles requests
          Keys,         \* requests that the server may make
          MaxSockets,   \* bound: connections made
          DealerScenes  \* the kinds of steps that occur together

ASSUME PathsAssumption == Paths \subseteq Seq(STRING)
ASSUME SocketsAssumption == MaxSockets \in Nat \ {0}

VARIABLES manager,  \* DealerManagerInner: the builder, the dealer, the trees
          client,   \* what each client has asked for, and whether it listens
          runner,   \* the task run()
          sock,     \* the connections and their two tasks
          req,      \* the requests and their responders
          does      \* the kinds of steps of this behaviour

dealerVars == <<manager, client, runner, sock, req, does>>

NoSocket == [send |-> "none", recv |-> "none", out |-> <<>>, ping |-> "idle",
             pong |-> TRUE, up |-> FALSE, expires |-> FALSE]

DealerInit ==
  /\ manager = [builder |-> TRUE, dealer |-> "none", handlers |-> {},
                subs |-> {}, closed |-> FALSE]
  /\ client = [c \in Clients |-> "idle"]
  /\ runner = [st |-> "none", sock |-> 0, tasks |-> {}]
  /\ sock = [i \in 1..MaxSockets |-> NoSocket]
  /\ req = [k \in Keys |-> [st |-> "none", sock |-> 0, by |-> "none",
                            fed |-> <<>>]]
  /\ does \in DealerScenes

-----------------------------------------------------------------------------
(* HandlerMap and SubscriberMap                                            *)

\* A walk down the tree along the uri comes through the node at path.
Covers(path, uri) == IsPrefix(path, uri)

InsertAnywhere(handlers, path) ==
  ~\E h \in handlers : Covers(h.path, path)

\* HandlerMap::insert fails at a leaf on the way, and where there is a tree.
CanInsert(handlers, path) ==
  ~\E h \in handlers : Covers(h.path, path) \/ Covers(path, h.path)

\* HandlerMap::get stops at the first leaf of the path.
Get(handlers, path) ==
  LET on == {h \in handlers : Covers(h.path, path)}
  IN {h \in on : \A g \in on : Len(h.path) <= Len(g.path)}

\* SubscriberMap::retain tells the subscribers at the first node of the path
\* that has any, drops those who no longer listen, and looks no further.
Told(subs, path) ==
  LET on == {s \in subs : Covers(s.path, path)}
  IN {s \in on : \A t \in on : Len(s.path) <= Len(t.path)}

-----------------------------------------------------------------------------
(* The manager                                                             *)

\* Before start has taken the builder, or when there is a dealer.
Available == manager.dealer = "set" \/ manager.builder

AddHandleFor(c, path) ==
  /\ "handle" \in does /\ client[c] = "idle"
  /\ LET ok == Available /\ CanInsert(manager.handlers, path)
     IN /\ manager' = IF ok THEN [manager EXCEPT
                                !.handlers = @ \cup {[path |-> path, by |-> c]}]
                      ELSE manager
        /\ client' = [client EXCEPT ![c] = IF ok THEN "handles"
                                              ELSE "refused"]
  /\ UNCHANGED <<runner, sock, req, does>>

AddListenFor(c, path) ==
  /\ "listen" \in does /\ client[c] = "idle"
  /\ manager' = IF Available THEN [manager EXCEPT
                  !.subs = @ \cup {[path |-> path, by |-> c]}] ELSE manager
  /\ client' = [client EXCEPT ![c] = IF Available THEN "listens"
                                        ELSE "refused"]
  /\ UNCHANGED <<runner, sock, req, does>>

\* A request that waits in the receiver goes with it; its responder is told.
ReceiverDropped(c) ==
  /\ client[c] \in {"handles", "listens"}
  /\ client' = [client EXCEPT ![c] = "gone"]
  /\ UNCHANGED <<manager, runner, sock, req, does>>

\* start: the builder is taken, for good.
Start ==
  /\ manager.builder
  /\ manager' = [manager EXCEPT !.builder = FALSE, !.dealer = "launching"]
  /\ UNCHANGED <<client, runner, sock, req, does>>

NewSocket(i) ==
  [sock EXCEPT ![i] = [NoSocket EXCEPT !.send = "running", !.recv = "running",
                                       !.up = TRUE]]

\* Builder::launch; get_url or connect may fail.
Launch ==
  /\ manager.dealer = "launching" /\ runner.st = "none"
  /\ \/ /\ runner' = [st |-> "loop", sock |-> 1, tasks |-> {"send", "recv"}]
        /\ sock' = NewSocket(1)
        /\ UNCHANGED manager
     \/ /\ manager' = [manager EXCEPT !.dealer = "none"]
        /\ UNCHANGED <<runner, sock>>
  /\ UNCHANGED <<client, req, does>>

\* run() is under way before the manager has the dealer.
SetDealer ==
  /\ manager.dealer = "launching" /\ runner.st # "none"
  /\ manager' = [manager EXCEPT !.dealer = "set"]
  /\ UNCHANGED <<client, runner, sock, req, does>>

\* close takes the dealer and closes the semaphore; it then waits for run().
Close ==
  /\ manager.dealer = "set"
  /\ manager' = [manager EXCEPT !.dealer = "none", !.closed = TRUE]
  /\ UNCHANGED <<client, runner, sock, req, does>>

-----------------------------------------------------------------------------
(* Responders                                                              *)

Reply(k, success) == [type |-> "reply", key |-> k, success |-> success]

\* send_internal: the answer is lost when the sending task has ended.
SendInternal(s, i, m) ==
  IF s[i].send = "running" THEN [s EXCEPT ![i].out = Append(@, m)] ELSE s

AlwaysOnDrop(s, i, k, sent) == SendInternal(s, i, Reply(k, FALSE))

\* Drop: a responder that has not been used answers false.
DropResponder(s, i, k, sent) ==
  IF sent THEN s ELSE SendInternal(s, i, Reply(k, FALSE))

\* The responder keeps the sender of the connection that asked.
Respond(k, reply) ==
  LET i == req[k].sock
      told == IF reply = "Unanswered" THEN sock
              ELSE SendInternal(sock, i, Reply(k, reply = "Success"))
  IN /\ sock' = DropResponder(told, i, k, TRUE)
     /\ req' = [req EXCEPT ![k].st = IF reply = "Unanswered" THEN "unanswered"
                                     ELSE "answered"]

\* The client answers; one that is gone, or forgets to, answers Failure.
ClientReplies(k) ==
  /\ req[k].st = "handled"
  /\ \/ client[req[k].by] = "handles"
        /\ \E reply \in {"Success", "Failure", "Unanswered"} : Respond(k, reply)
     \/ client[req[k].by] = "gone" /\ Respond(k, "Failure")
  /\ UNCHANGED <<manager, client, runner, does>>

-----------------------------------------------------------------------------
(* A connection: what the receiving task does                              *)

Receiving(i) == sock[i].recv = "running" /\ sock[i].up

\* A message for a path; those who are gone are taken out of the tree.
DispatchMessage(i, path) ==
  /\ "listen" \in does /\ Receiving(i)
  /\ manager' = [manager EXCEPT !.subs =
       @ \ {s \in Told(manager.subs, path) : client[s.by] = "gone"}]
  /\ UNCHANGED <<client, runner, sock, req, does>>

Refuse(k, i) ==
  /\ req' = [req EXCEPT ![k] = [@ EXCEPT !.st = "answered", !.sock = i]]
  /\ sock' = DropResponder(sock, i, k, FALSE)

\* dispatch_request.  A payload that cannot be read is left without an answer;
\* the responder is dropped when the ident is no uri or nobody handles it.
DispatchRequest(i, k, path) ==
  /\ "handle" \in does /\ Receiving(i) /\ req[k].st = "none"
  /\ \/ /\ req' = [req EXCEPT ![k].st = "malformed"]
        /\ UNCHANGED sock
     \/ Refuse(k, i)     \* not a uri
     \/ LET found == Get(manager.handlers, path)
        IN IF found = {} THEN Refuse(k, i)
           ELSE \E h \in found :
                  IF client[h.by] = "gone" THEN Refuse(k, i)
                  ELSE /\ req' = [req EXCEPT ![k] = [@ EXCEPT !.st = "handled",
                                    !.sock = i, !.by = h.by]]
                       /\ UNCHANGED sock
  /\ UNCHANGED <<manager, client, runner, does>>

\* The receiving task ends and tries to take the sending task with it.
ReceiveEnds(s, i) ==
  [SendInternal(s, i, [type |-> "close"]) EXCEPT ![i].recv = "ended"]

Ping(i) ==
  /\ "ping" \in does /\ sock[i].recv = "running" /\ sock[i].ping = "idle"
  /\ sock' = IF sock[i].send # "running" THEN ReceiveEnds(sock, i)
             ELSE [SendInternal(sock, i, [type |-> "ping"])
                     EXCEPT ![i].ping = "sent", ![i].pong = FALSE]
  /\ UNCHANGED <<manager, client, runner, req, does>>

Pong(i) ==
  /\ Receiving(i) /\ sock[i].ping = "sent" /\ ~sock[i].pong
  /\ ~Contains(sock[i].out, [type |-> "ping"])
  /\ sock' = [sock EXCEPT ![i].pong = TRUE]
  /\ UNCHANGED <<manager, client, runner, req, does>>

\* PING_TIMEOUT
PingTimeout(i) ==
  /\ sock[i].recv = "running" /\ sock[i].ping = "sent"
  /\ sock' = IF sock[i].pong THEN [sock EXCEPT ![i].ping = "idle"]
             ELSE ReceiveEnds(sock, i)
  /\ UNCHANGED <<manager, client, runner, req, does>>

ConnectionLost(i) ==
  /\ "lost" \in does /\ sock[i].up
  /\ sock' = [sock EXCEPT ![i].up = FALSE]
  /\ UNCHANGED <<manager, client, runner, req, does>>

ReceiveError(i) ==
  /\ sock[i].recv = "running" /\ ~sock[i].up
  /\ sock' = ReceiveEnds(sock, i)
  /\ UNCHANGED <<manager, client, runner, req, does>>

-----------------------------------------------------------------------------
(* What the sending task does.  When it ends, what is queued is lost; the  *)
(* Close it sends makes the server close the connection.                   *)

SendEnds(s, i) ==
  [s EXCEPT ![i].send = "ended", ![i].out = <<>>, ![i].up = FALSE]

\* feed: the message is given to the websocket.
Feed(i, m) ==
  /\ sock' = [sock EXCEPT ![i].out = Tail(@)]
  /\ req' = IF m.type = "reply" THEN [req EXCEPT ![m.key].fed = Append(@, i)]
            ELSE req

SendTask(i) ==
  /\ sock[i].send = "running"
  /\ \/ /\ manager.closed
        /\ sock' = SendEnds(sock, i) /\ UNCHANGED req
     \/ /\ ~manager.closed /\ sock[i].out # <<>>
        /\ LET m == Head(sock[i].out)
           IN IF m.type = "close" \/ ~sock[i].up
              THEN sock' = SendEnds(sock, i) /\ UNCHANGED req
              ELSE Feed(i, m)
     \/ /\ ~sock[i].up                        \* keep_flushing fails
        /\ sock' = SendEnds(sock, i) /\ UNCHANGED req
  /\ UNCHANGED <<manager, client, runner, does>>

-----------------------------------------------------------------------------
(* run()                                                                   *)

Ended(i, t) == (IF t = "send" THEN sock[i].send ELSE sock[i].recv) = "ended"

\* The tasks that run() no longer holds are aborted after a while.
Expire(s, i) == IF i = 0 THEN s ELSE [s EXCEPT ![i].expires = TRUE]

TaskEnds ==
  /\ runner.st = "loop" /\ ~manager.closed /\ Cardinality(runner.tasks) = 2
  /\ \E t \in runner.tasks :
       /\ Ended(runner.sock, t)
       /\ runner' = [runner EXCEPT !.tasks = @ \ {t}]
  /\ UNCHANGED <<manager, client, sock, req, does>>

\* get_url; an error ends the task for good.
GetUrl ==
  /\ runner.st = "loop" /\ ~manager.closed /\ Cardinality(runner.tasks) < 2
  /\ \/ /\ runner' = [runner EXCEPT !.st = "connect"]
        /\ UNCHANGED sock
     \/ /\ runner' = [runner EXCEPT !.st = "failed", !.tasks = {}]
        /\ sock' = Expire(sock, runner.sock)
  /\ UNCHANGED <<manager, client, req, does>>

\* A closed dealer is noticed when the connection has been made, or waited
\* for.
Connect ==
  /\ runner.st = "connect"
  /\ \/ /\ runner.sock < MaxSockets
        /\ runner' = [st |-> "loop", sock |-> runner.sock + 1,
                      tasks |-> {"send", "recv"}]
        /\ sock' = Expire(NewSocket(runner.sock + 1), runner.sock)
     \/ /\ runner' = [runner EXCEPT !.st = "loop"]   \* RECONNECT_INTERVAL
        /\ UNCHANGED sock
  /\ UNCHANGED <<manager, client, req, does>>

\* The loop has ended; what is left of the connection is waited for.
JoinTasks ==
  /\ runner.st = "loop" /\ manager.closed
  /\ \A t \in runner.tasks : Ended(runner.sock, t)
  /\ runner' = [runner EXCEPT !.st = "ended", !.tasks = {}]
  /\ UNCHANGED <<manager, client, sock, req, does>>

\* WEBSOCKET_CLOSE_TIMEOUT of TimeoutOnDrop: the task is aborted.
AbortTask(i) ==
  /\ sock[i].expires
  /\ sock' = [sock EXCEPT ![i] = [@ EXCEPT !.send = "ended", !.recv = "ended",
                                           !.out = <<>>, !.expires = FALSE]]
  /\ UNCHANGED <<manager, client, runner, req, does>>

DealerNext ==
  \/ \E c \in Clients : \/ \E p \in Paths : AddHandleFor(c, p)
                                            \/ AddListenFor(c, p)
                        \/ ReceiverDropped(c)
  \/ Start \/ Launch \/ SetDealer \/ Close
  \/ \E i \in 1..MaxSockets :
       \/ \E p \in Paths : \/ DispatchMessage(i, p)
                           \/ \E k \in Keys : DispatchRequest(i, k, p)
       \/ Ping(i) \/ Pong(i) \/ PingTimeout(i) \/ ConnectionLost(i)
       \/ ReceiveError(i) \/ SendTask(i) \/ AbortTask(i)
  \/ \E k \in Keys : ClientReplies(k)
  \/ TaskEnds \/ GetUrl \/ Connect \/ JoinTasks

DealerSpec == DealerInit /\ [][DealerNext]_dealerVars

-----------------------------------------------------------------------------
(* Properties                                                              *)

\* The answers to request k that wait for the sending task of connection i.
Queued(i, k) ==
  {m \in DOMAIN sock[i].out :
     sock[i].out[m].type = "reply" /\ sock[i].out[m].key = k}

\* A request is answered once, whichever of the handler, its client, a client
\* that goes away and the responder's drop comes first: of all connections only
\* the one that asked is ever given an answer or has one queued, never two,
\* and an answer that is neither went down with that connection's sending
\* task, also when another connection is up by then.  A request that is not
\* answered was left so on purpose or could not be read.
AnsweredOnce ==
  \A k \in Keys :
    LET r == req[k]
    IN /\ r.fed \in {<<>>, <<r.sock>>}
       /\ \A i \in 1..MaxSockets : Queued(i, k) # {} =>
            /\ i = r.sock /\ r.fed = <<>>
            /\ \A m, n \in Queued(i, k) : m = n
       /\ IF r.st = "answered"
          THEN \/ r.fed # <<>> \/ Queued(r.sock, k) # {}
               \/ sock[r.sock].send = "ended"
          ELSE r.fed = <<>> /\ \A i \in 1..MaxSockets : Queued(i, k) = {}

\* However handlers are added, before and after the start, the one that was
\* accepted for a uri is the one its requests reach: no later handler for a
\* longer or a shorter path hides it.
HandlerFound ==
  \A h \in manager.handlers : Get(manager.handlers, h.path) = {h}
=============================================================================
