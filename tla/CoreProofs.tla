----------------------------- MODULE CoreProofs -----------------------------
(***************************************************************************)
(* Proofs about the parts of core and of main: the dealer, the access      *)
(* point resolver and its callers, the main loop and the cache.  Each has  *)
(* its own specification and its own inductive invariant.                  *)
(***************************************************************************)
EXTENDS Dealer, SpClient, MainLoop, Cache, Iteration, FiniteSetTheorems

-----------------------------------------------------------------------------
(* The dealer, for all paths, clients, requests and any number of          *)
(* connections                                                             *)

Manager == [builder : BOOLEAN, closed : BOOLEAN,
            dealer : {"none", "launching", "set"},
            handlers : SUBSET [path : Paths, by : Clients],
            subs : SUBSET [path : Paths, by : Clients]]
Request == [st : {"none", "malformed", "handled", "answered", "unanswered"},
            sock : 0..MaxSockets, by : {"none"} \cup Clients,
            fed : Seq(1..MaxSockets)]
Messages == [type : {"ping", "close"}]
            \cup [type : {"reply"}, key : Keys, success : BOOLEAN]
TaskStates == {"none", "running", "ended"}
Socket == [send : TaskStates, recv : TaskStates, out : Seq(Messages),
           ping : {"idle", "sent"}, pong : BOOLEAN, up : BOOLEAN,
           expires : BOOLEAN]

\* No handler's path begins with another's: what CanInsert keeps, and why the
\* first leaf that get meets is the only one on its way.
PrefixFree ==
  \A g, h \in manager.handlers : Covers(g.path, h.path) => g = h

\* The connections are made one after the other, and each once.
Numbered ==
  /\ DOMAIN runner = {"st", "sock", "tasks"} /\ runner.sock \in 0..MaxSockets
  /\ runner.st = "none" => runner.sock = 0
  /\ \A i \in 1..MaxSockets : IF i <= runner.sock THEN sock[i].send # "none"
                              ELSE sock[i] = NoSocket

\* Who owes an answer knows the connection that asked.
AskedBy ==
  \A k \in Keys : req[k].st \in {"handled", "answered"} =>
    req[k].sock \in 1..runner.sock

\* The inductive invariant.
DealerInv ==
  /\ manager \in Manager
  /\ req \in [Keys -> Request]
  /\ sock \in [1..MaxSockets -> Socket]
  /\ Numbered
  /\ AskedBy
  /\ AnsweredOnce
  /\ PrefixFree

-----------------------------------------------------------------------------
(* Answers in a queue                                                      *)

\* The answers to request k in the queue q.
In(q, k) == {m \in DOMAIN q : q[m].type = "reply" /\ q[m].key = k}
Single(S) == \A m, n \in S : m = n

LEMMA EmptyQueue == <<>> \in Seq(Messages) /\ \A k : In(<<>>, k) = {}
BY DEF In

LEMMA QueueOther ==
  ASSUME NEW q \in Seq(Messages), NEW x \in Messages, NEW k,
         ~(x.type = "reply" /\ x.key = k)
  PROVE  In(Append(q, x), k) = In(q, k)
BY DEF In

LEMMA QueueReply ==
  ASSUME NEW q \in Seq(Messages), NEW k \in Keys, NEW b \in BOOLEAN, In(q, k) = {}
  PROVE  LET r == Append(q, Reply(k, b))
         IN r \in Seq(Messages) /\ In(r, k) # {} /\ Single(In(r, k))
<1> DEFINE r == Append(q, Reply(k, b))
<1>1. Reply(k, b) \in Messages /\ Reply(k, b).type = "reply" /\ Reply(k, b).key = k
  BY DEF Reply, Messages
<1>2. /\ r \in Seq(Messages) /\ DOMAIN r = DOMAIN q \cup {Len(q) + 1}
      /\ r[Len(q) + 1] = Reply(k, b) /\ \A m \in DOMAIN q : r[m] = q[m]
  BY <1>1
<1> HIDE DEF r
<1>3. In(r, k) = {Len(q) + 1}
  BY <1>1, <1>2 DEF In
<1>4. QED
  BY <1>2, <1>3 DEF r, Single

LEMMA QueueTail ==
  ASSUME NEW q \in Seq(Messages), q # <<>>, NEW k, Single(In(q, k))
  PROVE  /\ Tail(q) \in Seq(Messages) /\ Single(In(Tail(q), k))
         /\ IF Head(q).type = "reply" /\ Head(q).key = k
            THEN In(q, k) # {} /\ In(Tail(q), k) = {}
            ELSE In(q, k) = {} <=> In(Tail(q), k) = {}
<1>1. /\ Tail(q) \in Seq(Messages) /\ Len(q) \in Nat /\ Len(q) > 0
      /\ DOMAIN q = 1..Len(q) /\ DOMAIN Tail(q) = 1..(Len(q) - 1)
      /\ \A m \in 1..(Len(q) - 1) : Tail(q)[m] = q[m + 1]
      /\ Head(q) = q[1]
  OBVIOUS
<1>2. \A m \in 1..(Len(q) - 1) : m \in In(Tail(q), k) <=> m + 1 \in In(q, k)
  BY <1>1 DEF In
<1>3. In(Tail(q), k) \subseteq 1..(Len(q) - 1) /\ In(q, k) \subseteq 1..Len(q)
  BY <1>1 DEF In
<1>4. (1 \in In(q, k)) <=> (Head(q).type = "reply" /\ Head(q).key = k)
  BY <1>1 DEF In
<1>5. ASSUME NEW m \in In(q, k), m # 1 PROVE m - 1 \in In(Tail(q), k)
  <2>1. m - 1 \in 1..(Len(q) - 1) /\ (m - 1) + 1 = m
    BY <1>1, <1>3, <1>5
  <2>2. QED
    BY <1>2, <2>1
<1>6. Single(In(Tail(q), k))
  <2> SUFFICES ASSUME NEW m \in In(Tail(q), k), NEW n \in In(Tail(q), k)
               PROVE  m = n
    BY DEF Single
  <2>1. m + 1 \in In(q, k) /\ n + 1 \in In(q, k)
    BY <1>2, <1>3
  <2>2. m + 1 = n + 1 /\ m \in Nat /\ n \in Nat
    BY <1>1, <1>3, <2>1 DEF Single
  <2>3. QED
    BY <2>2
<1>7. CASE 1 \in In(q, k)
  <2>1. ASSUME NEW m \in In(Tail(q), k) PROVE FALSE
    <3>1. m + 1 \in In(q, k) /\ m \in Nat /\ m > 0
      BY <1>1, <1>2, <1>3
    <3>2. m + 1 = 1
      BY <1>7, <3>1 DEF Single
    <3>3. QED
      BY <3>1, <3>2
  <2>2. QED
    BY <1>1, <1>4, <1>6, <1>7, <2>1
<1>8. CASE 1 \notin In(q, k)
  <2>1. In(q, k) # {} => In(Tail(q), k) # {}
    BY <1>5, <1>8
  <2>2. In(Tail(q), k) # {} => In(q, k) # {}
    BY <1>2, <1>3
  <2>3. QED
    BY <1>1, <1>4, <1>6, <1>8, <2>1, <2>2
<1>9. QED
  BY <1>7, <1>8

\* What AnsweredOnce says of one request.
Once(k) ==
  /\ req[k].fed \in {<<>>, <<req[k].sock>>}
  /\ \A i \in 1..MaxSockets : In(sock[i].out, k) # {} =>
       i = req[k].sock /\ req[k].fed = <<>> /\ Single(In(sock[i].out, k))
  /\ IF req[k].st = "answered"
     THEN \/ req[k].fed # <<>> \/ In(sock[req[k].sock].out, k) # {}
          \/ sock[req[k].sock].send = "ended"
     ELSE req[k].fed = <<>> /\ \A i \in 1..MaxSockets : In(sock[i].out, k) = {}

LEMMA OnceEach == AnsweredOnce <=> \A k \in Keys : Once(k)
BY DEF AnsweredOnce, Once, Queued, In, Single

\* A step that loses queued answers only with the task that would send them.
LEMMA OnceKept ==
  ASSUME DealerInv, NEW k \in Keys,
         req'[k].fed = req[k].fed, req'[k].sock = req[k].sock,
         (req'[k].st = "answered") <=> (req[k].st = "answered"),
         \A i \in 1..MaxSockets :
           \/ /\ sock'[i].send = sock[i].send
              /\ In(sock'[i].out, k) = In(sock[i].out, k)
           \/ sock'[i].send = "ended" /\ In(sock'[i].out, k) = {}
           \/ sock[i] = NoSocket /\ In(sock'[i].out, k) = {}
  PROVE  Once(k)'
<1>1. Once(k)
  BY OnceEach DEF DealerInv
<1>2. /\ req[k].st = "answered" => /\ req[k].sock \in 1..MaxSockets
                                   /\ sock[req[k].sock] # NoSocket
  <2> SUFFICES ASSUME req[k].st = "answered"
               PROVE  req[k].sock \in 1..MaxSockets /\ sock[req[k].sock] # NoSocket
    OBVIOUS
  <2>1. /\ req[k].sock \in 1..runner.sock /\ runner.sock \in 0..MaxSockets
        /\ MaxSockets \in Nat
    BY SocketsAssumption DEF DealerInv, AskedBy, Numbered
  <2>2. req[k].sock \in 1..MaxSockets /\ req[k].sock <= runner.sock
    BY <2>1
  <2>3. QED
    BY <2>2 DEF DealerInv, Numbered, NoSocket
<1>3. \A i \in 1..MaxSockets :
        \/ In(sock'[i].out, k) = In(sock[i].out, k)
        \/ In(sock'[i].out, k) = {}
  OBVIOUS
<1>4. CASE req[k].st = "answered"
  <2>1. \/ req[k].fed # <<>> \/ In(sock'[req[k].sock].out, k) # {}
        \/ sock'[req[k].sock].send = "ended"
    BY <1>1, <1>2, <1>4 DEF Once
  <2>2. QED
    BY <1>1, <1>3, <1>4, <2>1 DEF Once
<1>5. CASE req[k].st # "answered"
  BY <1>1, <1>3, <1>5 DEF Once
<1>6. QED
  BY <1>4, <1>5

\* send_internal queues the only answer to request k, or it is lost.
LEMMA OnceAnswered ==
  ASSUME DealerInv, NEW k \in Keys, NEW i \in 1..runner.sock, NEW b \in BOOLEAN,
         req[k].st # "answered",
         sock' = SendInternal(sock, i, Reply(k, b)),
         req' = [req EXCEPT ![k] = [@ EXCEPT !.st = "answered", !.sock = i]]
  PROVE  /\ req' \in [Keys -> Request] /\ sock' \in [1..MaxSockets -> Socket]
         /\ \A j \in 1..MaxSockets : j > runner.sock => sock'[j] = sock[j]
         /\ \A j \in 1..MaxSockets : sock'[j].send = sock[j].send
         /\ \A j \in Keys : Once(j)'
<1>1. i \in 1..MaxSockets /\ i \in 0..MaxSockets /\ i <= runner.sock
      /\ runner.sock \in Nat /\ i \in Nat
  BY SocketsAssumption DEF DealerInv, Numbered
<1>2. Reply(k, b) \in Messages /\ Reply(k, b).type = "reply" /\ Reply(k, b).key = k
  BY DEF Reply, Messages
<1>3. /\ req \in [Keys -> Request] /\ sock \in [1..MaxSockets -> Socket]
      /\ Once(k)
  BY OnceEach DEF DealerInv
<1>4. /\ req' \in [Keys -> Request]
      /\ \A j \in Keys : j # k => req'[j] = req[j]
      /\ req'[k].st = "answered" /\ req'[k].sock = i /\ req'[k].fed = <<>>
  <2> DEFINE r == [req[k] EXCEPT !.st = "answered", !.sock = i]
  <2>1. r \in Request /\ r.st = "answered" /\ r.sock = i /\ r.fed = req[k].fed
    BY <1>1, <1>3 DEF Request
  <2>2. req' = [req EXCEPT ![k] = r]
    OBVIOUS
  <2> HIDE DEF r
  <2>3. req[k].fed = <<>>
    BY <1>3 DEF Once
  <2>4. QED
    BY <1>3, <2>1, <2>2, <2>3
<1>5. \A j \in 1..MaxSockets : In(sock[j].out, k) = {}
  BY <1>3 DEF Once
<1>6. CASE sock[i].send = "running"
  <2>1. sock' = [sock EXCEPT ![i].out = Append(@, Reply(k, b))]
    BY <1>6 DEF SendInternal
  <2>2. sock[i] \in Socket
    BY <1>1, <1>3
  <2> DEFINE q == Append(sock[i].out, Reply(k, b))
             s == [sock[i] EXCEPT !.out = q]
  <2>3. /\ sock[i].out \in Seq(Messages) /\ q \in Seq(Messages)
        /\ In(q, k) # {} /\ Single(In(q, k))
    BY <1>1, <1>5, <2>2, QueueReply DEF Socket
  <2>4. \A j \in Keys : j # k => In(q, j) = In(sock[i].out, j)
    BY <1>2, <2>3, QueueOther
  <2> HIDE DEF q
  <2>5. s \in Socket /\ s.send = sock[i].send /\ s.out = q
    BY <2>2, <2>3 DEF Socket
  <2>6. sock' = [sock EXCEPT ![i] = s]
    BY <2>1 DEF q
  <2> HIDE DEF s
  <2>7. /\ sock' \in [1..MaxSockets -> Socket] /\ sock'[i] = s
        /\ \A j \in 1..MaxSockets : j # i => sock'[j] = sock[j]
    BY <1>1, <1>3, <2>5, <2>6
  <2>8. Once(k)'
    BY <1>1, <1>4, <1>5, <2>3, <2>5, <2>7 DEF Once
  <2>9. ASSUME NEW j \in Keys, j # k PROVE Once(j)'
    <3>1. \A n \in 1..MaxSockets : /\ sock'[n].send = sock[n].send
                                   /\ In(sock'[n].out, j) = In(sock[n].out, j)
      BY <2>4, <2>5, <2>7, <2>9
    <3>2. QED
      BY <1>4, <2>9, <3>1, OnceKept
  <2>10. QED
    BY <1>1, <1>4, <2>5, <2>7, <2>8, <2>9
<1>7. CASE sock[i].send # "running"
  <2>1. UNCHANGED sock
    BY <1>7 DEF SendInternal
  <2>2. sock[i].send = "ended"
    BY <1>1, <1>3, <1>7 DEF DealerInv, Numbered, Socket, TaskStates
  <2>3. Once(k)'
    BY <1>4, <1>5, <2>1, <2>2 DEF Once
  <2>4. ASSUME NEW j \in Keys, j # k PROVE Once(j)'
    BY <1>4, <2>1, <2>4, OnceKept
  <2>5. QED
    BY <1>3, <1>4, <2>1, <2>3, <2>4
<1>8. QED
  BY <1>6, <1>7

\* feed gives the answer to the websocket of the connection that asked.
LEMMA OnceFed ==
  ASSUME DealerInv, NEW i \in 1..MaxSockets, sock[i].out # <<>>,
         Feed(i, Head(sock[i].out))
  PROVE  /\ req' \in [Keys -> Request] /\ sock' \in [1..MaxSockets -> Socket]
         /\ \A j \in Keys : req'[j].st = req[j].st /\ req'[j].sock = req[j].sock
         /\ \A j \in 1..MaxSockets : j # i => sock'[j] = sock[j]
         /\ \A j \in 1..MaxSockets : sock'[j].send = sock[j].send
         /\ \A j \in Keys : Once(j)'
<1> DEFINE q == sock[i].out
           m == Head(q)
           s == [sock[i] EXCEPT !.out = Tail(q)]
<1>1. /\ req \in [Keys -> Request] /\ sock \in [1..MaxSockets -> Socket]
      /\ \A j \in Keys : Once(j)
  BY OnceEach DEF DealerInv
<1>2. sock[i] \in Socket /\ q \in Seq(Messages) /\ q # <<>> /\ m \in Messages
  BY <1>1 DEF Socket
<1>3. m.type = "reply" => m.key \in Keys
  BY <1>2 DEF Messages
<1>4. \A j \in Keys : Single(In(q, j))
  BY <1>1 DEF Once, Single
<1>5. Tail(q) \in Seq(Messages)
  BY <1>2
<1>6. sock' = [sock EXCEPT ![i] = s]
  BY DEF Feed
<1>7. s \in Socket /\ s.send = sock[i].send /\ s.out = Tail(q)
  BY <1>2, <1>5 DEF Socket
<1>8. req' = IF m.type = "reply" THEN [req EXCEPT ![m.key].fed = Append(@, i)]
             ELSE req
  BY DEF Feed
<1> HIDE DEF s, q, m
<1>9. /\ sock' \in [1..MaxSockets -> Socket] /\ sock'[i] = s
      /\ \A j \in 1..MaxSockets : j # i => sock'[j] = sock[j]
  BY <1>1, <1>6, <1>7
<1>10. ASSUME NEW j \in Keys, ~(m.type = "reply" /\ m.key = j)
       PROVE  req'[j] = req[j] /\ Once(j)'
  <2>1. req'[j] = req[j]
    BY <1>1, <1>3, <1>8, <1>10
  <2>2. /\ Single(In(Tail(q), j))
        /\ In(q, j) = {} <=> In(Tail(q), j) = {}
    BY <1>2, <1>4, <1>10, QueueTail DEF m
  <2>3. /\ \A n \in 1..MaxSockets : /\ sock'[n].send = sock[n].send
                                    /\ In(sock'[n].out, j) = {}
                                         <=> In(sock[n].out, j) = {}
        /\ \A n \in 1..MaxSockets : Single(In(sock[n].out, j)) =>
             Single(In(sock'[n].out, j))
    BY <1>7, <1>9, <2>2 DEF q
  <2>4. req[j].st = "answered" => req[j].sock \in 1..MaxSockets
    BY SocketsAssumption DEF DealerInv, AskedBy, Numbered
  <2>5. CASE req[j].st = "answered"
    BY <1>1, <2>1, <2>3, <2>4, <2>5 DEF Once
  <2>6. CASE req[j].st # "answered"
    BY <1>1, <2>1, <2>3, <2>6 DEF Once
  <2>7. QED
    BY <2>1, <2>5, <2>6
<1>11. ASSUME NEW k \in Keys, m.type = "reply", m.key = k
       PROVE  /\ req' \in [Keys -> Request]
              /\ \A j \in Keys : /\ req'[j].st = req[j].st
                                 /\ req'[j].sock = req[j].sock
                                 /\ Once(j)'
  <2> DEFINE r == [req[k] EXCEPT !.fed = Append(@, i)]
  <2>1. k \in Keys /\ req[k] \in Request
    BY <1>1
  <2>2. In(q, k) # {} /\ In(Tail(q), k) = {}
    BY <1>2, <1>4, <1>11, <2>1, QueueTail DEF m
  <2>3. i = req[k].sock /\ req[k].fed = <<>> /\ req[k].st = "answered"
    BY <1>1, <2>1, <2>2 DEF Once, q
  <2>4. r \in Request /\ r.fed = <<i>> /\ r.sock = i /\ r.st = "answered"
    <3>1. Append(<<>>, i) = <<i>> /\ <<i>> \in Seq(1..MaxSockets)
      OBVIOUS
    <3>2. QED
      BY <2>1, <2>3, <3>1 DEF Request
  <2>5. req' = [req EXCEPT ![k] = r]
    BY <1>8, <1>11
  <2> HIDE DEF r
  <2>6. /\ req' \in [Keys -> Request] /\ req'[k] = r
        /\ \A j \in Keys : j # k => req'[j] = req[j]
    BY <1>1, <2>1, <2>4, <2>5
  <2>7. \A j \in 1..MaxSockets : In(sock'[j].out, k) = {}
    BY <1>1, <1>7, <1>9, <2>1, <2>2, <2>3 DEF Once
  <2>8. Once(k)'
    <3>1. <<i>> # <<>>
      OBVIOUS
    <3>2. QED
      BY <2>4, <2>6, <2>7, <3>1 DEF Once
  <2>9. \A j \in Keys : /\ req'[j].st = req[j].st /\ req'[j].sock = req[j].sock
                        /\ Once(j)'
    BY <1>10, <1>11, <2>3, <2>4, <2>6, <2>8
  <2>10. QED
    BY <2>6, <2>9
<1>12. CASE m.type # "reply"
  BY <1>1, <1>7, <1>8, <1>9, <1>10, <1>12
<1>13. CASE m.type = "reply"
  BY <1>3, <1>7, <1>9, <1>11, <1>13
<1>14. QED
  BY <1>12, <1>13

-----------------------------------------------------------------------------
(* The steps                                                               *)

LEMMA AddHandler ==
  ASSUME DealerInv, NEW c \in Clients, NEW p \in Paths, AddHandleFor(c, p)
  PROVE  manager' \in Manager /\ PrefixFree'
<1> DEFINE new == [path |-> p, by |-> c]
<1>1. CASE manager' = manager
  BY <1>1 DEF DealerInv, PrefixFree
<1>2. CASE /\ CanInsert(manager.handlers, p)
           /\ manager' = [manager EXCEPT !.handlers = @ \cup {new}]
  <2>1. new \in [path : Paths, by : Clients] /\ new.path = p
    OBVIOUS
  <2>2. /\ manager' \in Manager
        /\ manager'.handlers = manager.handlers \cup {new}
    BY <1>2, <2>1 DEF DealerInv, Manager
  <2>3. \A g \in manager.handlers : ~Covers(g.path, p) /\ ~Covers(p, g.path)
    BY <1>2 DEF CanInsert
  <2>4. QED
    BY <2>1, <2>2, <2>3 DEF DealerInv, PrefixFree
<1>3. QED
  BY <1>1, <1>2 DEF AddHandleFor

\* A step that leaves the requests and the handlers alone keeps the invariant
\* when it makes connections in order and loses answers only with their task.
LEMMA OtherRequestsKeep ==
  ASSUME DealerInv, UNCHANGED req, manager' \in Manager,
         manager'.handlers = manager.handlers,
         sock' \in [1..MaxSockets -> Socket], Numbered',
         runner'.sock >= runner.sock,
         \A i \in 1..MaxSockets :
           \/ /\ sock'[i].send = sock[i].send
              /\ \A k \in Keys : In(sock'[i].out, k) = In(sock[i].out, k)
           \/ sock'[i].send = "ended" /\ sock'[i].out = <<>>
           \/ sock[i] = NoSocket /\ sock'[i].out = <<>>
  PROVE  DealerInv'
<1>1. req' \in [Keys -> Request]
  BY DEF DealerInv
<1>3. \A k \in Keys : Once(k)'
  BY EmptyQueue, OnceKept
<1>4. AnsweredOnce'
  BY <1>3, OnceEach DEF AnsweredOnce, Once, Queued, In, Single
<1>5. AskedBy'
  <2>1. 1..runner.sock \subseteq 1..runner'.sock
    BY DEF DealerInv, Numbered
  <2>2. QED
    BY <2>1 DEF DealerInv, AskedBy
<1>6. PrefixFree'
  BY DEF DealerInv, PrefixFree
<1>7. QED
  BY <1>1, <1>4, <1>5, <1>6 DEF DealerInv

\* A step of the manager.
LEMMA ManagerKeeps ==
  ASSUME DealerInv, UNCHANGED <<req, sock, runner>>, manager' \in Manager,
         manager'.handlers = manager.handlers
  PROVE  DealerInv'
<1>1. Numbered' /\ sock' \in [1..MaxSockets -> Socket] /\ runner'.sock >= runner.sock
  BY DEF DealerInv, Numbered
<1>2. QED
  BY <1>1, OtherRequestsKeep

\* A step of one connection.
LEMMA SocketKeeps ==
  ASSUME DealerInv, UNCHANGED <<req, manager>>, DOMAIN runner' = DOMAIN runner,
         runner'.sock = runner.sock, runner'.st = "none" => runner.st = "none",
         NEW i \in 1..MaxSockets, NEW s \in Socket,
         sock' = [sock EXCEPT ![i] = s], sock[i] # NoSocket,
         \/ /\ s.send = sock[i].send
            /\ \A k \in Keys : In(s.out, k) = In(sock[i].out, k)
         \/ s.send = "ended" /\ s.out = <<>>
  PROVE  DealerInv'
<1>1. /\ sock' \in [1..MaxSockets -> Socket] /\ sock'[i] = s
      /\ \A j \in 1..MaxSockets : j # i => sock'[j] = sock[j]
  BY DEF DealerInv
<1>2. i <= runner.sock /\ s.send # "none"
  BY DEF DealerInv, Numbered
<1>3. Numbered'
  BY <1>1, <1>2 DEF DealerInv, Numbered
<1>4. runner'.sock >= runner.sock /\ manager' \in Manager
  BY DEF DealerInv, Numbered
<1>5. QED
  BY <1>1, <1>3, <1>4, OtherRequestsKeep

\* A connection that has been made is none of those that are to come.
LEMMA RunningIsMade ==
  ASSUME NEW i, sock[i].send # "none" \/ sock[i].recv # "none" \/ sock[i].up
                \/ sock[i].expires \/ sock[i].ping # "idle"
  PROVE  sock[i] # NoSocket
BY DEF NoSocket

\* What is sent besides answers leaves the answers as they are.
LEMMA SendFrame ==
  ASSUME NEW q \in Seq(Messages), NEW t \in {"ping", "close"}
  PROVE  /\ Append(q, [type |-> t]) \in Seq(Messages)
         /\ \A k \in Keys : In(Append(q, [type |-> t]), k) = In(q, k)
<1> DEFINE x == [type |-> t]
<1>1. x \in Messages /\ x.type # "reply"
  BY DEF Messages
<1> HIDE DEF x
<1>2. QED
  BY <1>1, QueueOther DEF x

LEMMA ReceiveEndsKeeps ==
  ASSUME DealerInv, UNCHANGED <<req, manager, runner>>, NEW i \in 1..MaxSockets,
         sock[i].recv = "running", sock' = ReceiveEnds(sock, i)
  PROVE  DealerInv'
<1>1. sock \in [1..MaxSockets -> Socket] /\ sock[i] \in Socket
  BY DEF DealerInv
<1>2. sock[i] # NoSocket
  BY RunningIsMade
<1>3. CASE sock[i].send = "running"
  <2> DEFINE q == Append(sock[i].out, [type |-> "close"])
             s == [sock[i] EXCEPT !.out = q, !.recv = "ended"]
  <2>1. q \in Seq(Messages) /\ \A k \in Keys : In(q, k) = In(sock[i].out, k)
    BY <1>1, SendFrame DEF Socket
  <2>2. sock' = [sock EXCEPT ![i] = s]
    BY <1>1, <1>3 DEF ReceiveEnds, SendInternal, Socket
  <2> HIDE DEF q
  <2>3. s \in Socket /\ s.send = sock[i].send /\ s.out = q
    BY <1>1, <2>1 DEF Socket, TaskStates
  <2> HIDE DEF s
  <2>4. QED
    BY <1>2, <2>1, <2>2, <2>3, SocketKeeps
<1>4. CASE sock[i].send # "running"
  <2> DEFINE s == [sock[i] EXCEPT !.recv = "ended"]
  <2>1. sock' = [sock EXCEPT ![i] = s]
    BY <1>4 DEF ReceiveEnds, SendInternal
  <2>2. s \in Socket /\ s.send = sock[i].send /\ s.out = sock[i].out
    BY <1>1 DEF Socket, TaskStates
  <2> HIDE DEF s
  <2>3. QED
    BY <1>2, <2>1, <2>2, SocketKeeps
<1>5. QED
  BY <1>3, <1>4

LEMMA SendEndsKeeps ==
  ASSUME DealerInv, UNCHANGED <<req, manager, runner>>, NEW i \in 1..MaxSockets,
         sock[i].send = "running", sock' = SendEnds(sock, i)
  PROVE  DealerInv'
<1> DEFINE s == [sock[i] EXCEPT !.send = "ended", !.out = <<>>, !.up = FALSE]
<1>1. sock[i] \in Socket
  BY DEF DealerInv
<1>2. sock' = [sock EXCEPT ![i] = s]
  BY DEF SendEnds
<1>3. s \in Socket /\ s.send = "ended" /\ s.out = <<>>
  BY <1>1, EmptyQueue DEF Socket, TaskStates
<1>4. sock[i] # NoSocket
  BY RunningIsMade
<1> HIDE DEF s
<1>5. QED
  BY <1>2, <1>3, <1>4, SocketKeeps

LEMMA ConnectionKeeps ==
  ASSUME DealerInv, NEW i \in 1..MaxSockets,
         \/ Ping(i) \/ Pong(i) \/ PingTimeout(i) \/ ConnectionLost(i)
         \/ ReceiveError(i) \/ AbortTask(i)
  PROVE  DealerInv'
<1>1. sock[i] \in Socket /\ UNCHANGED <<req, manager, runner>>
  BY DEF DealerInv, Ping, Pong, PingTimeout, ConnectionLost, ReceiveError, AbortTask
<1>2. CASE sock[i].recv = "running" /\ sock' = ReceiveEnds(sock, i)
  BY <1>1, <1>2, ReceiveEndsKeeps
<1>3. CASE Ping(i) /\ sock[i].send = "running"
  <2> DEFINE q == Append(sock[i].out, [type |-> "ping"])
             s == [sock[i] EXCEPT !.out = q, !.ping = "sent", !.pong = FALSE]
  <2>1. q \in Seq(Messages) /\ \A k \in Keys : In(q, k) = In(sock[i].out, k)
    BY <1>1, SendFrame DEF Socket
  <2>2. sock' = [sock EXCEPT ![i] = s]
    BY <1>1, <1>3 DEF Ping, SendInternal, Socket, DealerInv
  <2> HIDE DEF q
  <2>3. s \in Socket /\ s.send = sock[i].send /\ s.out = q
    BY <1>1, <2>1 DEF Socket
  <2> HIDE DEF s
  <2>4. QED
    BY <1>1, <1>3, <2>1, <2>2, <2>3, SocketKeeps, RunningIsMade
<1>4. ASSUME NEW s \in Socket, sock' = [sock EXCEPT ![i] = s], sock[i] # NoSocket,
             s.send = sock[i].send, s.out = sock[i].out
      PROVE  DealerInv'
  BY <1>1, <1>4, SocketKeeps
<1>5. CASE Pong(i)
  <2>1. [sock[i] EXCEPT !.pong = TRUE] \in Socket
    BY <1>1 DEF Socket
  <2>2. QED
    BY <1>1, <1>4, <1>5, <2>1, RunningIsMade DEF Pong, Receiving, Socket
<1>6. CASE PingTimeout(i)
  <2>1. [sock[i] EXCEPT !.ping = "idle"] \in Socket
    BY <1>1 DEF Socket
  <2>2. QED
    BY <1>1, <1>2, <1>4, <1>6, <2>1, RunningIsMade DEF PingTimeout, Socket
<1>7. CASE ConnectionLost(i)
  <2>1. [sock[i] EXCEPT !.up = FALSE] \in Socket
    BY <1>1 DEF Socket
  <2>2. QED
    BY <1>1, <1>4, <1>7, <2>1, RunningIsMade DEF ConnectionLost, Socket
<1>8. CASE AbortTask(i)
  <2> DEFINE s == [sock[i] EXCEPT !.send = "ended", !.recv = "ended",
                                  !.out = <<>>, !.expires = FALSE]
  <2>1. s \in Socket /\ s.send = "ended" /\ s.out = <<>>
    BY <1>1, EmptyQueue DEF Socket, TaskStates
  <2>2. sock' = [sock EXCEPT ![i] = s] /\ sock[i] # NoSocket
    BY <1>8, RunningIsMade DEF AbortTask
  <2> HIDE DEF s
  <2>3. QED
    BY <1>1, <2>1, <2>2, SocketKeeps
<1>9. QED
  BY <1>2, <1>3, <1>5, <1>6, <1>7, <1>8 DEF Ping, ReceiveError

\* A new connection, while the tasks of the last one are given up.
LEMMA NewConnection ==
  ASSUME DealerInv, UNCHANGED <<req, manager>>, runner.sock < MaxSockets,
         DOMAIN runner' = {"st", "sock", "tasks"},
         runner'.sock = runner.sock + 1, runner'.st # "none",
         sock' = Expire(NewSocket(runner.sock + 1), runner.sock)
  PROVE  DealerInv'
<1> DEFINE n == runner.sock + 1
           new == [NoSocket EXCEPT !.send = "running", !.recv = "running",
                                   !.up = TRUE]
           old == [sock[runner.sock] EXCEPT !.expires = TRUE]
<1>1. /\ MaxSockets \in Nat /\ runner.sock \in 0..MaxSockets /\ n \in 1..MaxSockets
      /\ sock \in [1..MaxSockets -> Socket]
  BY SocketsAssumption DEF DealerInv, Numbered
<1>2. new \in Socket /\ new.send = "running" /\ new.out = <<>>
  BY EmptyQueue DEF NoSocket, Socket, TaskStates
<1>3. ASSUME runner.sock # 0
      PROVE  /\ old \in Socket /\ old.send = sock[runner.sock].send
             /\ old.out = sock[runner.sock].out
  <2>1. sock[runner.sock] \in Socket
    BY <1>1, <1>3
  <2>2. QED
    BY <2>1 DEF Socket
<1>4. sock' = IF runner.sock = 0 THEN [sock EXCEPT ![n] = new]
              ELSE [[sock EXCEPT ![n] = new] EXCEPT ![runner.sock] = old]
  <2> DEFINE made == [sock EXCEPT ![n] = new]
  <2>1. NewSocket(n) = made
    BY DEF NewSocket
  <2>2. runner.sock # 0 => made[runner.sock] = sock[runner.sock]
    BY <1>1
  <2> HIDE DEF made
  <2>3. QED
    BY <2>1, <2>2 DEF Expire, made
<1>5. sock[n] = NoSocket
  BY <1>1 DEF DealerInv, Numbered
<1> HIDE DEF new, old
<1>6. /\ sock' \in [1..MaxSockets -> Socket] /\ sock'[n] = new
      /\ \A j \in 1..MaxSockets : j # n =>
           \/ sock'[j] = sock[j]
           \/ sock'[j].send = sock[j].send /\ sock'[j].out = sock[j].out
      /\ \A j \in 1..MaxSockets : j > n => sock'[j] = sock[j]
  <2>1. CASE runner.sock = 0
    BY <1>1, <1>2, <1>4, <2>1
  <2>2. CASE runner.sock # 0
    <3> DEFINE o == runner.sock
    <3>1. o \in 1..MaxSockets /\ o # n /\ n > o
      BY <1>1, <2>2
    <3>2. /\ sock'[n] = new /\ sock'[o] = old
          /\ sock' \in [1..MaxSockets -> Socket]
          /\ \A j \in 1..MaxSockets : j # n /\ j # o => sock'[j] = sock[j]
      BY <1>1, <1>2, <1>3, <1>4, <2>2, <3>1
    <3>3. QED
      BY <1>1, <1>3, <2>2, <3>1, <3>2
  <2>3. QED
    BY <2>1, <2>2
<1>7. Numbered'
  BY <1>1, <1>2, <1>6 DEF DealerInv, Numbered
<1>8. manager' \in Manager /\ runner'.sock >= runner.sock
  BY <1>1 DEF DealerInv
<1>9. QED
  BY <1>2, <1>5, <1>6, <1>7, <1>8, OtherRequestsKeep

LEMMA RunnerKeeps ==
  ASSUME DealerInv, TaskEnds \/ GetUrl \/ Connect \/ JoinTasks
  PROVE  DealerInv'
<1>1. UNCHANGED <<req, manager>>
  BY DEF TaskEnds, GetUrl, Connect, JoinTasks
<1>2. CASE /\ UNCHANGED sock /\ runner'.sock = runner.sock /\ runner'.st # "none"
           /\ DOMAIN runner' = DOMAIN runner
  <2>1. Numbered' /\ sock' \in [1..MaxSockets -> Socket] /\ manager' \in Manager
        /\ runner'.sock >= runner.sock
    BY <1>1, <1>2 DEF DealerInv, Numbered
  <2>2. QED
    BY <1>1, <1>2, <2>1, OtherRequestsKeep
<1>3. CASE TaskEnds \/ JoinTasks
  <2>1. /\ runner'.sock = runner.sock /\ DOMAIN runner' = DOMAIN runner
        /\ runner'.st # "none"
    BY <1>3 DEF TaskEnds, JoinTasks, DealerInv, Numbered
  <2>2. QED
    BY <1>2, <1>3, <2>1 DEF TaskEnds, JoinTasks
<1>4. CASE GetUrl
  <2>0. /\ runner'.sock = runner.sock /\ DOMAIN runner' = DOMAIN runner
        /\ runner'.st # "none"
    BY <1>4 DEF GetUrl, DealerInv, Numbered
  <2>1. CASE UNCHANGED sock
    BY <1>2, <2>0, <2>1
  <2>2. CASE sock' = Expire(sock, runner.sock) /\ runner.sock = 0
    BY <1>2, <2>0, <2>2 DEF Expire
  <2>3. CASE sock' = Expire(sock, runner.sock) /\ runner.sock # 0
    <3> DEFINE i == runner.sock
               s == [sock[i] EXCEPT !.expires = TRUE]
    <3>1. i \in 1..MaxSockets /\ sock[i] \in Socket /\ sock[i].send # "none"
      <4>1. i \in 0..MaxSockets /\ i # 0 /\ MaxSockets \in Nat
        BY <2>3, SocketsAssumption DEF DealerInv, Numbered
      <4>2. i \in 1..MaxSockets /\ i <= runner.sock
        BY <4>1
      <4>3. QED
        BY <4>2 DEF DealerInv, Numbered
    <3>2. s \in Socket /\ s.send = sock[i].send /\ s.out = sock[i].out
      BY <3>1 DEF Socket
    <3>3. sock' = [sock EXCEPT ![i] = s] /\ sock[i] # NoSocket
      BY <2>3, <3>1, RunningIsMade DEF Expire
    <3> HIDE DEF s
    <3>4. QED
      BY <1>1, <2>0, <3>1, <3>2, <3>3, SocketKeeps
  <2>4. QED
    BY <1>4, <2>1, <2>2, <2>3 DEF GetUrl
<1>5. CASE Connect
  <2>1. CASE UNCHANGED sock /\ runner' = [runner EXCEPT !.st = "loop"]
    BY <1>2, <1>5, <2>1 DEF Connect, DealerInv, Numbered
  <2>2. CASE /\ runner.sock < MaxSockets
             /\ runner' = [st |-> "loop", sock |-> runner.sock + 1,
                           tasks |-> {"send", "recv"}]
             /\ sock' = Expire(NewSocket(runner.sock + 1), runner.sock)
    BY <1>1, <2>2, NewConnection
  <2>3. QED
    BY <1>5, <2>1, <2>2 DEF Connect
<1>6. QED
  BY <1>3, <1>4, <1>5

LEMMA LaunchKeeps ==
  ASSUME DealerInv, Launch
  PROVE  DealerInv'
<1>1. CASE /\ runner' = [st |-> "loop", sock |-> 1, tasks |-> {"send", "recv"}]
           /\ sock' = NewSocket(1) /\ UNCHANGED manager
  <2>1. runner.sock = 0 /\ runner.sock < MaxSockets /\ UNCHANGED req
    BY SocketsAssumption DEF Launch, DealerInv, Numbered
  <2>2. sock' = Expire(NewSocket(runner.sock + 1), runner.sock)
    BY <1>1, <2>1 DEF Expire
  <2>3. QED
    BY <1>1, <2>1, <2>2, NewConnection
<1>2. CASE /\ manager' = [manager EXCEPT !.dealer = "none"]
           /\ UNCHANGED <<runner, sock>>
  <2>1. manager' \in Manager /\ manager'.handlers = manager.handlers
    BY <1>2 DEF DealerInv, Manager
  <2>2. QED
    BY <1>2, <2>1, ManagerKeeps DEF Launch
<1>3. QED
  BY <1>1, <1>2 DEF Launch

\* A request that is answered or refused.
LEMMA AnswerKeeps ==
  ASSUME DealerInv, NEW k \in Keys, NEW i \in 1..runner.sock, NEW b \in BOOLEAN,
         req[k].st # "answered", UNCHANGED <<manager, runner>>,
         sock' = SendInternal(sock, i, Reply(k, b)),
         req' = [req EXCEPT ![k] = [@ EXCEPT !.st = "answered", !.sock = i]]
  PROVE  DealerInv'
<1>1. /\ req' \in [Keys -> Request] /\ sock' \in [1..MaxSockets -> Socket]
      /\ \A j \in 1..MaxSockets : j > runner.sock => sock'[j] = sock[j]
      /\ \A j \in 1..MaxSockets : sock'[j].send = sock[j].send
      /\ \A j \in Keys : Once(j)'
  BY OnceAnswered
<1>2. AnsweredOnce'
  BY <1>1 DEF AnsweredOnce, Once, Queued, In, Single
<1>3. Numbered'
  BY <1>1, SocketsAssumption DEF DealerInv, Numbered
<1>4. AskedBy'
  <2> SUFFICES ASSUME NEW j \in Keys, req'[j].st \in {"handled", "answered"}
               PROVE  req'[j].sock \in 1..runner.sock
    BY DEF AskedBy
  <2>1. req[k] \in Request /\ req \in [Keys -> Request]
    BY DEF DealerInv
  <2>2. j = k => req'[j].sock = i
    BY <2>1 DEF Request
  <2>3. j # k => req'[j] = req[j]
    BY <2>1
  <2>4. QED
    BY <2>2, <2>3 DEF DealerInv, AskedBy
<1>5. QED
  BY <1>1, <1>2, <1>3, <1>4 DEF DealerInv, PrefixFree

\* A request that is not answered by the step.
LEMMA UnansweredKeeps ==
  ASSUME DealerInv, NEW k \in Keys, NEW r \in Request,
         req' = [req EXCEPT ![k] = r], req[k].st # "answered",
         r.st # "answered", r.fed = req[k].fed,
         r.st = "handled" => r.sock \in 1..runner.sock,
         UNCHANGED <<manager, runner, sock>>
  PROVE  DealerInv'
<1>1. /\ req' \in [Keys -> Request] /\ req'[k] = r
      /\ \A j \in Keys : j # k => req'[j] = req[j]
  BY DEF DealerInv
<1>2. Once(k)'
  <2>1. Once(k)
    BY OnceEach DEF DealerInv
  <2>2. QED
    BY <1>1, <2>1 DEF Once
<1>3. ASSUME NEW j \in Keys, j # k PROVE Once(j)'
  BY <1>1, <1>3, OnceKept
<1>4. AnsweredOnce'
  BY <1>2, <1>3 DEF AnsweredOnce, Once, Queued, In, Single
<1>5. AskedBy' /\ Numbered'
  BY <1>1 DEF DealerInv, AskedBy, Numbered
<1>6. QED
  BY <1>1, <1>4, <1>5 DEF DealerInv, PrefixFree

LEMMA Dispatch ==
  ASSUME DealerInv, NEW i \in 1..MaxSockets, NEW p \in Paths, NEW k \in Keys,
         DispatchRequest(i, k, p)
  PROVE  DealerInv'
<1>1. req[k].st = "none" /\ UNCHANGED <<manager, runner>> /\ req[k] \in Request
  BY DEF DispatchRequest, DealerInv
<1>2. i \in 1..runner.sock /\ i \in 0..MaxSockets
  <2>1. sock[i] # NoSocket
    BY RunningIsMade DEF DispatchRequest, Receiving
  <2>2. QED
    BY <2>1, SocketsAssumption DEF DealerInv, Numbered
<1>3. CASE Refuse(k, i)
  BY <1>1, <1>2, <1>3, AnswerKeeps DEF Refuse, DropResponder
<1>4. CASE req' = [req EXCEPT ![k].st = "malformed"] /\ UNCHANGED sock
  <2> DEFINE r == [req[k] EXCEPT !.st = "malformed"]
  <2>1. r \in Request /\ r.st = "malformed" /\ r.fed = req[k].fed
    BY <1>1 DEF Request
  <2>2. req' = [req EXCEPT ![k] = r]
    BY <1>4
  <2> HIDE DEF r
  <2>3. QED
    BY <1>1, <1>4, <2>1, <2>2, UnansweredKeeps
<1>5. ASSUME NEW h \in Get(manager.handlers, p), UNCHANGED sock,
             req' = [req EXCEPT ![k] = [@ EXCEPT !.st = "handled",
                                                 !.sock = i, !.by = h.by]]
      PROVE  DealerInv'
  <2> DEFINE r == [req[k] EXCEPT !.st = "handled", !.sock = i, !.by = h.by]
  <2>1. h.by \in Clients
    BY <1>5 DEF Get, DealerInv, Manager
  <2>2. r \in Request /\ r.st = "handled" /\ r.fed = req[k].fed /\ r.sock = i
    BY <1>1, <1>2, <2>1 DEF Request
  <2>3. req' = [req EXCEPT ![k] = r]
    BY <1>5
  <2> HIDE DEF r
  <2>4. QED
    BY <1>1, <1>2, <1>5, <2>2, <2>3, UnansweredKeeps
<1>6. QED
  BY <1>3, <1>4, <1>5 DEF DispatchRequest

LEMMA RespondKeeps ==
  ASSUME DealerInv, NEW k \in Keys, req[k].st = "handled",
         NEW reply \in {"Success", "Failure", "Unanswered"}, Respond(k, reply),
         UNCHANGED <<manager, runner>>
  PROVE  DealerInv'
<1>1. req[k] \in Request /\ req[k].sock \in 1..runner.sock
  BY DEF DealerInv, AskedBy
<1>2. CASE reply = "Unanswered"
  <2> DEFINE r == [req[k] EXCEPT !.st = "unanswered"]
  <2>1. r \in Request /\ r.st = "unanswered" /\ r.fed = req[k].fed
    BY <1>1 DEF Request
  <2>2. req' = [req EXCEPT ![k] = r] /\ UNCHANGED sock
    BY <1>2 DEF Respond, DropResponder
  <2> HIDE DEF r
  <2>3. QED
    BY <2>1, <2>2, UnansweredKeeps
<1>3. CASE reply # "Unanswered"
  <2> DEFINE i == req[k].sock
  <2>1. (reply = "Success") \in BOOLEAN
    OBVIOUS
  <2>2. sock' = SendInternal(sock, i, Reply(k, reply = "Success"))
    BY <1>3 DEF Respond, DropResponder
  <2>3. [req[k] EXCEPT !.st = "answered", !.sock = i]
          = [req[k] EXCEPT !.st = "answered"]
    BY <1>1 DEF Request
  <2>4. req' = [req EXCEPT ![k] = [@ EXCEPT !.st = "answered", !.sock = i]]
    BY <1>3, <2>3 DEF Respond
  <2>5. QED
    BY <1>1, <2>1, <2>2, <2>4, AnswerKeeps
<1>4. QED
  BY <1>2, <1>3

LEMMA SendTaskKeeps ==
  ASSUME DealerInv, NEW i \in 1..MaxSockets, SendTask(i)
  PROVE  DealerInv'
<1>1. sock[i].send = "running" /\ UNCHANGED <<manager, runner>>
  BY DEF SendTask
<1>2. CASE sock' = SendEnds(sock, i) /\ UNCHANGED req
  BY <1>1, <1>2, SendEndsKeeps
<1>3. CASE sock[i].out # <<>> /\ Feed(i, Head(sock[i].out))
  <2>1. /\ req' \in [Keys -> Request] /\ sock' \in [1..MaxSockets -> Socket]
        /\ \A j \in Keys : req'[j].st = req[j].st /\ req'[j].sock = req[j].sock
        /\ \A j \in 1..MaxSockets : j # i => sock'[j] = sock[j]
        /\ \A j \in 1..MaxSockets : sock'[j].send = sock[j].send
        /\ \A j \in Keys : Once(j)'
    BY <1>3, OnceFed
  <2>2. AnsweredOnce'
    BY <2>1 DEF AnsweredOnce, Once, Queued, In, Single
  <2>3. i <= runner.sock
    BY <1>1, RunningIsMade DEF DealerInv, Numbered
  <2>4. Numbered' /\ AskedBy'
    BY <1>1, <2>1, <2>3 DEF DealerInv, Numbered, AskedBy
  <2>5. QED
    BY <1>1, <2>1, <2>2, <2>4 DEF DealerInv, PrefixFree
<1>4. QED
  BY <1>2, <1>3 DEF SendTask

LEMMA DealerStep == DealerInv /\ [DealerNext]_dealerVars => DealerInv'
<1> SUFFICES ASSUME DealerInv, [DealerNext]_dealerVars PROVE DealerInv'
  OBVIOUS
<1> manager \in Manager
  BY DEF DealerInv
<1>1. ASSUME NEW c \in Clients, NEW p \in Paths, AddHandleFor(c, p)
      PROVE  DealerInv'
  <2>1. UNCHANGED <<req, sock, runner>>
    BY <1>1 DEF AddHandleFor
  <2>2. AnsweredOnce' /\ Numbered' /\ AskedBy'
    BY <2>1 DEF DealerInv, AnsweredOnce, Queued, Numbered, AskedBy
  <2>3. QED
    BY <1>1, <2>1, <2>2, AddHandler DEF DealerInv
<1>2. ASSUME NEW c \in Clients, NEW p \in Paths, AddListenFor(c, p)
      PROVE  DealerInv'
  <2>1. manager' \in Manager /\ manager'.handlers = manager.handlers
    BY <1>2 DEF AddListenFor, Manager
  <2>2. QED
    BY <1>2, <2>1, ManagerKeeps DEF AddListenFor
<1>3. ASSUME NEW c \in Clients, ReceiverDropped(c) PROVE DealerInv'
  BY <1>3, ManagerKeeps DEF ReceiverDropped
<1>4. CASE Start \/ SetDealer \/ Close
  <2>1. CASE Start
    BY <2>1, ManagerKeeps DEF Start, Manager
  <2>2. CASE SetDealer
    BY <2>2, ManagerKeeps DEF SetDealer, Manager
  <2>3. CASE Close
    BY <2>3, ManagerKeeps DEF Close, Manager
  <2>4. QED
    BY <1>4, <2>1, <2>2, <2>3
<1>5. ASSUME NEW i \in 1..MaxSockets, NEW p \in Paths, DispatchMessage(i, p)
      PROVE  DealerInv'
  <2>1. manager' \in Manager /\ manager'.handlers = manager.handlers
    BY <1>5 DEF DispatchMessage, Manager
  <2>2. QED
    BY <1>5, <2>1, ManagerKeeps DEF DispatchMessage
<1>6. ASSUME NEW k \in Keys, ClientReplies(k) PROVE DealerInv'
  <2>1. req[k].st = "handled" /\ UNCHANGED <<manager, runner>>
    BY <1>6 DEF ClientReplies
  <2>2. PICK reply \in {"Success", "Failure", "Unanswered"} : Respond(k, reply)
    BY <1>6 DEF ClientReplies
  <2>3. QED
    BY <2>1, <2>2, RespondKeeps
<1>7. CASE UNCHANGED dealerVars
  BY <1>7, ManagerKeeps DEF dealerVars
<1>8. QED
  BY <1>1, <1>2, <1>3, <1>4, <1>5, <1>6, <1>7, LaunchKeeps, Dispatch,
     ConnectionKeeps, SendTaskKeeps, RunnerKeeps
  DEF DealerNext

\* The inductive invariant holds of the dealer.
THEOREM DealerInvariant == DealerSpec => []DealerInv
<1>1. DealerInit => DealerInv
  <2> SUFFICES ASSUME DealerInit PROVE DealerInv
    OBVIOUS
  <2> DEFINE r == [st |-> "none", sock |-> 0, by |-> "none", fed |-> <<>>]
  <2>1. r \in Request /\ r.st = "none" /\ r.fed = <<>>
    BY SocketsAssumption DEF Request
  <2>2. req = [k \in Keys |-> r]
    BY DEF DealerInit
  <2>3. manager \in Manager /\ manager.handlers = {}
    BY DEF DealerInit, Manager
  <2>4. NoSocket \in Socket /\ NoSocket.out = <<>>
    BY DEF NoSocket, Socket, TaskStates
  <2>5. /\ sock = [i \in 1..MaxSockets |-> NoSocket] /\ runner.sock = 0
        /\ DOMAIN runner = {"st", "sock", "tasks"}
    BY DEF DealerInit
  <2> HIDE DEF r
  <2>6. AnsweredOnce
    <3>1. \A k \in Keys : \A i \in 1..MaxSockets : In(sock[i].out, k) = {}
      BY <2>4, <2>5, EmptyQueue
    <3>2. \A k \in Keys : Once(k)
      BY <2>1, <2>2, <3>1 DEF Once
    <3>3. QED
      BY <3>2, OnceEach
  <2>7. Numbered /\ AskedBy
    BY <2>1, <2>2, <2>5, SocketsAssumption DEF Numbered, AskedBy
  <2>8. QED
    BY <2>1, <2>2, <2>3, <2>4, <2>5, <2>6, <2>7 DEF DealerInv, PrefixFree
<1>2. QED
  BY <1>1, DealerStep, PTL DEF DealerSpec

\* Responder: a request is answered once, whoever holds its responder, drops
\* it or has gone, and only over the connection that asked; an answer that
\* was not given to it went down with its sending task.
THEOREM RequestsAreAnsweredOnce == DealerSpec => []AnsweredOnce
<1>1. DealerInv => AnsweredOnce
  BY DEF DealerInv
<1>2. QED
  BY <1>1, DealerInvariant, PTL

\* A path begins with itself.
LEMMA CoversItself ==
  ASSUME NEW p \in Paths
  PROVE  Covers(p, p) /\ Len(p) <= Len(p)
<1>1. p \in Seq(STRING)
  BY PathsAssumption
<1>2. Len(p) \in Nat
  BY <1>1
<1>3. QED
  BY <1>2 DEF Covers, IsPrefix

\* HandlerMap: a handler that was accepted is the one that is found for its
\* uri, whatever was added before and after it.
THEOREM AcceptedHandlersAreFound == DealerSpec => []HandlerFound
<1>1. DealerInv => HandlerFound
  <2> SUFFICES ASSUME DealerInv, NEW h \in manager.handlers
               PROVE  Get(manager.handlers, h.path) = {h}
    BY DEF HandlerFound
  <2> DEFINE on == {g \in manager.handlers : Covers(g.path, h.path)}
  <2>1. Covers(h.path, h.path) /\ Len(h.path) <= Len(h.path)
    BY CoversItself DEF DealerInv, Manager
  <2>2. on = {h}
    BY <2>1 DEF DealerInv, PrefixFree
  <2>3. Get(manager.handlers, h.path)
          = {g \in on : \A f \in on : Len(g.path) <= Len(f.path)}
    BY DEF Get
  <2>4. QED
    BY <2>1, <2>2, <2>3
<1>2. QED
  BY <1>1, DealerInvariant, PTL

-----------------------------------------------------------------------------
(* The access point resolver and those who use it, for any number of       *)
(* callers and whatever the service answers                                *)

Caller ==
  [at : {"idle", "resolve", "apresolve", "pop", "unavailable", "memoize",
         "point", "auth", "client token", "token request", "login", "send",
         "none"},
   wants : Endpoints \cup {"none"}, tries : Nat, logins : Nat, count : Nat,
   back : {"none", "login", "send"}, taken : BOOLEAN]

\* A caller that is about to take an address finds one, unless another came
\* first or the configured port leaves none.
WellPlaced(r) ==
  /\ r \in Caller
  /\ r.at # "idle" => r.wants \in Endpoints
  /\ r.at = "pop" => \/ r.taken
                     \/ Fallback = 0
                     \/ ap[r.wants] > 0
  /\ r.at = "unavailable" => Fallback = 0 \/ r.taken

\* The inductive invariant.
SpInv ==
  /\ ap \in [Endpoints -> Nat]
  /\ caller \in [Callers -> Caller]
  /\ \A c \in Callers : WellPlaced(caller[c])

-----------------------------------------------------------------------------
(* The lists of addresses                                                  *)

\* What is left of a list is a number of addresses.
LEMMA ListType ==
  ASSUME NEW ports \in Seq(Nat)
  PROVE  ProcessApStrings(ports) \in Nat
<1> DEFINE kept == {i \in DOMAIN ports : port = 0 \/ ports[i] = port}
<1>1. Len(ports) \in Int /\ 1 \in Int /\ DOMAIN ports = 1..Len(ports)
  OBVIOUS
<1>2. IsFiniteSet(1..Len(ports))
  BY <1>1, FS_Interval
<1>3. kept \in SUBSET (1..Len(ports))
  BY <1>1
<1>4. IsFiniteSet(kept)
  BY <1>2, <1>3, FS_Subset
<1>5. Cardinality(kept) \in Nat
  BY <1>4, FS_CardinalityType
<1>6. QED
  BY <1>5 DEF ProcessApStrings

LEMMA FallbackType == Fallback \in Nat
<1>1. <<443>> \in Seq(Nat)
  OBVIOUS
<1>2. QED
  BY <1>1, ListType DEF Fallback

\* Whatever the service answers, no endpoint is left without an address that
\* the fallback could have given it.
LEMMA Resolved ==
  ASSUME NEW data \in Resolvable \cup {NoAnswer}
  PROVE  /\ AccessPoints(data) \in [Endpoints -> Nat]
         /\ \A e \in Endpoints : Fallback = 0 \/ AccessPoints(data)[e] > 0
<1> DEFINE d == ParseResolve(data)
<1>1. data \in [Endpoints -> Seq(Nat)]
  <2>1. CASE data \in Resolvable
    BY <2>1, ResolvableAssumption DEF Endpoints
  <2>2. CASE data = NoAnswer
    <3>1. <<>> \in Seq(Nat)
      OBVIOUS
    <3>2. QED
      BY <2>2, <3>1 DEF NoAnswer
  <2>3. QED
    BY <2>1, <2>2
<1>2. d \in [Endpoints -> Nat]
  BY <1>1, ListType DEF ParseResolve
<1> HIDE DEF d
<1>3. AccessPoints(data) =
        IF AnyEmpty(d) THEN [e \in Endpoints |-> d[e] + Fallback] ELSE d
  BY DEF AccessPoints, d
<1>4. QED
  BY <1>2, <1>3, FallbackType DEF AnyEmpty

-----------------------------------------------------------------------------
(* The steps                                                               *)

\* A caller that moves by itself.
LEMMA OneCallerMoves ==
  ASSUME SpInv, NEW c \in Callers, NEW r, WellPlaced(r),
         caller' = [caller EXCEPT ![c] = r], UNCHANGED <<ap, port>>
  PROVE  SpInv'
<1>1. Fallback' = Fallback
  BY DEF Fallback, ProcessApStrings
<1>2. caller' \in [Callers -> Caller] /\ ap' \in [Endpoints -> Nat]
  BY DEF SpInv, WellPlaced
<1>3. ASSUME NEW d \in Callers PROVE WellPlaced(caller[d])'
  <2>1. WellPlaced(caller'[d])
    BY DEF SpInv
  <2>2. QED
    BY <1>1, <2>1 DEF WellPlaced
<1>4. QED
  BY <1>2, <1>3 DEF SpInv

\* Where the steps of the request loop, the tokens and the login lead.
LEMMA Places ==
  ASSUME NEW r \in Caller, r.at # "idle", r.wants \in Endpoints
  PROVE  /\ WellPlaced(Idle)
         /\ \A pc \in {"point", "auth", "resolve", "client token", "login",
                       "token request", "send", "memoize", "done", "failed"} :
              WellPlaced(GoTo(r, pc))
         /\ WellPlaced(HasToken(r))
         /\ WellPlaced(Back(r))
         /\ WellPlaced(TokenFails(r))
<1>1. WellPlaced(Idle)
  BY DEF WellPlaced, Idle, Caller
<1>2. ASSUME NEW pc \in {"point", "auth", "resolve", "client token", "login",
                         "token request", "send", "memoize", "done", "failed"}
      PROVE  WellPlaced(GoTo(r, pc))
  <2>1. CASE pc \in {"done", "failed"}
    BY <1>1, <2>1 DEF GoTo
  <2>2. CASE pc \notin {"done", "failed"}
    <3>1. GoTo(r, pc) = [r EXCEPT !.at = pc]
      BY <2>2 DEF GoTo
    <3>2. QED
      BY <2>2, <3>1 DEF WellPlaced, Caller
  <2>3. QED
    BY <2>1, <2>2
<1>3. WellPlaced(HasToken(r))
  <2>1. WellPlaced([r EXCEPT !.at = "client token", !.back = "send",
                             !.logins = 0])
    BY DEF WellPlaced, Caller
  <2>2. QED
    BY <1>1, <2>1 DEF HasToken
<1>4. WellPlaced(Back(r))
  BY DEF WellPlaced, Caller, Back
<1>5. QED
  BY <1>1, <1>2, <1>3, <1>4 DEF TokenFails

\* The counters of the loops.
LEMMA Counted ==
  ASSUME NEW r \in Caller, NEW n \in Nat, r.wants \in Endpoints
  PROVE  /\ r.at = "token request" => WellPlaced([r EXCEPT !.count = n])
         /\ WellPlaced([r EXCEPT !.logins = n, !.at = "client token",
                                 !.back = "login"])
         /\ WellPlaced([[r EXCEPT !.at = "point"] EXCEPT !.tries = n])
<1>1. ASSUME r.at = "token request" PROVE WellPlaced([r EXCEPT !.count = n])
  BY <1>1 DEF WellPlaced, Caller
<1>2. WellPlaced([r EXCEPT !.logins = n, !.at = "client token",
                           !.back = "login"])
  BY DEF WellPlaced, Caller
<1>3. WellPlaced([[r EXCEPT !.at = "point"] EXCEPT !.tries = n])
  BY DEF WellPlaced, Caller
<1>4. QED
  BY <1>1, <1>2, <1>3

LEMMA CallKeeps ==
  ASSUME SpInv, NEW c \in Callers, Call(c)
  PROVE  SpInv'
<1>1. PICK e \in Wants[c] :
        caller' = [caller EXCEPT ![c] = [Idle EXCEPT !.wants = e, !.tries = 1,
                     !.at = IF e = "spclient" THEN "point" ELSE "resolve"]]
  BY DEF Call
<1>2. e \in Endpoints
  BY <1>1, WantsAssumption DEF Endpoints
<1>3. WellPlaced([Idle EXCEPT !.wants = e, !.tries = 1,
                    !.at = IF e = "spclient" THEN "point" ELSE "resolve"])
  BY <1>2 DEF WellPlaced, Idle, Caller
<1>4. QED
  BY <1>1, <1>3, OneCallerMoves DEF Call

\* Resolve: where no list is empty, there is an address to take.
LEMMA ResolveKeeps ==
  ASSUME SpInv, NEW c \in Callers, Resolve(c)
  PROVE  SpInv'
<1> DEFINE r == [caller[c] EXCEPT !.taken = FALSE,
                   !.at = IF AnyEmpty(ap) THEN "apresolve" ELSE "pop"]
<1>1. caller[c] \in Caller /\ caller[c].wants \in Endpoints
  BY DEF SpInv, WellPlaced, Resolve
<1>2. r \in Caller /\ r.wants = caller[c].wants
      /\ r.at = IF AnyEmpty(ap) THEN "apresolve" ELSE "pop"
  BY <1>1 DEF Caller
<1>3. caller' = [caller EXCEPT ![c] = r]
  BY DEF Resolve
<1> HIDE DEF r
<1>4. ~AnyEmpty(ap) => ap[r.wants] > 0
  BY <1>1, <1>2 DEF SpInv, AnyEmpty
<1>5. WellPlaced(r)
  BY <1>1, <1>2, <1>4 DEF WellPlaced
<1>6. QED
  BY <1>3, <1>5, OneCallerMoves DEF Resolve

\* ApResolve: the list is replaced for everyone who is about to take from it.
LEMMA ApResolveKeeps ==
  ASSUME SpInv, NEW c \in Callers, ApResolve(c)
  PROVE  SpInv'
<1> DEFINE r == [caller[c] EXCEPT !.at = "pop", !.taken = FALSE]
<1>1. Fallback' = Fallback
  BY DEF ApResolve, Fallback, ProcessApStrings
<1>2. /\ ap' \in [Endpoints -> Nat]
      /\ \A e \in Endpoints : Fallback = 0 \/ ap'[e] > 0
  BY Resolved DEF ApResolve
<1>3. caller[c] \in Caller /\ caller[c].wants \in Endpoints
  BY DEF SpInv, WellPlaced, ApResolve
<1>4. r \in Caller /\ r.at = "pop" /\ r.wants = caller[c].wants
  BY <1>3 DEF Caller
<1>5. caller' = [caller EXCEPT ![c] = r]
  BY DEF ApResolve
<1> HIDE DEF r
<1>6. caller' \in [Callers -> Caller]
  BY <1>4, <1>5 DEF SpInv
<1>7. ASSUME NEW d \in Callers PROVE WellPlaced(caller[d])'
  <2>1. CASE d = c
    BY <1>1, <1>2, <1>3, <1>4, <1>5, <2>1 DEF WellPlaced, SpInv
  <2>2. CASE d # c
    <3>1. caller'[d] = caller[d] /\ WellPlaced(caller[d])
      BY <1>5, <2>2 DEF SpInv
    <3>2. QED
      BY <1>1, <1>2, <3>1 DEF WellPlaced
  <2>3. QED
    BY <2>1, <2>2
<1>8. QED
  BY <1>2, <1>6, <1>7 DEF SpInv

\* Pop: whoever wants the same endpoint is marked, and others keep theirs.
LEMMA PopKeeps ==
  ASSUME SpInv, NEW c \in Callers, Pop(c)
  PROVE  SpInv'
<1> DEFINE e == caller[c].wants
           empty == ap[e] = 0
           next == IF empty THEN "unavailable"
                   ELSE CASE e = "accesspoint" -> "done"
                          [] e = "dealer" -> "auth"
                          [] OTHER -> "memoize"
<1>1. /\ caller[c].at = "pop"
      /\ ap' = IF empty THEN ap ELSE [ap EXCEPT ![e] = @ - 1]
      /\ caller' = [d \in Callers |->
           CASE d = c -> GoTo(caller[d], next)
             [] d # c /\ caller[d].wants = e /\ caller[d].at = "pop" ->
                  [caller[d] EXCEPT !.taken = TRUE]
             [] OTHER -> caller[d]]
  BY DEF Pop
<1>2. /\ WellPlaced(caller[c]) /\ caller[c] \in Caller /\ e \in Endpoints
      /\ ap \in [Endpoints -> Nat]
  BY <1>1 DEF SpInv, WellPlaced
<1>3. Fallback' = Fallback
  BY DEF Pop, Fallback, ProcessApStrings
<1>4. /\ ap' \in [Endpoints -> Nat]
      /\ \A f \in Endpoints : f # e => ap'[f] = ap[f]
  BY <1>1, <1>2
<1>5. WellPlaced(caller[c])' /\ caller'[c] \in Caller
  <2>1. caller'[c] = GoTo(caller[c], next)
    BY <1>1
  <2>2. CASE empty
    <3>1. Fallback = 0 \/ caller[c].taken
      BY <1>1, <1>2, <2>2 DEF WellPlaced
    <3>2. caller'[c] = [caller[c] EXCEPT !.at = "unavailable"]
      <4>1. next = "unavailable"
        BY <2>2
      <4> HIDE DEF next
      <4>2. QED
        BY <2>1, <4>1 DEF GoTo
    <3>3. /\ caller'[c] \in Caller /\ caller'[c].at = "unavailable"
          /\ caller'[c].wants = e /\ caller'[c].taken = caller[c].taken
      BY <1>2, <3>2 DEF Caller
    <3>4. QED
      BY <1>2, <1>3, <3>1, <3>3 DEF WellPlaced
  <2>3. CASE ~empty
    <3>1. next \in {"done", "auth", "memoize"}
      BY <1>2, <2>3 DEF Endpoints
    <3> HIDE DEF next
    <3>2. WellPlaced(caller'[c])
      BY <1>1, <1>2, <2>1, <3>1, Places
    <3>3. caller'[c].at # "pop"
      <4>1. CASE next = "done"
        BY <2>1, <4>1 DEF GoTo, Idle
      <4>2. CASE next # "done"
        <5>1. caller'[c] = [caller[c] EXCEPT !.at = next]
          BY <2>1, <3>1, <4>2 DEF GoTo
        <5>2. caller'[c].at = next
          BY <1>2, <5>1 DEF Caller
        <5>3. QED
          BY <3>1, <5>2
      <4>3. QED
        BY <4>1, <4>2
    <3>4. QED
      BY <1>3, <3>2, <3>3 DEF WellPlaced
  <2>4. QED
    BY <2>2, <2>3
<1>6. ASSUME NEW d \in Callers, d # c
      PROVE  WellPlaced(caller[d])' /\ caller'[d] \in Caller
  <2>1. WellPlaced(caller[d]) /\ caller[d] \in Caller
    BY DEF SpInv, WellPlaced
  <2>2. CASE caller[d].wants = e /\ caller[d].at = "pop"
    <3>1. caller'[d] = [caller[d] EXCEPT !.taken = TRUE]
      BY <1>1, <1>6, <2>2
    <3>2. /\ caller'[d] \in Caller /\ caller'[d].at = "pop"
          /\ caller'[d].wants = e /\ caller'[d].taken
      BY <2>1, <2>2, <3>1 DEF Caller
    <3>3. QED
      BY <1>2, <3>2 DEF WellPlaced
  <2>3. CASE ~(caller[d].wants = e /\ caller[d].at = "pop")
    <3>1. caller'[d] = caller[d]
      BY <1>1, <1>6, <2>3
    <3>2. QED
      BY <1>3, <1>4, <2>1, <2>3, <3>1 DEF WellPlaced
  <2>4. QED
    BY <2>2, <2>3
<1>7. DOMAIN caller' = Callers /\ caller' = [d \in Callers |-> caller'[d]]
  BY <1>1
<1>8. QED
  BY <1>4, <1>5, <1>6, <1>7 DEF SpInv

\* The request loop, the tokens and the login leave the lists alone.
LEMMA OtherCallersKeep ==
  ASSUME SpInv, NEW c \in Callers,
         \/ GetPoint(c) \/ Memoize(c) \/ ClientToken(c) \/ TokenRequest(c)
         \/ AuthToken(c) \/ Login(c) \/ Limited(c) \/ Send(c)
  PROVE  SpInv'
<1> DEFINE r == caller[c]
<1>1. r \in Caller /\ WellPlaced(r) /\ UNCHANGED <<ap, port>>
  BY DEF SpInv, GetPoint, Memoize, ClientToken, TokenRequest, AuthToken, Login,
         Limited, Send, spVars
<1>2. r.at # "idle" /\ r.wants \in Endpoints
  <2>1. r.at \in {"point", "memoize", "client token", "token request", "auth",
                  "login", "send"}
    BY DEF GetPoint, Memoize, ClientToken, TokenRequest, AuthToken, Login,
           Limited, Send
  <2>2. QED
    BY <1>1, <2>1 DEF WellPlaced
<1>3. /\ WellPlaced(Idle) /\ WellPlaced(HasToken(r)) /\ WellPlaced(Back(r))
      /\ WellPlaced(TokenFails(r))
      /\ \A pc \in {"point", "auth", "resolve", "client token", "login",
                    "token request", "send", "memoize", "done", "failed"} :
           WellPlaced(GoTo(r, pc))
  BY <1>1, <1>2, Places
<1>4. r.count \in Nat /\ r.logins \in Nat /\ r.tries \in Nat
  BY <1>1 DEF Caller
<1>5. SUFFICES ASSUME ~Limited(c)
               PROVE  \E q : WellPlaced(q) /\ caller' = [caller EXCEPT ![c] = q]
  <2>1. CASE Limited(c)
    <3>1. caller' = [caller EXCEPT ![c] = r]
      BY <2>1 DEF Limited, spVars, SpInv
    <3>2. QED
      BY <1>1, <3>1, OneCallerMoves
  <2>2. CASE ~Limited(c)
    BY <1>1, <1>5, <2>2, OneCallerMoves
  <2>3. QED
    BY <2>1, <2>2
<1>6. CASE GetPoint(c) \/ Memoize(c)
  BY <1>3, <1>6 DEF GetPoint, Memoize, At
<1>7. CASE ClientToken(c)
  BY <1>3, <1>7 DEF ClientToken
<1>8. CASE TokenRequest(c)
  <2> DEFINE again == [r EXCEPT !.count = @ + 1]
  <2>1. r.at = "token request"
    BY <1>8 DEF TokenRequest
  <2>2. WellPlaced(again)
    <3>1. r.count + 1 \in Nat
      BY <1>4
    <3>2. QED
      BY <1>1, <1>2, <2>1, <3>1, Counted
  <2>3. \/ caller' = [caller EXCEPT ![c] = Back(r)]
        \/ caller' = [caller EXCEPT ![c] = again]
        \/ caller' = [caller EXCEPT ![c] = TokenFails(r)]
    BY <1>8 DEF TokenRequest
  <2>4. QED
    BY <1>3, <2>2, <2>3
<1>9. CASE AuthToken(c)
  <2> DEFINE q == [r EXCEPT !.at = "client token", !.back = "login"]
  <2>1. WellPlaced(q)
    BY <1>1, <1>2 DEF WellPlaced, Caller
  <2>2. \/ caller' = [caller EXCEPT ![c] = HasToken(r)]
        \/ caller' = [caller EXCEPT ![c] = q]
    BY <1>9 DEF AuthToken
  <2>3. QED
    BY <1>3, <2>1, <2>2
<1>10. CASE Login(c)
  <2> DEFINE q == [r EXCEPT !.logins = @ + 1, !.at = "client token",
                            !.back = "login"]
  <2>1. WellPlaced(q)
    <3>1. r.logins + 1 \in Nat
      BY <1>4
    <3>2. QED
      BY <1>1, <1>2, <3>1, Counted
  <2> DEFINE retry == IF r.logins + 1 = MaxLoginTries THEN Idle ELSE q
  <2>2. \/ caller' = [caller EXCEPT ![c] = HasToken(r)]
        \/ caller' = [caller EXCEPT ![c] = retry]
        \/ caller' = [caller EXCEPT ![c] = GoTo(r, "failed")]
    BY <1>10 DEF Login, At
  <2>3. WellPlaced(retry)
    BY <1>3, <2>1
  <2> HIDE DEF retry
  <2>4. QED
    BY <1>3, <2>2, <2>3
<1>11. CASE Send(c)
  <2> DEFINE q == [GoTo(r, "point") EXCEPT !.tries = @ + 1]
  <2>1. WellPlaced(q)
    <3>1. GoTo(r, "point") = [r EXCEPT !.at = "point"]
      BY DEF GoTo
    <3>2. GoTo(r, "point").tries = r.tries
      BY <1>1, <3>1 DEF Caller
    <3>3. r.tries + 1 \in Nat
      BY <1>4
    <3>4. QED
      BY <1>1, <1>2, <3>1, <3>2, <3>3, Counted
  <2>2. \/ caller' = [caller EXCEPT ![c] = q]
        \/ caller' = [caller EXCEPT ![c] = Idle]
    BY <1>11 DEF Send
  <2>3. QED
    BY <1>3, <2>1, <2>2
<1>12. QED
  BY <1>5, <1>6, <1>7, <1>8, <1>9, <1>10, <1>11

LEMMA SpStep == SpInv /\ [SpNext]_spVars => SpInv'
<1> SUFFICES ASSUME SpInv, [SpNext]_spVars PROVE SpInv'
  OBVIOUS
<1>1. CASE TokensExpire \/ UNCHANGED spVars
  <2>1. UNCHANGED <<ap, caller, port>>
    BY <1>1 DEF TokensExpire, spVars
  <2>2. QED
    BY <2>1 DEF SpInv, WellPlaced, Fallback, ProcessApStrings
<1>2. QED
  BY <1>1, CallKeeps, ResolveKeeps, ApResolveKeeps, PopKeeps, OtherCallersKeep
  DEF SpNext

\* The inductive invariant holds of the resolver and its callers.
THEOREM SpInvariant == SpSpec => []SpInv
<1>1. SpInit => SpInv
  <2> SUFFICES ASSUME SpInit PROVE SpInv
    OBVIOUS
  <2>1. WellPlaced(Idle) /\ Idle \in Caller
    BY DEF WellPlaced, Idle, Caller
  <2>2. QED
    BY <2>1 DEF SpInit, SpInv
<1>2. QED
  BY <1>1, SpStep, PTL DEF SpSpec

\* ApResolver::resolve: whatever the service answers and however many callers
\* meet, one goes without an address only when another took it or when the
\* configured port rules out the fallback.
THEOREM ResolveSucceeds == SpSpec => []ResolveFailsOnlyByRace
<1>1. SpInv => ResolveFailsOnlyByRace
  BY DEF SpInv, WellPlaced, ResolveFailsOnlyByRace
<1>2. QED
  BY <1>1, SpInvariant, PTL

-----------------------------------------------------------------------------
(* The main loop, for any number of logins, reconnects and Spircs          *)

ASpirc == [session : Nat, runs : BOOLEAN, told : BOOLEAN]

\* What the steps take for granted of main's locals.
Locals ==
  /\ DOMAIN loop = {"at", "setup", "user", "connecting", "session", "spirc",
                    "task", "made", "times"}
  /\ DOMAIN player = {"session", "plays", "gone"}
  /\ spircs \in [1..MaxSpircs -> ASpirc]
  /\ loop.session \in Nat
  /\ loop.made \in 0..MaxSpircs
  /\ loop.spirc \in 0..MaxSpircs
  /\ loop.task \in 0..MaxSpircs

\* The loop connects only when it holds no task, and the handle that it holds
\* is the task's: what a login tells to stop is what it gives up.
Held ==
  /\ loop.at \in {"discovery", "credentials"} => loop.task = None
  /\ loop.connecting => loop.task = None
  /\ loop.at = "creating" => loop.connecting /\ loop.made < MaxSpircs
  /\ loop.task # None => loop.spirc = loop.task

\* The player changes its session before the Spirc is made, the control API
\* with it.
Sessions ==
  /\ loop.at \in {"select", "creating"} => player.session = loop.session
  /\ loop.task # None =>
       /\ served = [spirc |-> loop.task, session |-> loop.session]
       /\ spircs[loop.task].session = loop.session

\* A Spirc that goes on by itself has been told to stop and has no session,
\* whatever the loop is doing.
GivenUp ==
  \A i \in 1..MaxSpircs : spircs[i].runs /\ i # loop.task =>
    spircs[i].told /\ spircs[i].session \in dead

\* The inductive invariant.
MainInv == Locals /\ Held /\ Sessions /\ GivenUp

-----------------------------------------------------------------------------
(* The steps                                                               *)

\* A step of which the loop notices nothing, or only where it is.
LEMMA ElsewhereKeeps ==
  ASSUME MainInv, UNCHANGED <<spircs, served>>, dead \subseteq dead',
         \/ loop' = loop \/ loop' = Exit(loop)
         \/ loop.at = "discovery" /\ loop' = [loop EXCEPT !.at = "credentials"],
         DOMAIN player' = {"session", "plays", "gone"}, player'.session = player.session
  PROVE  MainInv'
<1>1. /\ Locals'
      /\ UNCHANGED <<loop.session, loop.made, loop.spirc, loop.task,
                     loop.connecting>>
      /\ loop'.at \in {"select", "creating"} => loop'.at = loop.at
      /\ loop'.at = "creating" => loop.at = "creating"
      /\ loop'.at \in {"discovery", "credentials"} =>
           loop.at \in {"discovery", "credentials"}
  BY DEF MainInv, Locals, Exit
<1>2. Held'
  BY <1>1 DEF MainInv, Held
<1>3. Sessions'
  BY <1>1 DEF MainInv, Sessions
<1>4. GivenUp'
  BY <1>1 DEF MainInv, GivenUp
<1>5. QED
  BY <1>1, <1>2, <1>3, <1>4 DEF MainInv

\* What TellSpirc does to the Spircs.
LEMMA Telling ==
  ASSUME Locals, spircs' = TellSpirc(spircs, loop.spirc)
  PROVE  /\ spircs' \in [1..MaxSpircs -> ASpirc]
         /\ \A i \in 1..MaxSpircs :
              /\ spircs'[i].session = spircs[i].session
              /\ spircs'[i].runs = spircs[i].runs
              /\ spircs[i].told => spircs'[i].told
         /\ loop.spirc # None => spircs'[loop.spirc].told
<1>1. CASE loop.spirc = None
  BY <1>1 DEF Locals, TellSpirc
<1>2. CASE loop.spirc # None
  <2>1. loop.spirc \in 1..MaxSpircs
    BY <1>2, SpircsAssumption DEF Locals, None
  <2>2. spircs' = [spircs EXCEPT ![loop.spirc].told = TRUE]
    BY <1>2 DEF TellSpirc
  <2> DEFINE told == [spircs[loop.spirc] EXCEPT !.told = TRUE]
  <2>3. spircs[loop.spirc] \in ASpirc
    BY <2>1 DEF Locals
  <2>4. /\ told \in ASpirc /\ told.told
        /\ told.session = spircs[loop.spirc].session
        /\ told.runs = spircs[loop.spirc].runs
    BY <2>3 DEF ASpirc
  <2>5. spircs' = [spircs EXCEPT ![loop.spirc] = told]
    BY <2>2
  <2> HIDE DEF told
  <2>6. QED
    BY <2>1, <2>4, <2>5 DEF Locals
<1>3. QED
  BY <1>1, <1>2

\* Credentials: the Spirc that is given up is told, and its session dies.
LEMMA CredentialsKeep ==
  ASSUME MainInv, Credentials
  PROVE  MainInv'
<1>1. CASE Head(disc.events) = "error"
  BY <1>1, ElsewhereKeeps DEF Credentials, MainInv, Locals
<1>2. CASE Head(disc.events) # "error"
  <2>1. /\ spircs' = TellSpirc(spircs, loop.spirc)
        /\ loop.at = "select"
        /\ dead' = dead \cup {loop.session}
        /\ UNCHANGED <<player, served>>
    BY <1>2 DEF Credentials, Waiting
  <2>2. /\ DOMAIN loop' = DOMAIN loop
        /\ UNCHANGED <<loop.session, loop.made, loop.at>>
        /\ loop'.spirc = None /\ loop'.task = None
    BY <1>2 DEF Credentials, MainInv, Locals
  <2>3. Locals'
    BY <2>1, <2>2, Telling, SpircsAssumption DEF MainInv, Locals, None
  <2>4. Held' /\ Sessions'
    BY <2>1, <2>2 DEF MainInv, Held, Sessions
  <2>5. GivenUp'
    <3> SUFFICES ASSUME NEW i \in 1..MaxSpircs, spircs'[i].runs
                 PROVE  spircs'[i].told /\ spircs'[i].session \in dead'
      BY DEF GivenUp
    <3>1. spircs[i].runs /\ spircs'[i].session = spircs[i].session
      BY <2>1, Telling DEF MainInv
    <3>2. CASE i = loop.task
      <4>1. loop.spirc = i /\ loop.spirc # None
        BY <3>2, SpircsAssumption DEF MainInv, Held, None
      <4>2. spircs[i].session = loop.session
        BY <3>2, <4>1 DEF MainInv, Sessions, Held
      <4>3. QED
        BY <2>1, <3>1, <4>1, <4>2, Telling DEF MainInv
    <3>3. CASE i # loop.task
      BY <2>1, <3>1, <3>3, Telling DEF MainInv, GivenUp
    <3>4. QED
      BY <3>2, <3>3
  <2>6. QED
    BY <2>3, <2>4, <2>5 DEF MainInv
<1>3. QED
  BY <1>1, <1>2

\* SpircNew: the Spirc that is made is the only one that has not been told.
LEMMA SpircNewKeeps ==
  ASSUME MainInv, SpircNew
  PROVE  MainInv'
<1>1. CASE loop' = Exit(loop) /\ UNCHANGED <<spircs, served>>
  BY <1>1, ElsewhereKeeps DEF SpircNew, MainInv, Locals
<1>2. CASE ~(loop' = Exit(loop) /\ UNCHANGED <<spircs, served>>)
  <2> DEFINE i == loop.made + 1
             new == [NoSpirc EXCEPT !.session = loop.session, !.runs = TRUE]
  <2>1. /\ spircs' = [spircs EXCEPT ![i] = new]
        /\ served' = [spirc |-> i, session |-> loop.session]
        /\ loop' = [loop EXCEPT !.at = "select", !.spirc = i, !.task = i,
                                !.made = i, !.connecting = FALSE]
        /\ loop.at = "creating"
        /\ UNCHANGED <<dead, player>>
    BY <1>2 DEF SpircNew
  <2>2. i \in 1..MaxSpircs /\ i # None /\ loop.task = None
    BY <2>1, SpircsAssumption DEF MainInv, Locals, Held, None
  <2>3. new \in ASpirc /\ new.session = loop.session
    BY DEF MainInv, Locals, ASpirc, NoSpirc, None
  <2>4. /\ DOMAIN loop' = DOMAIN loop
        /\ loop'.session = loop.session /\ loop'.at = "select"
        /\ loop'.made = i /\ loop'.spirc = i /\ loop'.task = i
        /\ ~loop'.connecting
    BY <2>1 DEF MainInv, Locals
  <2> HIDE DEF new, i
  <2>5. Locals'
    BY <2>1, <2>2, <2>3, <2>4, SpircsAssumption DEF MainInv, Locals
  <2>6. Held'
    BY <2>4 DEF Held
  <2>7. Sessions'
    BY <2>1, <2>2, <2>3, <2>4 DEF MainInv, Sessions, Locals
  <2>8. GivenUp'
    BY <2>1, <2>2, <2>4, SpircsAssumption DEF MainInv, GivenUp, Locals, None
  <2>9. QED
    BY <2>5, <2>6, <2>7, <2>8 DEF MainInv
<1>3. QED
  BY <1>1, <1>2

\* SpircEnded: the task is no longer held, and no longer runs.
LEMMA SpircEndedKeeps ==
  ASSUME MainInv, SpircEnded
  PROVE  MainInv'
<1> DEFINE i == loop.task
<1>1. i \in 1..MaxSpircs /\ loop.at = "select"
  BY SpircsAssumption DEF SpircEnded, MainInv, Locals, None, Waiting
<1>2. /\ spircs' = [spircs EXCEPT ![i].runs = FALSE]
      /\ dead \subseteq dead'
      /\ UNCHANGED <<player, served>>
  BY DEF SpircEnded
<1>3. /\ spircs' \in [1..MaxSpircs -> ASpirc]
      /\ ~spircs'[i].runs /\ spircs'[i].session = spircs[i].session
      /\ \A j \in 1..MaxSpircs : j # i => spircs'[j] = spircs[j]
  BY <1>1, <1>2 DEF MainInv, Locals, ASpirc
<1>4. /\ DOMAIN loop' = DOMAIN loop
      /\ UNCHANGED <<loop.session, loop.made, loop.spirc>>
      /\ \/ loop'.at = "exited" /\ UNCHANGED <<loop.task, loop.connecting>>
         \/ loop'.at = "select" /\ loop'.task = None
  BY <1>1 DEF SpircEnded, Exit, MainInv, Locals
<1>5. Locals'
  BY <1>2, <1>3, <1>4, SpircsAssumption DEF MainInv, Locals, None
<1>6. Held'
  BY <1>4 DEF MainInv, Held
<1>7. Sessions'
  BY <1>1, <1>2, <1>3, <1>4 DEF MainInv, Sessions
<1>8. GivenUp'
  BY <1>1, <1>2, <1>3, <1>4 DEF MainInv, GivenUp
<1>9. QED
  BY <1>5, <1>6, <1>7, <1>8 DEF MainInv

\* Connecting, Begin and CtrlC move the loop, with the player's session.
LEMMA MovesKeep ==
  ASSUME MainInv, Connecting \/ Begin \/ CtrlC
  PROVE  MainInv'
<1>1. CASE Connecting
  <2>1. /\ UNCHANGED <<spircs, dead, served>>
        /\ loop.at = "select" /\ loop.connecting /\ loop.task = None
        /\ loop.made < MaxSpircs
    BY <1>1 DEF Connecting, Waiting, MainInv, Held
  <2>2. /\ DOMAIN loop' = DOMAIN loop /\ DOMAIN player' = DOMAIN player
        /\ UNCHANGED <<loop.made, loop.spirc, loop.task, loop.connecting>>
        /\ loop'.session \in Nat /\ player'.session = loop'.session
        /\ loop'.at = "creating"
    <3> DEFINE n == IF loop.session \in dead THEN loop.session + 1
                    ELSE loop.session
    <3>1. n \in Nat
      BY DEF MainInv, Locals
    <3>2. /\ loop' = [loop EXCEPT !.session = n, !.at = "creating"]
          /\ player' = [player EXCEPT !.session = loop'.session]
      BY <1>1 DEF Connecting, Renew
    <3> HIDE DEF n
    <3>3. QED
      BY <3>1, <3>2 DEF MainInv, Locals
  <2>3. Locals'
    BY <2>1, <2>2 DEF MainInv, Locals
  <2>4. Held'
    BY <2>1, <2>2 DEF Held
  <2>5. Sessions' /\ GivenUp'
    BY <2>1, <2>2 DEF MainInv, Sessions, GivenUp
  <2>6. QED
    BY <2>3, <2>4, <2>5 DEF MainInv
<1>2. CASE Begin
  <2>1. CASE loop' = Exit(loop) /\ UNCHANGED player
    BY <1>2, <2>1, ElsewhereKeeps DEF Begin, MainInv, Locals
  <2>2. CASE ~(loop' = Exit(loop) /\ UNCHANGED player)
    <3>1. UNCHANGED <<spircs, dead, served>> /\ loop.task = None
      BY <1>2 DEF Begin, MainInv, Held
    <3>2. /\ DOMAIN loop' = DOMAIN loop /\ DOMAIN player' = DOMAIN player
          /\ UNCHANGED <<loop.session, loop.made, loop.spirc, loop.task>>
          /\ loop'.at = "select" /\ player'.session = loop.session
      BY <1>2, <2>2 DEF Begin, MainInv, Locals
    <3>3. Locals'
      BY <3>1, <3>2 DEF MainInv, Locals
    <3>4. Held' /\ Sessions' /\ GivenUp'
      BY <3>1, <3>2 DEF MainInv, Held, Sessions, GivenUp
    <3>5. QED
      BY <3>3, <3>4 DEF MainInv
  <2>3. QED
    BY <2>1, <2>2
<1>3. CASE CtrlC
  <2>1. /\ UNCHANGED <<dead, player, served>>
        /\ spircs' = TellSpirc(spircs, loop.spirc)
    BY <1>3 DEF CtrlC
  <2>2. /\ DOMAIN loop' = DOMAIN loop /\ loop'.at = "stopping"
        /\ UNCHANGED <<loop.session, loop.made, loop.spirc, loop.task,
                       loop.connecting>>
    BY <1>3 DEF CtrlC, MainInv, Locals
  <2>3. Locals'
    BY <2>1, <2>2, Telling DEF MainInv, Locals
  <2>4. Held'
    BY <2>2 DEF MainInv, Held
  <2>5. Sessions'
    <3>1. loop.task # None => loop.task \in 1..MaxSpircs
      BY SpircsAssumption DEF MainInv, Locals, None
    <3>2. QED
      BY <2>1, <2>2, <3>1, Telling DEF MainInv, Sessions
  <2>6. GivenUp'
    BY <2>1, <2>2, Telling DEF MainInv, GivenUp
  <2>7. QED
    BY <2>3, <2>4, <2>5, <2>6 DEF MainInv
<1>4. QED
  BY <1>1, <1>2, <1>3

LEMMA OtherEndsKeep ==
  ASSUME MainInv, NEW i \in 1..MaxSpircs, OtherSpircEnds(i)
  PROVE  MainInv'
<1>1. /\ spircs' = [spircs EXCEPT ![i].runs = FALSE]
      /\ UNCHANGED <<loop, dead, served>>
      /\ DOMAIN player' = {"session", "plays", "gone"}
      /\ player'.session = player.session
  BY DEF OtherSpircEnds, MainInv, Locals
<1>2. /\ spircs' \in [1..MaxSpircs -> ASpirc]
      /\ \A j \in 1..MaxSpircs :
           /\ spircs'[j].session = spircs[j].session
           /\ spircs'[j].told = spircs[j].told
           /\ spircs'[j].runs => spircs[j].runs
  BY <1>1 DEF MainInv, Locals, ASpirc
<1>3. Locals' /\ Held'
  BY <1>1, <1>2 DEF MainInv, Locals, Held
<1>4. Sessions'
  <2>1. loop.task # None => loop.task \in 1..MaxSpircs
    BY SpircsAssumption DEF MainInv, Locals, None
  <2>2. QED
    BY <1>1, <1>2, <2>1 DEF MainInv, Sessions
<1>5. GivenUp'
  BY <1>1, <1>2 DEF MainInv, GivenUp
<1>6. QED
  BY <1>3, <1>4, <1>5 DEF MainInv

LEMMA MainStep == MainInv /\ [MainNext]_mainVars => MainInv'
<1> SUFFICES ASSUME MainInv, [MainNext]_mainVars PROVE MainInv'
  OBVIOUS
<1> DOMAIN player = {"session", "plays", "gone"}
  BY DEF MainInv, Locals
<1>1. CASE LaunchDiscovery
  BY <1>1, ElsewhereKeeps DEF LaunchDiscovery
<1>2. CASE Zeroconf
  BY <1>2, ElsewhereKeeps DEF Zeroconf
<1>3. CASE PlayerGone \/ Stopped
  BY <1>3, ElsewhereKeeps DEF PlayerGone, Stopped
<1>4. CASE SessionDies
  BY <1>4, ElsewhereKeeps DEF SessionDies
<1>5. CASE PlayerDies
  BY <1>5, ElsewhereKeeps DEF PlayerDies
<1>6. CASE SpircPlays
  BY <1>6, ElsewhereKeeps DEF SpircPlays
<1>7. CASE Later
  BY <1>7, ElsewhereKeeps DEF Later
<1>8. ASSUME NEW u \in Users, AddUser(u) PROVE MainInv'
  BY <1>8, ElsewhereKeeps DEF AddUser
<1>9. CASE UNCHANGED mainVars
  BY <1>9, ElsewhereKeeps DEF mainVars
<1>10. QED
  BY <1>1, <1>2, <1>3, <1>4, <1>5, <1>6, <1>7, <1>8, <1>9, CredentialsKeep,
     SpircNewKeeps, SpircEndedKeeps, MovesKeep, OtherEndsKeep
  DEF MainNext

\* The inductive invariant holds of the main loop.
THEOREM MainInvariant == MainSpec => []MainInv
<1>1. MainInit => MainInv
  <2> SUFFICES ASSUME MainInit PROVE MainInv
    OBVIOUS
  <2>1. NoSpirc \in ASpirc /\ ~NoSpirc.runs
    BY DEF NoSpirc, ASpirc, None
  <2>2. PICK s \in Setups :
          loop = [at |-> "discovery", setup |-> s, user |-> "none",
                  connecting |-> FALSE, session |-> 1, spirc |-> None,
                  task |-> None, made |-> 0, times |-> <<>>]
    BY DEF MainInit
  <2>3. spircs = [i \in 1..MaxSpircs |-> NoSpirc] /\ DOMAIN player = {"session", "plays", "gone"}
    BY DEF MainInit
  <2>4. Locals
    BY <2>1, <2>2, <2>3, SpircsAssumption DEF Locals, None
  <2>5. Held /\ Sessions /\ GivenUp
    BY <2>1, <2>2, <2>3 DEF Held, Sessions, GivenUp
  <2>6. QED
    BY <2>4, <2>5 DEF MainInv
<1>2. QED
  BY <1>1, MainStep, PTL DEF MainSpec

\* main: however logins, failures, reconnects and Ctrl+C follow each other,
\* the loop's Spirc, the player and the control API share the loop's session,
\* and no other Spirc goes on with one.
THEOREM OneSpircAtATime == MainSpec => []OneSpircServes
<1>1. MainInv => OneSpircServes
  BY DEF MainInv, Sessions, GivenUp, OneSpircServes, Waiting
<1>2. QED
  BY <1>1, MainInvariant, PTL

-----------------------------------------------------------------------------
(* The cache, for all files, sizes, limits and threads                     *)

-----------------------------------------------------------------------------
(* Sums over the files                                                     *)

Each == SetToSeq(Files)

\* The files in a row, each once.
LEMMA EachFile ==
  /\ Len(Each) \in Nat /\ Each \in [1..Len(Each) -> Files]
  /\ \A x \in Files : \E k \in 1..Len(Each) : Each[k] = x
  /\ \A i, j \in 1..Len(Each) : Each[i] = Each[j] => i = j
<1> DEFINE N == Cardinality(Files)
<1>1. N \in Nat /\ ExistsBijection(1..N, Files)
  BY FS_CardinalityType, CacheAssumption
<1>2. \E f \in [1..N -> Files] : IsInjective(f)
  BY <1>1 DEF ExistsBijection, Bijection, Injection
<1>3. Each \in [1..N -> Files] /\ IsInjective(Each)
  BY <1>2 DEF Each, SetToSeq
<1>4. Len(Each) = N
  <2>1. DOMAIN Each = 1..N
    BY <1>3
  <2>2. Each \in Seq(Files)
    BY <1>1, <1>3
  <2>3. QED
    BY <1>1, <2>1, <2>2
<1>5. Each \in Injection(1..N, Files)
  BY <1>3 DEF Injection
<1>6. Cardinality(1..N) = N
  BY <1>1, FS_Interval
<1>7. Each \in Surjection(1..N, Files)
  BY <1>5, <1>6, FS_Injection, CacheAssumption
<1>8. QED
  BY <1>1, <1>3, <1>4, <1>7 DEF IsInjective, Surjection

\* What a map of files to sizes is.
Sizes == UNION {[D -> Nat] : D \in SUBSET Files}

LEMMA OldType ==
  ASSUME NEW f \in Sizes, NEW x
  PROVE  Old(f, x) \in Nat
BY DEF Old, Sizes

\* The partial sums.
Sums(f, r) ==
  /\ r \in [0..Len(Each) -> Nat]
  /\ r[0] = 0
  /\ \A n \in 1..Len(Each) : r[n] = r[n - 1] + Old(f, Each[n])

LEMMA TotalIs ==
  ASSUME NEW f \in Sizes
  PROVE  \E r : Sums(f, r) /\ Total(f) = r[Len(Each)]
<1> DEFINE N == Len(Each)
           step == [n \in 1..N |-> [x \in Nat |-> x + Old(f, Each[n])]]
           Is(r) == r = [n \in 0..N |-> IF n = 0 THEN 0
                                        ELSE r[n - 1] + Old(f, Each[n])]
           c == CHOOSE r : Is(r)
<1>1. N \in Nat
  BY EachFile
<1>2. step \in [1..N -> [Nat -> Nat]]
  BY OldType
<1>3. PICK r \in [0..N -> Nat] : Rounds(r, 0, step, N)
  <2> HIDE DEF step
  <2>1. QED
    BY <1>1, <1>2, RoundsExist
<1>4. \A n \in 0..N : r[n] = IF n = 0 THEN 0 ELSE r[n - 1] + Old(f, Each[n])
  <2>1. \A n \in 0..N : r[n] = IF n = 0 THEN 0 ELSE step[n][r[n - 1]]
    BY <1>3 DEF Rounds
  <2>2. ASSUME NEW n \in 0..N, n # 0
        PROVE  step[n][r[n - 1]] = r[n - 1] + Old(f, Each[n])
    <3>1. n \in 1..N /\ n - 1 \in 0..N
      BY <1>1, <2>2
    <3>2. r[n - 1] \in Nat
      BY <3>1
    <3>3. QED
      BY <3>1, <3>2
  <2> HIDE DEF step
  <2>3. QED
    BY <2>1, <2>2
<1>5. Is(r)
  BY <1>3, <1>4
<1>6. Is(c)
  BY <1>5
<1>7. Total(f) = c[N]
  BY DEF Total, Each
<1> HIDE DEF c
<1>8. \A n \in 0..N : c[n] = IF n = 0 THEN 0 ELSE c[n - 1] + Old(f, Each[n])
  BY <1>6
<1>9. c = [n \in 0..N |-> c[n]]
  BY <1>6
<1>10. c[0] = 0 /\ \A n \in 1..N : c[n] = c[n - 1] + Old(f, Each[n])
  BY <1>1, <1>8
<1>11. \A n \in 0..N : c[n] \in Nat
  <2> DEFINE P == {n \in 0..N : c[n] \in Nat}
  <2>1. 0 \in P
    BY <1>1, <1>10
  <2>2. ASSUME NEW n \in 1..N, n - 1 \in P PROVE n \in P
    BY <1>1, <1>10, <2>2, OldType
  <2>3. \A n \in 0..N : n \in P
    <3> HIDE DEF P
    <3>1. QED
      BY <1>1, <2>1, <2>2, EveryRound
  <2>4. QED
    BY <2>3
<1>12. Sums(f, c)
  BY <1>9, <1>10, <1>11 DEF Sums
<1>13. QED
  BY <1>7, <1>12

LEMMA TotalType ==
  ASSUME NEW f \in Sizes
  PROVE  Total(f) \in Nat
BY TotalIs, EachFile DEF Sums

\* No file, no bytes.
LEMMA TotalNone ==
  ASSUME NEW f \in Sizes, \A x \in Files : Old(f, x) = 0
  PROVE  Total(f) = 0
<1>1. PICK r : Sums(f, r) /\ Total(f) = r[Len(Each)]
  BY TotalIs
<1> DEFINE N == Len(Each)
           P == {n \in 0..N : r[n] = 0}
<1>2. N \in Nat /\ \A n \in 1..N : Each[n] \in Files
  BY EachFile
<1>3. 0 \in P
  BY <1>1, <1>2 DEF Sums
<1>4. ASSUME NEW n \in 1..N, n - 1 \in P PROVE n \in P
  BY <1>1, <1>2, <1>4 DEF Sums
<1>5. \A n \in 0..N : n \in P
  <2> HIDE DEF P
  <2>1. QED
    BY <1>2, <1>3, <1>4, EveryRound
<1>6. QED
  BY <1>1, <1>2, <1>5

\* A sum of no more than another's parts is no more.
LEMMA TotalMonotone ==
  ASSUME NEW f \in Sizes, NEW g \in Sizes,
         \A x \in Files : Old(f, x) <= Old(g, x)
  PROVE  Total(f) <= Total(g)
<1>1. PICK r : Sums(f, r) /\ Total(f) = r[Len(Each)]
  BY TotalIs
<1>2. PICK s : Sums(g, s) /\ Total(g) = s[Len(Each)]
  BY TotalIs
<1> DEFINE N == Len(Each)
           P == {n \in 0..N : r[n] <= s[n]}
<1>3. N \in Nat /\ \A n \in 1..N : Each[n] \in Files
  BY EachFile
<1>4. 0 \in P
  BY <1>1, <1>2, <1>3 DEF Sums
<1>5. ASSUME NEW n \in 1..N, n - 1 \in P PROVE n \in P
  <2>1. /\ r[n] = r[n - 1] + Old(f, Each[n])
        /\ s[n] = s[n - 1] + Old(g, Each[n])
        /\ r[n - 1] \in Nat /\ s[n - 1] \in Nat
    BY <1>1, <1>2, <1>3 DEF Sums
  <2>2. /\ Old(f, Each[n]) \in Nat /\ Old(g, Each[n]) \in Nat
        /\ Old(f, Each[n]) <= Old(g, Each[n])
    BY <1>3, OldType
  <2>3. QED
    BY <1>5, <2>1, <2>2
<1>6. \A n \in 0..N : n \in P
  <2> HIDE DEF P
  <2>1. QED
    BY <1>3, <1>4, <1>5, EveryRound
<1>7. QED
  BY <1>1, <1>2, <1>3, <1>6

\* What one file changes, the sum does.
LEMMA TotalChange ==
  ASSUME NEW f \in Sizes, NEW g \in Sizes, NEW x \in Files,
         \A y \in Files : y # x => Old(g, y) = Old(f, y)
  PROVE  Total(g) = Total(f) + Old(g, x) - Old(f, x)
<1>1. PICK r : Sums(f, r) /\ Total(f) = r[Len(Each)]
  BY TotalIs
<1>2. PICK s : Sums(g, s) /\ Total(g) = s[Len(Each)]
  BY TotalIs
<1> DEFINE N == Len(Each)
           d == Old(g, x) - Old(f, x)
<1>3. N \in Nat /\ \A n \in 1..N : Each[n] \in Files
  BY EachFile
<1>4. PICK k \in 1..N : Each[k] = x
  BY EachFile
<1>5. \A n \in 1..N : n # k => Each[n] # x
  BY <1>4, EachFile
<1>6. Old(f, x) \in Nat /\ Old(g, x) \in Nat
  BY OldType
<1>7. d \in Int
  BY <1>6
<1> DEFINE P == {n \in 0..N : s[n] = IF n < k THEN r[n] ELSE r[n] + d}
<1>8. 0 \in P
  BY <1>1, <1>2, <1>3 DEF Sums
<1>9. ASSUME NEW n \in 1..N, n - 1 \in P PROVE n \in P
  <2>1. /\ r[n] = r[n - 1] + Old(f, Each[n])
        /\ s[n] = s[n - 1] + Old(g, Each[n])
        /\ r[n - 1] \in Nat /\ s[n - 1] \in Nat
    BY <1>1, <1>2, <1>3 DEF Sums
  <2>2. CASE n = k
    BY <1>4, <1>6, <1>9, <2>1, <2>2
  <2>3. CASE n # k
    <3>1. Old(g, Each[n]) = Old(f, Each[n]) /\ Old(f, Each[n]) \in Nat
      BY <1>3, <1>5, <2>3, OldType
    <3> HIDE DEF d
    <3>2. QED
      BY <1>7, <1>9, <2>1, <2>3, <3>1
  <2>4. QED
    BY <2>2, <2>3
<1>10. \A n \in 0..N : n \in P
  <2> HIDE DEF P
  <2>1. QED
    BY <1>3, <1>8, <1>9, EveryRound
<1>11. s[N] = r[N] + d
  <2> HIDE DEF d
  <2>1. N \in P /\ ~(N < k)
    BY <1>3, <1>10
  <2>2. QED
    BY <2>1
<1>12. r[N] \in Nat
  BY <1>1, <1>3 DEF Sums
<1>13. QED
  BY <1>1, <1>2, <1>6, <1>11, <1>12

-----------------------------------------------------------------------------
(* The invariant                                                           *)

Saving == {"copying", "copied"}
Unlinking == {"unlink", "starting unlink"}
Pruning == {"prune", "starting"} \cup Unlinking

AThread ==
  [at : {"idle", "forget", "off"} \cup Saving \cup Pruning,
   file : Files \cup {"none"}, linked : BOOLEAN, size : Nat]

\* The limiter counts what it holds.
Limits(l) ==
  /\ DOMAIN l = {"queue", "sizes", "in_use"}
  /\ l.queue \in Sizes /\ l.sizes \in Sizes
  /\ DOMAIN l.queue = DOMAIN l.sizes
  /\ l.in_use = Total(l.sizes)

CacheTypes ==
  /\ disk \in Sizes /\ Limits(limiter)
  /\ thread \in [Threads -> AThread]
  /\ left \subseteq Files
  /\ time \in Nat

\* A thread's file is one while it does something with it; what it copied is
\* the whole file.
Busy ==
  \A t \in Threads :
    /\ thread[t].at \in {"forget"} \cup Saving \cup Unlinking
         => thread[t].file \in Files
    /\ thread[t].at = "copied" => thread[t].size = FileSize[thread[t].file]

Fits == \A f \in DOMAIN disk : disk[f] <= FileSize[f]

\* Every file on the disk is counted, or left behind, or somebody is about to
\* count it or to remove it; and what is counted is no less than what is there,
\* unless somebody is about to count it anew: a restart counts the beginning of
\* a file that is then saved again.
Claimed(f) ==
  \E t \in Threads : /\ thread[t].file = f
                     /\ thread[t].at \in Saving \cup Unlinking

Recounted(f) == \E t \in Threads : thread[t].file = f /\ thread[t].at = "copied"

Accounted ==
  \A f \in DOMAIN disk \ left :
    /\ f \notin DOMAIN limiter.sizes => Claimed(f)
    /\ f \in DOMAIN limiter.sizes /\ disk[f] > limiter.sizes[f] => Recounted(f)

\* Somebody prunes as long as there is too much.
Pruned == ExceedsLimit(limiter) => \E t \in Threads : thread[t].at \in Pruning

CacheInv == CacheTypes /\ Busy /\ Fits /\ Accounted /\ Pruned

\* A file more, or changed, and a file less.
LEMMA WithIs ==
  ASSUME NEW f \in Sizes, NEW x \in Files, NEW v \in Nat
  PROVE  /\ With(f, x, v) \in Sizes
         /\ DOMAIN With(f, x, v) = DOMAIN f \cup {x}
         /\ With(f, x, v)[x] = v
         /\ \A y \in DOMAIN f : y # x => With(f, x, v)[y] = f[y]
<1>1. PICK D \in SUBSET Files : f \in [D -> Nat]
  BY DEF Sizes
<1>2. With(f, x, v) \in [D \cup {x} -> Nat] /\ D \cup {x} \in SUBSET Files
  BY <1>1 DEF With
<1>3. With(f, x, v) \in Sizes
  BY <1>2 DEF Sizes
<1>4. QED
  BY <1>1, <1>3 DEF With

LEMMA WithoutIs ==
  ASSUME NEW f \in Sizes, NEW x
  PROVE  /\ Without(f, x) \in Sizes
         /\ DOMAIN Without(f, x) = DOMAIN f \ {x}
         /\ \A y \in DOMAIN f \ {x} : Without(f, x)[y] = f[y]
<1>1. PICK D \in SUBSET Files : f \in [D -> Nat]
  BY DEF Sizes
<1>2. /\ Without(f, x) \in [D \ {x} -> Nat] /\ D \ {x} \in SUBSET Files
      /\ \A y \in D \ {x} : Without(f, x)[y] = f[y]
  BY <1>1 DEF Without, Restrict
<1>3. Without(f, x) \in Sizes
  BY <1>2 DEF Sizes
<1>4. QED
  BY <1>1, <1>2, <1>3

LEMMA TotalWith ==
  ASSUME NEW f \in Sizes, NEW x \in Files, NEW v \in Nat
  PROVE  Total(With(f, x, v)) = Total(f) + v - Old(f, x)
<1> DEFINE g == With(f, x, v)
<1>1. g \in Sizes /\ DOMAIN g = DOMAIN f \cup {x} /\ g[x] = v
  BY WithIs
<1>2. \A y \in DOMAIN f : y # x => g[y] = f[y]
  BY WithIs
<1> HIDE DEF g
<1>3. Old(g, x) = v
  BY <1>1 DEF Old
<1>4. \A y \in Files : y # x => Old(g, y) = Old(f, y)
  BY <1>1, <1>2 DEF Old
<1>5. Total(g) = Total(f) + Old(g, x) - Old(f, x)
  BY <1>1, <1>4, TotalChange
<1>6. QED
  BY <1>3, <1>5 DEF g

LEMMA TotalWithout ==
  ASSUME NEW f \in Sizes, NEW x \in DOMAIN f
  PROVE  Total(Without(f, x)) = Total(f) - f[x]
<1> DEFINE g == Without(f, x)
<1>1. g \in Sizes /\ DOMAIN g = DOMAIN f \ {x} /\ x \in Files
  BY WithoutIs DEF Sizes
<1>2. \A y \in DOMAIN f \ {x} : g[y] = f[y]
  BY WithoutIs
<1> HIDE DEF g
<1>3. Old(g, x) = 0 /\ Old(f, x) = f[x]
  BY <1>1 DEF Old
<1>4. \A y \in Files : y # x => Old(g, y) = Old(f, y)
  BY <1>1, <1>2 DEF Old
<1>5. Total(g) = Total(f) + Old(g, x) - Old(f, x)
  BY <1>1, <1>4, TotalChange
<1>6. Total(f) \in Nat /\ f[x] \in Nat
  BY TotalType DEF Sizes
<1>7. QED
  BY <1>3, <1>5, <1>6 DEF g

(* What the limiter's operations make of it.                               *)

LEMMA AddIs ==
  ASSUME NEW l, Limits(l), NEW x \in Files, NEW v \in Nat, NEW at \in Nat
  PROVE  /\ Limits(LimiterAdd(l, x, v, at))
         /\ LimiterAdd(l, x, v, at).sizes = With(l.sizes, x, v)
<1>1. With(l.queue, x, at) \in Sizes /\ With(l.sizes, x, v) \in Sizes
  BY WithIs DEF Limits
<1>2. DOMAIN With(l.queue, x, at) = DOMAIN With(l.sizes, x, v)
  <2>1. DOMAIN With(l.queue, x, at) = DOMAIN l.queue \cup {x}
    BY WithIs DEF Limits
  <2>2. DOMAIN With(l.sizes, x, v) = DOMAIN l.sizes \cup {x}
    BY WithIs DEF Limits
  <2>3. QED
    BY <2>1, <2>2 DEF Limits
<1>3. l.in_use + v - Old(l.sizes, x) = Total(With(l.sizes, x, v))
  BY TotalWith DEF Limits
<1>4. QED
  BY <1>1, <1>2, <1>3 DEF Limits, LimiterAdd

LEMMA RemoveIs ==
  ASSUME NEW l, Limits(l), NEW x
  PROVE  /\ Limits(LimiterRemove(l, x))
         /\ LimiterRemove(l, x).in_use <= l.in_use
         /\ DOMAIN LimiterRemove(l, x).sizes = DOMAIN l.sizes \ {x}
         /\ \A y \in DOMAIN l.sizes \ {x} :
              LimiterRemove(l, x).sizes[y] = l.sizes[y]
<1>1. Total(l.sizes) \in Nat
  BY TotalType DEF Limits
<1>2. CASE x \notin DOMAIN l.queue
  BY <1>1, <1>2 DEF LimiterRemove, Limits
<1>3. CASE x \in DOMAIN l.queue
  <2> DEFINE m == LimiterRemove(l, x)
  <2>1. m = [queue |-> Without(l.queue, x), sizes |-> Without(l.sizes, x),
             in_use |-> l.in_use - l.sizes[x]]
    BY <1>3 DEF LimiterRemove
  <2>2. /\ Without(l.queue, x) \in Sizes /\ Without(l.sizes, x) \in Sizes
        /\ DOMAIN Without(l.queue, x) = DOMAIN l.queue \ {x}
        /\ DOMAIN Without(l.sizes, x) = DOMAIN l.sizes \ {x}
        /\ \A y \in DOMAIN l.sizes \ {x} : Without(l.sizes, x)[y] = l.sizes[y]
    BY WithoutIs DEF Limits
  <2>3. Total(Without(l.sizes, x)) = l.in_use - l.sizes[x]
    BY <1>3, TotalWithout DEF Limits
  <2>4. l.sizes[x] \in Nat
    BY <1>3 DEF Limits, Sizes
  <2> HIDE DEF m
  <2>5. Limits(m)
    BY <2>1, <2>2, <2>3 DEF Limits
  <2>6. m.in_use <= l.in_use
    BY <1>1, <2>1, <2>4 DEF Limits
  <2>7. QED
    BY <2>1, <2>2, <2>5, <2>6 DEF m
<1>4. QED
  BY <1>2, <1>3

LEMMA UpdateIs ==
  ASSUME NEW l, Limits(l), NEW x, NEW at \in Nat
  PROVE  /\ Limits(LimiterUpdate(l, x, at))
         /\ LimiterUpdate(l, x, at).sizes = l.sizes
         /\ LimiterUpdate(l, x, at).in_use = l.in_use
<1>1. CASE x \notin DOMAIN l.queue
  BY <1>1 DEF LimiterUpdate
<1>2. CASE x \in DOMAIN l.queue
  <2>1. LimiterUpdate(l, x, at) = [l EXCEPT !.queue = [@ EXCEPT ![x] = at]]
    BY <1>2 DEF LimiterUpdate
  <2>2. [l.queue EXCEPT ![x] = at] \in Sizes
    BY <1>2 DEF Limits, Sizes
  <2>3. QED
    BY <2>1, <2>2 DEF Limits
<1>3. QED
  BY <1>1, <1>2

-----------------------------------------------------------------------------
(* The steps                                                               *)

\* What the others are doing stays, when t takes a step.
OthersStay(t) ==
  /\ thread' \in [Threads -> AThread]
  /\ \A u \in Threads \ {t} : /\ thread'[u].at = thread[u].at
                              /\ thread'[u].file = thread[u].file
                              /\ thread'[u].size = thread[u].size

LEMMA OneThreadMoves ==
  ASSUME CacheTypes, NEW t \in Threads, NEW x \in AThread,
         thread' = [thread EXCEPT ![t] = x]
  PROVE  OthersStay(t) /\ thread'[t] = x
BY DEF CacheTypes, OthersStay

LEMMA OneThreadUnlinks ==
  ASSUME CacheTypes, NEW t \in Threads, NEW x \in AThread, NEW f,
         thread' = [Unlinked(thread, f) EXCEPT ![t] = x]
  PROVE  OthersStay(t) /\ thread'[t] = x
<1> DEFINE U == Unlinked(thread, f)
<1>1. U \in [Threads -> AThread]
  <2>1. \A u \in Threads : thread[u] \in AThread
    BY DEF CacheTypes
  <2>2. \A u \in Threads : [thread[u] EXCEPT !.linked = FALSE] \in AThread
    BY <2>1 DEF AThread
  <2>3. QED
    BY <2>1, <2>2 DEF Unlinked
<1>2. \A u \in Threads : /\ U[u].at = thread[u].at
                         /\ U[u].file = thread[u].file
                         /\ U[u].size = thread[u].size
  <2>1. \A u \in Threads : thread[u] \in AThread
    BY DEF CacheTypes
  <2>2. QED
    BY <2>1 DEF Unlinked, AThread
<1> HIDE DEF U
<1>3. thread' = [U EXCEPT ![t] = x]
  BY DEF U
<1>4. QED
  BY <1>1, <1>2, <1>3 DEF OthersStay

LEMMA RestIs ==
  /\ Rest \in AThread /\ Rest.at = "idle"
  /\ [Rest EXCEPT !.at = "prune"] \in AThread
  /\ [Rest EXCEPT !.at = "prune"].at = "prune"
  /\ [Rest EXCEPT !.at = "starting"] \in AThread
  /\ [Rest EXCEPT !.at = "starting"].at = "starting"
  /\ [Rest EXCEPT !.at = "off"] \in AThread
  /\ [Rest EXCEPT !.at = "off"].at = "off"
BY DEF Rest, AThread, Saving, Pruning, Unlinking

\* The others account for what they did.
LEMMA OtherAccounts ==
  ASSUME CacheInv, NEW t \in Threads, OthersStay(t),
         NEW g \in DOMAIN disk \ left,
         thread[t].file # g \/ thread[t].at \notin Saving \cup Unlinking
  PROVE  /\ g \notin DOMAIN limiter.sizes => Claimed(g)'
         /\ g \in DOMAIN limiter.sizes /\ disk[g] > limiter.sizes[g]
              => Recounted(g)'
<1>1. CASE g \notin DOMAIN limiter.sizes
  <2>1. PICK u \in Threads : /\ thread[u].file = g
                             /\ thread[u].at \in Saving \cup Unlinking
    BY <1>1 DEF CacheInv, Accounted, Claimed
  <2>2. u # t
    BY <2>1
  <2>3. QED
    BY <1>1, <2>1, <2>2 DEF OthersStay, Claimed
<1>2. CASE g \in DOMAIN limiter.sizes /\ disk[g] > limiter.sizes[g]
  <2>1. PICK u \in Threads : thread[u].file = g /\ thread[u].at = "copied"
    BY <1>2 DEF CacheInv, Accounted, Recounted
  <2>2. u # t
    BY <2>1 DEF Saving
  <2>3. QED
    BY <1>2, <2>1, <2>2 DEF OthersStay, Recounted
<1>3. QED
  BY <1>1, <1>2

\* The others go on pruning.
LEMMA OtherPrunes ==
  ASSUME CacheInv, NEW t \in Threads, OthersStay(t),
         thread[t].at \notin Pruning, limiter'.in_use = limiter.in_use
  PROVE  Pruned'
<1>1. CASE ExceedsLimit(limiter)
  <2>1. PICK u \in Threads : thread[u].at \in Pruning
    BY <1>1 DEF CacheInv, Pruned
  <2>2. u # t
    BY <2>1
  <2>3. QED
    BY <2>1, <2>2 DEF OthersStay, Pruned
<1>2. CASE ~ExceedsLimit(limiter)
  BY <1>2 DEF Pruned, ExceedsLimit
<1>3. QED
  BY <1>1, <1>2

LEMMA CreateKeeps ==
  ASSUME CacheInv, NEW t \in Threads, NEW f \in Files, Create(t, f)
  PROVE  CacheInv'
<1> DEFINE x == [at |-> "copying", file |-> f, linked |-> TRUE, size |-> 0]
<1>1. x \in AThread
  BY DEF AThread, Saving
<1>2. OthersStay(t) /\ thread'[t] = x
  BY <1>1, OneThreadMoves DEF Create, CacheInv
<1>3. /\ thread[t].at = "idle" /\ limiter' = limiter /\ left' = left
      /\ time' = time /\ disk' = With(disk, f, 0) /\ disk \in Sizes
  BY DEF Create, CacheInv, CacheTypes
<1>4. /\ disk' \in Sizes /\ DOMAIN disk' = DOMAIN disk \cup {f} /\ disk'[f] = 0
      /\ \A y \in DOMAIN disk : y # f => disk'[y] = disk[y]
  <2>1. 0 \in Nat
    OBVIOUS
  <2>2. QED
    BY <1>3, <2>1, WithIs
<1>5. CacheTypes'
  BY <1>2, <1>3, <1>4 DEF CacheInv, CacheTypes, OthersStay
<1>6. Busy'
  BY <1>2, <1>3 DEF CacheInv, Busy, OthersStay
<1>7. Fits'
  BY <1>4, CacheAssumption DEF CacheInv, Fits
<1>8. Accounted'
  <2> SUFFICES ASSUME NEW g \in DOMAIN disk' \ left'
               PROVE  /\ g \notin DOMAIN limiter.sizes => Claimed(g)'
                      /\ g \in DOMAIN limiter.sizes /\ disk'[g] > limiter.sizes[g]
                           => Recounted(g)'
    BY <1>3 DEF Accounted
  <2>1. CASE g = f
    <3>1. g \in DOMAIN limiter.sizes => limiter.sizes[g] \in Nat
      BY DEF CacheInv, CacheTypes, Limits, Sizes
    <3>2. Claimed(g)'
      BY <1>2, <2>1 DEF Claimed, Saving
    <3>3. QED
      BY <1>4, <2>1, <3>1, <3>2
  <2>2. CASE g # f
    <3>1. g \in DOMAIN disk \ left /\ disk'[g] = disk[g]
      BY <1>3, <1>4, <2>2
    <3>2. thread[t].at \notin Saving \cup Unlinking
      BY <1>3 DEF Saving, Unlinking
    <3>3. QED
      BY <1>2, <3>1, <3>2, OtherAccounts
  <2>3. QED
    BY <2>1, <2>2
<1>9. Pruned'
  BY <1>2, <1>3, OtherPrunes DEF Pruning, Unlinking
<1>10. QED
  BY <1>5, <1>6, <1>7, <1>8, <1>9 DEF CacheInv

LEMMA CopyKeeps ==
  ASSUME CacheInv, NEW t \in Threads, Copy(t)
  PROVE  CacheInv'
<1> DEFINE f == thread[t].file
           x == [thread[t] EXCEPT !.at = "copied", !.size = FileSize[f]]
<1>1. /\ thread[t].at = "copying" /\ limiter' = limiter /\ time' = time
      /\ thread[t] \in AThread /\ disk \in Sizes
  BY DEF Copy, CacheInv, CacheTypes
<1>2. f \in Files /\ FileSize[f] \in Nat
  BY <1>1, CacheAssumption DEF CacheInv, Busy, Saving
<1>3. CASE /\ disk' = IF thread[t].linked THEN With(disk, f, FileSize[f]) ELSE disk
           /\ thread' = [thread EXCEPT ![t].at = "copied",
                                       ![t].size = FileSize[f]]
           /\ left' = left
  <2>1. /\ x \in AThread /\ x.at = "copied" /\ x.file = f
        /\ x.size = FileSize[f]
    BY <1>1, <1>2 DEF AThread, Saving
  <2>2. thread' = [thread EXCEPT ![t] = x]
    BY <1>3 DEF CacheInv, CacheTypes
  <2> HIDE DEF x
  <2>3. OthersStay(t) /\ thread'[t] = x
    BY <2>1, <2>2, OneThreadMoves DEF CacheInv
  <2>4. /\ disk' \in Sizes
        /\ f \in DOMAIN disk' => disk'[f] <= FileSize[f]
        /\ \A y \in DOMAIN disk' : y # f => y \in DOMAIN disk /\ disk'[y] = disk[y]
    <3>1. CASE thread[t].linked
      <4>1. disk' = With(disk, f, FileSize[f])
        BY <1>3, <3>1
      <4>2. /\ With(disk, f, FileSize[f]) \in Sizes
            /\ DOMAIN With(disk, f, FileSize[f]) = DOMAIN disk \cup {f}
            /\ With(disk, f, FileSize[f])[f] = FileSize[f]
            /\ \A y \in DOMAIN disk :
                 y # f => With(disk, f, FileSize[f])[y] = disk[y]
        <5> DEFINE v == FileSize[f]
        <5>1. v \in Nat
          BY <1>2
        <5> HIDE DEF f, v
        <5>2. /\ With(disk, f, v) \in Sizes
              /\ DOMAIN With(disk, f, v) = DOMAIN disk \cup {f}
              /\ With(disk, f, v)[f] = v
              /\ \A y \in DOMAIN disk : y # f => With(disk, f, v)[y] = disk[y]
          BY <1>1, <1>2, <5>1, WithIs
        <5>3. QED
          BY <5>2 DEF v
      <4> HIDE DEF f
      <4>3. QED
        BY <1>2, <4>1, <4>2
    <3>2. CASE ~thread[t].linked
      BY <1>1, <1>3, <3>2 DEF CacheInv, Fits
    <3>3. QED
      BY <3>1, <3>2
  <2>5. CacheTypes'
    BY <1>1, <1>3, <2>3, <2>4 DEF CacheInv, CacheTypes, OthersStay
  <2>6. Busy'
    BY <1>2, <2>1, <2>3 DEF CacheInv, Busy, OthersStay
  <2>7. Fits'
    BY <2>4 DEF CacheInv, Fits
  <2>8. Accounted'
    <3> SUFFICES ASSUME NEW g \in DOMAIN disk' \ left'
                 PROVE  /\ g \notin DOMAIN limiter.sizes => Claimed(g)'
                        /\ g \in DOMAIN limiter.sizes /\ disk'[g] > limiter.sizes[g]
                             => Recounted(g)'
      BY <1>1 DEF Accounted
    <3>1. CASE g = f
      BY <2>1, <2>3, <3>1 DEF Claimed, Recounted, Saving
    <3>2. CASE g # f
      <4>1. g \in DOMAIN disk \ left /\ disk'[g] = disk[g]
        BY <1>3, <2>4, <3>2
      <4>2. QED
        BY <2>3, <3>2, <4>1, OtherAccounts
    <3>3. QED
      BY <3>1, <3>2
  <2>9. Pruned'
    BY <1>1, <2>3, OtherPrunes DEF Pruning, Unlinking
  <2>10. QED
    BY <2>5, <2>6, <2>7, <2>8, <2>9 DEF CacheInv
<1>4. CASE /\ left' = left \cup Uncounted(f)
           /\ thread' = [thread EXCEPT ![t] = Rest]
           /\ disk' = disk
  <2>1. OthersStay(t) /\ thread'[t] = Rest
    BY <1>4, OneThreadMoves, RestIs DEF CacheInv
  <2>2. Uncounted(f) = ({f} \cap DOMAIN disk) \ DOMAIN limiter.sizes
    BY DEF Uncounted, CacheInv, CacheTypes, Limits
  <2>3. CacheTypes'
    BY <1>1, <1>2, <1>4, <2>1, <2>2 DEF CacheInv, CacheTypes, OthersStay
  <2>4. Busy'
    BY <2>1, RestIs DEF CacheInv, Busy, OthersStay, Saving, Unlinking
  <2>5. Fits'
    BY <1>4 DEF CacheInv, Fits
  <2>6. Accounted'
    <3> SUFFICES ASSUME NEW g \in DOMAIN disk' \ left'
                 PROVE  /\ g \notin DOMAIN limiter.sizes => Claimed(g)'
                        /\ g \in DOMAIN limiter.sizes /\ disk'[g] > limiter.sizes[g]
                             => Recounted(g)'
      BY <1>1 DEF Accounted
    <3>1. g \in DOMAIN disk \ left /\ disk'[g] = disk[g]
      BY <1>4
    <3>2. CASE g # f
      BY <1>4, <2>1, <3>1, <3>2, OtherAccounts
    <3>3. CASE g = f
      <4>1. g \in DOMAIN limiter.sizes
        BY <1>4, <2>2, <3>3
      <4>2. CASE disk[g] > limiter.sizes[g]
        <5>1. PICK u \in Threads : thread[u].file = g /\ thread[u].at = "copied"
          BY <3>1, <4>1, <4>2 DEF CacheInv, Accounted, Recounted
        <5>2. u # t
          BY <1>1, <5>1
        <5>3. Recounted(g)'
          BY <2>1, <5>1, <5>2 DEF OthersStay, Recounted
        <5>4. QED
          BY <4>1, <5>3
      <4>3. QED
        BY <3>1, <4>1, <4>2
    <3>4. QED
      BY <3>2, <3>3
  <2>7. Pruned'
    BY <1>1, <2>1, OtherPrunes DEF Pruning, Unlinking
  <2>8. QED
    BY <2>3, <2>4, <2>5, <2>6, <2>7 DEF CacheInv
<1>5. QED
  BY <1>3, <1>4 DEF Copy

LEMMA AddFileKeeps ==
  ASSUME CacheInv, NEW t \in Threads, AddFile(t)
  PROVE  CacheInv'
<1> DEFINE f == thread[t].file
           x == [Rest EXCEPT !.at = "prune"]
<1>1. /\ thread[t].at = "copied" /\ disk' = disk /\ time' = time + 1
      /\ left' = left \ {f} /\ thread' = [thread EXCEPT ![t] = x]
      /\ limiter' = LimiterAdd(limiter, f, thread[t].size, time)
  BY DEF AddFile
<1>2. f \in Files /\ thread[t].size = FileSize[f] /\ FileSize[f] \in Nat
  BY <1>1, CacheAssumption DEF CacheInv, Busy, Saving
<1>3. Limits(limiter) /\ time \in Nat /\ limiter.sizes \in Sizes
  BY DEF CacheInv, CacheTypes, Limits
<1>4. Limits(limiter') /\ limiter'.sizes = With(limiter.sizes, f, FileSize[f])
  BY <1>1, <1>2, <1>3, AddIs
<1>5. /\ DOMAIN limiter'.sizes = DOMAIN limiter.sizes \cup {f}
      /\ limiter'.sizes[f] = FileSize[f]
      /\ \A y \in DOMAIN limiter.sizes :
           y # f => limiter'.sizes[y] = limiter.sizes[y]
  <2> DEFINE v == FileSize[f]
             z == limiter.sizes
  <2>1. v \in Nat /\ z \in Sizes /\ limiter'.sizes = With(z, f, v)
    BY <1>2, <1>3, <1>4
  <2> HIDE DEF f, v, z
  <2>2. /\ DOMAIN With(z, f, v) = DOMAIN z \cup {f} /\ With(z, f, v)[f] = v
        /\ \A y \in DOMAIN z : y # f => With(z, f, v)[y] = z[y]
    BY <1>2, <2>1, WithIs
  <2>3. QED
    BY <2>1, <2>2 DEF v, z
<1>6. OthersStay(t) /\ thread'[t] = x
  BY <1>1, OneThreadMoves, RestIs DEF CacheInv
<1>7. CacheTypes'
  BY <1>1, <1>3, <1>4, <1>6 DEF CacheInv, CacheTypes, OthersStay
<1>8. x.at = "prune"
  BY RestIs
<1> HIDE DEF x
<1>9. Busy'
  BY <1>6, <1>8 DEF CacheInv, Busy, OthersStay, Saving, Unlinking
<1>10. Fits'
  BY <1>1 DEF CacheInv, Fits
<1>11. Accounted'
  <2> SUFFICES ASSUME NEW g \in DOMAIN disk' \ left'
               PROVE  /\ g \notin DOMAIN limiter'.sizes => Claimed(g)'
                      /\ g \in DOMAIN limiter'.sizes
                         /\ disk'[g] > limiter'.sizes[g] => Recounted(g)'
    BY DEF Accounted
  <2>1. CASE g = f
    <3>1. disk[f] <= FileSize[f] /\ disk[f] \in Nat
      BY <1>1, <2>1 DEF CacheInv, Fits, CacheTypes, Sizes
    <3>2. QED
      BY <1>1, <1>2, <1>5, <2>1, <3>1
  <2>2. CASE g # f
    <3>1. g \in DOMAIN disk \ left /\ disk'[g] = disk[g]
      BY <1>1, <2>2
    <3>2. QED
      BY <1>5, <1>6, <2>2, <3>1, OtherAccounts
  <2>3. QED
    BY <2>1, <2>2
<1>12. Pruned'
  BY <1>6, <1>8 DEF Pruned, Pruning
<1>13. QED
  BY <1>7, <1>9, <1>10, <1>11, <1>12 DEF CacheInv

LEMMA PruneKeeps ==
  ASSUME CacheInv, NEW t \in Threads, Prune(t)
  PROVE  CacheInv'
<1>1. /\ thread[t].at \in {"prune", "starting"} /\ disk' = disk /\ left' = left
      /\ time' = time /\ Limits(limiter) /\ thread[t] \in AThread
  BY DEF Prune, CacheInv, CacheTypes
<1>2. CASE ExceedsLimit(limiter)
  <2>1. PICK f \in Oldest(limiter) :
          /\ limiter' = LimiterRemove(limiter, f)
          /\ thread' = [thread EXCEPT ![t].file = f,
                 ![t].at = IF @ = "starting" THEN "starting unlink"
                           ELSE "unlink"]
    BY <1>2 DEF Prune
  <2>2. f \in Files /\ f \in DOMAIN limiter.sizes
    BY <1>1 DEF Oldest, Limits, Sizes
  <2> DEFINE x == [thread[t] EXCEPT !.file = f,
                     !.at = IF thread[t].at = "starting" THEN "starting unlink"
                            ELSE "unlink"]
  <2>3. x \in AThread /\ x.at \in Unlinking /\ x.file = f
    BY <1>1, <2>2 DEF AThread, Pruning, Unlinking
  <2>4. thread' = [thread EXCEPT ![t] = x]
    BY <2>1 DEF CacheInv, CacheTypes
  <2> HIDE DEF x
  <2>5. OthersStay(t) /\ thread'[t] = x
    BY <2>3, <2>4, OneThreadMoves DEF CacheInv
  <2>6. /\ Limits(limiter') /\ DOMAIN limiter'.sizes = DOMAIN limiter.sizes \ {f}
        /\ \A y \in DOMAIN limiter.sizes \ {f} :
             limiter'.sizes[y] = limiter.sizes[y]
    BY <1>1, <2>1, RemoveIs
  <2>7. CacheTypes'
    BY <1>1, <2>5, <2>6 DEF CacheInv, CacheTypes, OthersStay
  <2>8. Busy'
    BY <2>2, <2>3, <2>5 DEF CacheInv, Busy, OthersStay, Unlinking
  <2>9. Fits'
    BY <1>1 DEF CacheInv, Fits
  <2>10. Accounted'
    <3> SUFFICES ASSUME NEW g \in DOMAIN disk' \ left'
                 PROVE  /\ g \notin DOMAIN limiter'.sizes => Claimed(g)'
                        /\ g \in DOMAIN limiter'.sizes
                           /\ disk'[g] > limiter'.sizes[g] => Recounted(g)'
      BY DEF Accounted
    <3>1. CASE g = f
      BY <2>3, <2>5, <2>6, <3>1 DEF Claimed
    <3>2. CASE g # f
      <4>1. g \in DOMAIN disk \ left /\ disk'[g] = disk[g]
        BY <1>1
      <4>2. thread[t].at \notin Saving \cup Unlinking
        BY <1>1 DEF Saving, Unlinking
      <4>3. QED
        BY <2>5, <2>6, <3>2, <4>1, <4>2, OtherAccounts
    <3>3. QED
      BY <3>1, <3>2
  <2>11. Pruned'
    BY <2>3, <2>5 DEF Pruned, Pruning
  <2>12. QED
    BY <2>7, <2>8, <2>9, <2>10, <2>11 DEF CacheInv
<1>3. CASE ~ExceedsLimit(limiter)
  <2> DEFINE x == IF thread[t].at = "starting" /\ left # {}
                  THEN [Rest EXCEPT !.at = "off"] ELSE Rest
  <2>1. x \in AThread /\ x.at \in {"off", "idle"}
    BY RestIs
  <2>2. limiter' = limiter /\ thread' = [thread EXCEPT ![t] = x]
    BY <1>3 DEF Prune
  <2> HIDE DEF x
  <2>3. OthersStay(t) /\ thread'[t] = x
    BY <2>1, <2>2, OneThreadMoves DEF CacheInv
  <2>4. CacheTypes'
    BY <1>1, <2>2, <2>3 DEF CacheInv, CacheTypes, OthersStay
  <2>5. Busy'
    BY <2>1, <2>3 DEF CacheInv, Busy, OthersStay, Saving, Unlinking
  <2>6. Fits'
    BY <1>1 DEF CacheInv, Fits
  <2>7. Accounted'
    <3> SUFFICES ASSUME NEW g \in DOMAIN disk \ left
                 PROVE  /\ g \notin DOMAIN limiter.sizes => Claimed(g)'
                        /\ g \in DOMAIN limiter.sizes /\ disk[g] > limiter.sizes[g]
                             => Recounted(g)'
      BY <1>1, <2>2 DEF Accounted
    <3>1. thread[t].at \notin Saving \cup Unlinking
      BY <1>1 DEF Saving, Unlinking
    <3>2. QED
      BY <2>3, <3>1, OtherAccounts
  <2>8. Pruned'
    BY <1>3, <2>2 DEF Pruned, ExceedsLimit
  <2>9. QED
    BY <2>4, <2>5, <2>6, <2>7, <2>8 DEF CacheInv
<1>4. QED
  BY <1>2, <1>3

LEMMA PruneFileKeeps ==
  ASSUME CacheInv, NEW t \in Threads, PruneFile(t)
  PROVE  CacheInv'
<1> DEFINE f == thread[t].file
           x == [Rest EXCEPT !.at = IF thread[t].at = "unlink" THEN "prune"
                                    ELSE "starting"]
<1>1. /\ thread[t].at \in Unlinking /\ limiter' = limiter /\ time' = time
      /\ disk \in Sizes
  BY DEF PruneFile, CacheInv, CacheTypes, Unlinking
<1>2. f \in Files
  BY <1>1 DEF CacheInv, Busy
<1>3. x \in AThread /\ x.at \in {"prune", "starting"}
  BY RestIs
<1>4. CASE disk' = Without(disk, f) /\ left' = left
           /\ thread' = [Unlinked(thread, f) EXCEPT ![t] = x]
  <2> HIDE DEF x, f
  <2>1. OthersStay(t) /\ thread'[t] = x
    BY <1>3, <1>4, OneThreadUnlinks DEF CacheInv
  <2>2. /\ disk' \in Sizes /\ DOMAIN disk' = DOMAIN disk \ {f}
        /\ \A y \in DOMAIN disk \ {f} : disk'[y] = disk[y]
    BY <1>1, <1>4, WithoutIs
  <2>3. CacheTypes'
    BY <1>1, <1>4, <2>1, <2>2 DEF CacheInv, CacheTypes, OthersStay
  <2>4. Busy'
    BY <1>3, <2>1 DEF CacheInv, Busy, OthersStay, Saving, Unlinking
  <2>5. Fits'
    BY <2>2 DEF CacheInv, Fits
  <2>6. Accounted'
    <3> SUFFICES ASSUME NEW g \in DOMAIN disk' \ left'
                 PROVE  /\ g \notin DOMAIN limiter.sizes => Claimed(g)'
                        /\ g \in DOMAIN limiter.sizes /\ disk'[g] > limiter.sizes[g]
                             => Recounted(g)'
      BY <1>1 DEF Accounted
    <3>1. g \in DOMAIN disk \ left /\ disk'[g] = disk[g] /\ g # f
      BY <1>4, <2>2
    <3>2. QED
      BY <2>1, <3>1, OtherAccounts DEF f
  <2>7. Pruned'
    BY <1>3, <2>1 DEF Pruned, Pruning
  <2>8. QED
    BY <2>3, <2>4, <2>5, <2>6, <2>7 DEF CacheInv
<1>5. CASE disk' = disk /\ left' = left \cup Uncounted(f)
           /\ thread' = [thread EXCEPT ![t] = x]
  <2> HIDE DEF x
  <2>1. OthersStay(t) /\ thread'[t] = x
    BY <1>3, <1>5, OneThreadMoves DEF CacheInv
  <2>2. Uncounted(f) = ({f} \cap DOMAIN disk) \ DOMAIN limiter.sizes
    BY DEF Uncounted, CacheInv, CacheTypes, Limits
  <2>3. CacheTypes'
    BY <1>1, <1>2, <1>5, <2>1, <2>2 DEF CacheInv, CacheTypes, OthersStay
  <2>4. Busy'
    BY <1>3, <2>1 DEF CacheInv, Busy, OthersStay, Saving, Unlinking
  <2>5. Fits'
    BY <1>5 DEF CacheInv, Fits
  <2>6. Accounted'
    <3> SUFFICES ASSUME NEW g \in DOMAIN disk' \ left'
                 PROVE  /\ g \notin DOMAIN limiter.sizes => Claimed(g)'
                        /\ g \in DOMAIN limiter.sizes /\ disk'[g] > limiter.sizes[g]
                             => Recounted(g)'
      BY <1>1 DEF Accounted
    <3>1. g \in DOMAIN disk \ left /\ disk'[g] = disk[g]
      BY <1>5
    <3>2. CASE g # f
      BY <2>1, <3>1, <3>2, OtherAccounts
    <3>3. CASE g = f
      <4>1. g \in DOMAIN limiter.sizes
        BY <1>5, <2>2, <3>3
      <4>2. CASE disk[g] > limiter.sizes[g]
        <5>1. PICK u \in Threads : thread[u].file = g /\ thread[u].at = "copied"
          BY <3>1, <4>1, <4>2 DEF CacheInv, Accounted, Recounted
        <5>2. u # t
          BY <1>1, <5>1 DEF Unlinking
        <5>3. Recounted(g)'
          BY <2>1, <5>1, <5>2 DEF OthersStay, Recounted
        <5>4. QED
          BY <4>1, <5>3
      <4>3. QED
        BY <3>1, <4>1, <4>2
    <3>4. QED
      BY <3>2, <3>3
  <2>7. Pruned'
    BY <1>3, <2>1 DEF Pruned, Pruning
  <2>8. QED
    BY <2>3, <2>4, <2>5, <2>6, <2>7 DEF CacheInv
<1>6. QED
  BY <1>4, <1>5 DEF PruneFile

LEMMA OpenFileKeeps ==
  ASSUME CacheInv, NEW f \in Files, OpenFile(f)
  PROVE  CacheInv'
<1>1. /\ disk' = disk /\ thread' = thread /\ left' = left /\ time' = time + 1
      /\ limiter' = LimiterUpdate(limiter, f, time)
      /\ Limits(limiter) /\ time \in Nat
  BY DEF OpenFile, CacheInv, CacheTypes
<1>2. /\ Limits(limiter') /\ limiter'.sizes = limiter.sizes
      /\ limiter'.in_use = limiter.in_use
  BY <1>1, UpdateIs
<1>3. CacheTypes'
  BY <1>1, <1>2 DEF CacheInv, CacheTypes
<1>4. Busy' /\ Fits'
  BY <1>1 DEF CacheInv, Busy, Fits
<1>5. Accounted'
  BY <1>1, <1>2 DEF CacheInv, Accounted, Claimed, Recounted
<1>6. Pruned'
  BY <1>1, <1>2 DEF CacheInv, Pruned, ExceedsLimit
<1>7. QED
  BY <1>3, <1>4, <1>5, <1>6 DEF CacheInv

LEMMA RemoveFileKeeps ==
  ASSUME CacheInv, NEW t \in Threads, NEW f \in Files, RemoveFile(t, f)
  PROVE  CacheInv'
<1> DEFINE x == [Rest EXCEPT !.at = "forget", !.file = f]
<1>1. /\ thread[t].at = "idle" /\ limiter' = limiter /\ left' = left
      /\ time' = time /\ disk' = Without(disk, f) /\ disk \in Sizes
      /\ thread' = [Unlinked(thread, f) EXCEPT ![t] = x]
  BY DEF RemoveFile, CacheInv, CacheTypes
<1>2. x \in AThread /\ x.at = "forget" /\ x.file = f
  BY DEF Rest, AThread
<1> HIDE DEF x
<1>3. OthersStay(t) /\ thread'[t] = x
  BY <1>1, <1>2, OneThreadUnlinks DEF CacheInv
<1>4. /\ disk' \in Sizes /\ DOMAIN disk' = DOMAIN disk \ {f}
      /\ \A y \in DOMAIN disk \ {f} : disk'[y] = disk[y]
  BY <1>1, WithoutIs
<1>5. CacheTypes'
  BY <1>1, <1>3, <1>4 DEF CacheInv, CacheTypes, OthersStay
<1>6. Busy'
  BY <1>2, <1>3 DEF CacheInv, Busy, OthersStay
<1>7. Fits'
  BY <1>4 DEF CacheInv, Fits
<1>8. Accounted'
  <2> SUFFICES ASSUME NEW g \in DOMAIN disk' \ left'
               PROVE  /\ g \notin DOMAIN limiter.sizes => Claimed(g)'
                      /\ g \in DOMAIN limiter.sizes /\ disk'[g] > limiter.sizes[g]
                           => Recounted(g)'
    BY <1>1 DEF Accounted
  <2>1. g \in DOMAIN disk \ left /\ disk'[g] = disk[g]
    BY <1>1, <1>4
  <2>2. thread[t].at \notin Saving \cup Unlinking
    BY <1>1 DEF Saving, Unlinking
  <2>3. QED
    BY <1>3, <2>1, <2>2, OtherAccounts
<1>9. Pruned'
  BY <1>1, <1>3, OtherPrunes DEF Pruning, Unlinking
<1>10. QED
  BY <1>5, <1>6, <1>7, <1>8, <1>9 DEF CacheInv

LEMMA ForgetFileKeeps ==
  ASSUME CacheInv, NEW t \in Threads, ForgetFile(t)
  PROVE  CacheInv'
<1> DEFINE f == thread[t].file
<1>1. /\ thread[t].at = "forget" /\ disk' = disk /\ time' = time
      /\ limiter' = LimiterRemove(limiter, f) /\ Limits(limiter)
      /\ left' = left \cup (DOMAIN limiter.queue \cap DOMAIN disk \cap {f})
      /\ thread' = [thread EXCEPT ![t] = Rest]
  BY DEF ForgetFile, CacheInv, CacheTypes
<1>2. f \in Files
  BY <1>1 DEF CacheInv, Busy
<1>3. OthersStay(t) /\ thread'[t] = Rest
  BY <1>1, OneThreadMoves, RestIs DEF CacheInv
<1>4. /\ Limits(limiter') /\ DOMAIN limiter'.sizes = DOMAIN limiter.sizes \ {f}
      /\ \A y \in DOMAIN limiter.sizes \ {f} :
           limiter'.sizes[y] = limiter.sizes[y]
      /\ limiter'.in_use <= limiter.in_use
  BY <1>1, RemoveIs
<1>5. CacheTypes'
  BY <1>1, <1>2, <1>3, <1>4 DEF CacheInv, CacheTypes, OthersStay
<1>6. Busy'
  BY <1>3, RestIs DEF CacheInv, Busy, OthersStay, Saving, Unlinking
<1>7. Fits'
  BY <1>1 DEF CacheInv, Fits
<1>8. Accounted'
  <2> SUFFICES ASSUME NEW g \in DOMAIN disk' \ left'
               PROVE  /\ g \notin DOMAIN limiter'.sizes => Claimed(g)'
                      /\ g \in DOMAIN limiter'.sizes
                         /\ disk'[g] > limiter'.sizes[g] => Recounted(g)'
    BY DEF Accounted
  <2>1. g \in DOMAIN disk \ left /\ disk'[g] = disk[g]
    BY <1>1
  <2>2. thread[t].at \notin Saving \cup Unlinking
    BY <1>1 DEF Saving, Unlinking
  <2>3. g = f => g \notin DOMAIN limiter.sizes
    BY <1>1, <2>1 DEF Limits
  <2>4. QED
    BY <1>3, <1>4, <2>1, <2>2, <2>3, OtherAccounts
<1>9. Pruned'
  <2>1. limiter.in_use \in Nat /\ limiter'.in_use \in Nat
    BY <1>1, <1>4, TotalType DEF Limits
  <2>2. CASE ExceedsLimit(limiter)
    <3>1. PICK u \in Threads : thread[u].at \in Pruning
      BY <2>2 DEF CacheInv, Pruned
    <3>2. u # t
      BY <1>1, <3>1 DEF Pruning, Unlinking
    <3>3. QED
      BY <1>3, <3>1, <3>2 DEF OthersStay, Pruned
  <2>3. CASE ~ExceedsLimit(limiter)
    BY <1>4, <2>1, <2>3, CacheAssumption DEF Pruned, ExceedsLimit
  <2>4. QED
    BY <2>2, <2>3
<1>10. QED
  BY <1>5, <1>6, <1>7, <1>8, <1>9 DEF CacheInv

LEMMA RestartKeeps ==
  ASSUME CacheInv, Restart
  PROVE  CacheInv'
<1>1. PICK at \in [DOMAIN disk -> {0, 1}], t \in Threads :
        /\ limiter' = [queue |-> at, sizes |-> disk, in_use |-> Total(disk)]
        /\ thread' = [u \in Threads |->
                        IF u = t THEN [Rest EXCEPT !.at = "starting"] ELSE Rest]
        /\ left' = {} /\ time' = 1 /\ disk' = disk
  BY DEF Restart
<1>2. disk \in Sizes
  BY DEF CacheInv, CacheTypes
<1>3. at \in Sizes
  BY <1>2 DEF Sizes
<1>4. Limits(limiter')
  BY <1>1, <1>2, <1>3 DEF Limits
<1>5. /\ thread' \in [Threads -> AThread] /\ thread'[t].at = "starting"
      /\ \A u \in Threads : thread'[u].at \in {"starting", "idle"}
  BY <1>1, RestIs
<1>6. CacheTypes'
  BY <1>1, <1>2, <1>4, <1>5 DEF CacheTypes
<1>7. Busy'
  BY <1>5 DEF Busy, Saving, Unlinking
<1>8. Fits'
  BY <1>1 DEF CacheInv, Fits
<1>9. Accounted'
  <2>1. \A g \in DOMAIN disk : disk[g] \in Nat
    BY <1>2 DEF Sizes
  <2>2. QED
    BY <1>1, <2>1 DEF Accounted
<1>10. Pruned'
  BY <1>5 DEF Pruned, Pruning
<1>11. QED
  BY <1>6, <1>7, <1>8, <1>9, <1>10 DEF CacheInv

LEMMA CacheStarts == CacheInit => CacheInv
<1> SUFFICES ASSUME CacheInit PROVE CacheInv
  OBVIOUS
<1>1. <<>> \in [{} -> Nat]
  OBVIOUS
<1>2. <<>> \in Sizes /\ DOMAIN (<<>>) = {}
  BY <1>1 DEF Sizes
<1>3. Total(<<>>) = 0
  BY <1>2, TotalNone DEF Old
<1>4. Limits(limiter)
  BY <1>2, <1>3 DEF CacheInit, Limits
<1>5. CacheTypes
  BY <1>2, <1>4, RestIs DEF CacheInit, CacheTypes
<1>6. Busy
  BY RestIs DEF CacheInit, Busy, Saving, Unlinking
<1>7. Fits /\ Accounted
  BY <1>2 DEF CacheInit, Fits, Accounted
<1>8. Pruned
  BY CacheAssumption DEF CacheInit, Pruned, ExceedsLimit
<1>9. QED
  BY <1>5, <1>6, <1>7, <1>8 DEF CacheInv

LEMMA CacheSteps == CacheInv /\ [CacheNext]_cacheVars => CacheInv'
<1> SUFFICES ASSUME CacheInv, [CacheNext]_cacheVars PROVE CacheInv'
  OBVIOUS
<1>1. ASSUME NEW t \in Threads, NEW f \in Files,
             Create(t, f) \/ RemoveFile(t, f)
      PROVE  CacheInv'
  BY <1>1, CreateKeeps, RemoveFileKeeps
<1>2. ASSUME NEW t \in Threads,
             Copy(t) \/ AddFile(t) \/ Prune(t) \/ PruneFile(t) \/ ForgetFile(t)
      PROVE  CacheInv'
  BY <1>2, CopyKeeps, AddFileKeeps, PruneKeeps, PruneFileKeeps, ForgetFileKeeps
<1>3. ASSUME NEW f \in Files, OpenFile(f) PROVE CacheInv'
  BY <1>3, OpenFileKeeps
<1>4. CASE Restart
  BY <1>4, RestartKeeps
<1>5. CASE UNCHANGED cacheVars
  BY <1>5 DEF cacheVars, CacheInv, CacheTypes, Busy, Fits, Accounted, Claimed,
              Recounted, Pruned, ExceedsLimit
<1>6. QED
  BY <1>1, <1>2, <1>3, <1>4, <1>5 DEF CacheNext

\* The limiter counts what it holds; every file on the disk is counted, left
\* behind by an error, or in the hands of a thread that counts or removes it;
\* and while there is too much some thread prunes.
THEOREM CacheInvariant == CacheSpec => []CacheInv
BY CacheStarts, CacheSteps, PTL DEF CacheSpec

\* Once every thread is done, what is counted is all that is on the disk but
\* for the files left behind, and it is within the limit.
LEMMA WithinLimit == CacheInv => DiskWithinLimit
<1> SUFFICES ASSUME CacheInv PROVE DiskWithinLimit
  OBVIOUS
<1>1. /\ limiter.in_use = Total(limiter.sizes)
      /\ DOMAIN limiter.queue = DOMAIN limiter.sizes
      /\ limiter.sizes \in Sizes /\ disk \in Sizes
  BY DEF CacheInv, CacheTypes, Limits
<1>2. ASSUME \A t \in Threads : thread[t] = Rest
      PROVE  Total(Restrict(disk, DOMAIN disk \ left)) <= SizeLimit
  <2> DEFINE d == Restrict(disk, DOMAIN disk \ left)
             s == limiter.sizes
  <2>1. \A t \in Threads : thread[t].at = "idle"
    BY <1>2, RestIs
  <2>2. ~ExceedsLimit(limiter)
    BY <2>1 DEF CacheInv, Pruned, Pruning, Unlinking
  <2>3. PICK D \in SUBSET Files : disk \in [D -> Nat]
    BY <1>1 DEF Sizes
  <2>4. /\ d \in [D \ left -> Nat] /\ D \ left \in SUBSET Files
        /\ \A y \in D \ left : d[y] = disk[y]
    BY <2>3 DEF Restrict
  <2>5. d \in Sizes
    BY <2>4 DEF Sizes
  <2>6. \A y \in D \ left : y \in DOMAIN s /\ ~(disk[y] > s[y])
    BY <2>1, <2>3 DEF CacheInv, Accounted, Claimed, Recounted, Saving, Unlinking
  <2>7. \A y \in DOMAIN s : s[y] \in Nat
    BY <1>1 DEF Sizes
  <2>8. s \in Sizes
    BY <1>1
  <2> HIDE DEF d, s
  <2>9. \A y \in Files : Old(d, y) <= Old(s, y)
    <3> TAKE y \in Files
    <3>1. CASE y \in D \ left
      BY <2>3, <2>4, <2>6, <2>7, <3>1 DEF Old
    <3>2. CASE y \notin D \ left
      <4>1. Old(d, y) = 0 /\ Old(s, y) \in Nat
        BY <2>4, <2>8, <3>2, OldType DEF Old
      <4>2. QED
        BY <4>1
    <3>3. QED
      BY <3>1, <3>2
  <2>10. Total(d) <= Total(s)
    BY <2>5, <2>8, <2>9, TotalMonotone
  <2>11. Total(d) \in Nat /\ Total(s) \in Nat
    BY <2>5, <2>8, TotalType
  <2>12. ~(Total(s) > SizeLimit)
    BY <1>1, <2>2 DEF ExceedsLimit, s
  <2>13. QED
    BY <2>10, <2>11, <2>12, CacheAssumption DEF d
<1>3. QED
  BY <1>1, <1>2 DEF DiskWithinLimit

THEOREM DiskStaysWithinLimit == CacheSpec => []DiskWithinLimit
BY CacheInvariant, WithinLimit, PTL
=============================================================================
