---------------------------- MODULE SessionProofs ----------------------------
(***************************************************************************)
(* Proofs about the session, for any number of requests, keys, channels    *)
(* and subscribers, and however many packets the server sends.             *)
(***************************************************************************)
EXTENDS Session, TLAPS

Owner == Requests \cup KeyRequests \cup Channels \cup {"server"}
KeepAlives == {"Ping", "PongAck"}
Packets == [cmd : KeepAlives \cup {"Mercury", "Key", "Chunk", "Event"},
            seq : Int, owner : Owner, part : {"more", "last"},
            status : {"ok", "4xx", "5xx", "error", "empty"}]
Asks == [kind : {"mercury", "key", "channel"}, seq : Nat, owner : Owner]

SeType ==
  /\ DOMAIN se = {"login", "tries", "retried", "token", "invalid", "sender",
                  "phase", "keepAlive", "left", "quiet", "shutting"}
  /\ se.shutting \in [Shutters -> {"no", "called", "invalid", "mercury", "done"}]
  /\ se.left \in Nat /\ se.quiet \in Nat
  /\ se.keepAlive \in {"ExpectingPing", "PendingPong", "ExpectingPongAck"}
WireType ==
  /\ DOMAIN net = {"asked", "sent", "closed"}
  /\ net.asked \subseteq Asks
  /\ stream \in Seq(Packets)
SeqType ==
  /\ DOMAIN merc = {"seq", "pending", "subs", "invalid", "held", "fut", "rx"}
  /\ DOMAIN akey = {"seq", "pending", "fut"}
  /\ DOMAIN chan = {"seq", "map", "invalid", "ch"}
  /\ merc.seq \in Nat /\ akey.seq \in Nat /\ chan.seq \in Nat

\* The types that the other proofs start from.
Types == SeType /\ WireType /\ SeqType

-----------------------------------------------------------------------------
(* Types                                                                   *)

LEMMA SeKept ==
  ASSUME SeType, [SessionNext]_sessionVars
  PROVE  SeType'
<1>1. CASE UNCHANGED se
  BY <1>1 DEF SeType
<1>2. CASE Dial
  BY <1>2 DEF Dial, LoginError, SeType
<1>3. CASE Authenticate \/ ConnectAtOnce
  BY <1>3 DEF Authenticate, ConnectAtOnce, Connected, LoginError, SeType
<1>4. CASE ShutdownCall \/ SenderFails \/ StreamEnds
  <2>1. "program" \in Shutters /\ "sender" \in Shutters /\ "dispatch" \in Shutters
    BY DEF Shutters
  <2>2. CASE ShutdownCall
    BY <2>1, <2>2 DEF ShutdownCall, CallUnlessInvalid, SeType
  <2>3. CASE SenderFails
    BY <2>1, <2>3 DEF SenderFails, CallUnlessInvalid, SeType
  <2>4. CASE StreamEnds
    BY <2>1, <2>4 DEF StreamEnds, SeType
  <2>5. QED
    BY <1>4, <2>2, <2>3, <2>4
<1>4a. ASSUME NEW a \in Shutters, Shutdown(a) PROVE SeType'
  <2>1. CASE se.shutting[a] = "called"
    <3>1. se' = [se EXCEPT !.invalid = TRUE, !.shutting[a] = "invalid"]
      BY <1>4a, <2>1 DEF Shutdown
    <3>2. QED
      BY <3>1 DEF SeType
  <2>2. CASE se.shutting[a] = "invalid"
    BY <1>4a, <2>2 DEF Shutdown, SeType
  <2>3. CASE se.shutting[a] = "mercury"
    BY <1>4a, <2>3 DEF Shutdown, SeType
  <2>4. QED
    BY <1>4a, <2>1, <2>2, <2>3 DEF Shutdown
<1>5. CASE ServerSends
  <2>1. se' = [se EXCEPT !.quiet = 0] \/ se' = se
    BY <1>5 DEF ServerSends
  <2>2. QED
    BY <2>1 DEF SeType
<1>6. CASE Wake
  BY <1>6 DEF Wake, SeType
<1>6a. CASE Tick
  <2>1. se.left - 1 \in Nat /\ se.quiet + 1 \in Nat
    BY <1>6a DEF Tick, SeType
  <2>2. /\ DOMAIN se' = DOMAIN se /\ UNCHANGED <<se.keepAlive, se.shutting>>
        /\ se'.left = se.left - 1 /\ se'.quiet = se.quiet + 1
    BY <1>6a DEF Tick, SeType
  <2>3. QED
    BY <2>1, <2>2 DEF SeType
<1>7. CASE DispatchKeepAlive
  BY <1>7 DEF DispatchKeepAlive, KeepAlive, SeType
<1>8. CASE DispatchMercury \/ FinishMercury
  BY <1>8 DEF DispatchMercury, FinishMercury, SeType
<1>9. CASE PollTimer
  BY <1>9 DEF PollTimer, Timer, CallUnlessInvalid, SeType
<1>10. QED
  BY <1>1, <1>2, <1>3, <1>4, <1>4a, <1>5, <1>6, <1>6a, <1>7, <1>8, <1>9
  DEF SessionNext, sessionVars, MercuryRequest, ListenFor, SubscriberDropped,
      KeyRequest, KeyTimeout, ChannelAllocate, ChannelPoll, ConnectionCloses,
      DispatchKey, DispatchChunk

\* Tables change by Put and Drop, and by the shutdown.
LEMMA SeqKept ==
  ASSUME SeqType, [SessionNext]_sessionVars
  PROVE  SeqType'
<1>1. CASE UNCHANGED <<merc, akey, chan>>
  BY <1>1 DEF SeqType
<1>2. ASSUME NEW a \in Shutters, Shutdown(a) PROVE SeqType'
  BY <1>2 DEF Shutdown, MercuryShutdown, ChannelShutdown, SeqType
<1>3. ASSUME NEW r \in Requests, MercuryRequest(r) PROVE SeqType'
  BY <1>3 DEF MercuryRequest, InsertPending, SeqType
<1>4. ASSUME NEW s \in Subscribers, ListenFor(s) \/ SubscriberDropped(s)
      PROVE  SeqType'
  BY <1>4 DEF ListenFor, SubscriberDropped, SeqType
<1>5. ASSUME NEW k \in KeyRequests, KeyRequest(k) \/ KeyTimeout(k)
      PROVE  SeqType'
  <2>1. DOMAIN akey' = DOMAIN akey /\ akey'.seq \in {akey.seq, akey.seq + 1}
    BY <1>5 DEF KeyRequest, KeyTimeout, SeqType
  <2>2. akey'.seq \in Nat
    BY <2>1 DEF SeqType
  <2>3. UNCHANGED <<merc, chan>>
    BY <1>5 DEF KeyRequest, KeyTimeout
  <2>4. QED
    BY <2>1, <2>2, <2>3 DEF SeqType
<1>6. ASSUME NEW c \in Channels, ChannelAllocate(c) PROVE SeqType'
  <2>1. (chan.seq + 1) % ChannelIds \in Nat
    BY IdsAssumption DEF SeqType
  <2>2. DOMAIN chan' = DOMAIN chan /\ chan'.seq = (chan.seq + 1) % ChannelIds
    BY <1>6 DEF ChannelAllocate, Allocate, SeqType
  <2>3. QED
    BY <1>6, <2>1, <2>2 DEF ChannelAllocate, SeqType
<1>7. ASSUME NEW c \in Channels, ChannelPoll(c) PROVE SeqType'
  BY <1>7 DEF ChannelPoll, SeqType
<1>8. CASE DispatchKey \/ DispatchChunk
  BY <1>8 DEF DispatchKey, DispatchChunk, SeqType
<1>9. CASE DispatchMercury
  BY <1>9 DEF DispatchMercury, SeqType
<1>10. CASE FinishMercury
  BY <1>10 DEF FinishMercury, CompleteRequest, SeqType
<1>11. QED
  BY <1>1, <1>2, <1>3, <1>4, <1>5, <1>6, <1>7, <1>8, <1>9, <1>10
  DEF SessionNext, sessionVars, Dial, Authenticate, ConnectAtOnce,
      ShutdownCall, SenderFails, ServerSends, ConnectionCloses, Tick, Wake,
      DispatchKeepAlive, StreamEnds, PollTimer

\* What the server may send.
LEMMA SentPackets ==
  ASSUME WireType, NEW p \in Sendable
  PROVE  /\ p \in Packets
         /\ p.cmd = "Mercury" => \E a \in net.asked :
              a.kind = "mercury" /\ a.seq = p.seq /\ a.owner = p.owner
         /\ p.cmd = "Key" => \E a \in net.asked :
              a.kind = "key" /\ a.seq = p.seq /\ a.owner = p.owner
         /\ p.cmd = "Event" => p.seq = -2 /\ p.part = "last"
<1>1. CASE p \in {Notice("Ping", -1), Notice("PongAck", -1)}
  BY <1>1 DEF Notice, Packets, Owner, KeepAlives
<1>2. CASE p = Notice("Event", -2)
  BY <1>2 DEF Notice, Packets, Owner
<1>3. ASSUME NEW a \in net.asked, p \in AnswersTo(a)
      PROVE  /\ p \in Packets /\ p.seq = a.seq /\ p.owner = a.owner
             /\ p.cmd = CASE a.kind = "mercury" -> "Mercury"
                          [] a.kind = "key" -> "Key" [] OTHER -> "Chunk"
  <2>1. a.seq \in Int /\ a.owner \in Owner
        /\ a.kind \in {"mercury", "key", "channel"}
    BY DEF WireType, Asks
  <2>2. CASE a.kind = "mercury"
    BY <1>3, <2>1, <2>2 DEF AnswersTo, Packets, AnswerStatuses
  <2>3. CASE a.kind = "key"
    BY <1>3, <2>1, <2>3 DEF AnswersTo, Packets, AnswerStatuses
  <2>4. CASE a.kind = "channel"
    BY <1>3, <2>1, <2>4 DEF AnswersTo, Packets, AnswerStatuses
  <2>5. QED
    BY <2>1, <2>2, <2>3, <2>4
<1>4. ASSUME NEW a \in net.asked, p \in AnswersTo(a)
      PROVE  /\ p.cmd = "Mercury" => a.kind = "mercury"
             /\ p.cmd = "Key" => a.kind = "key"
             /\ p.cmd # "Event"
  BY <1>3, <1>4
<1>5. \/ p \in {Notice("Ping", -1), Notice("PongAck", -1)}
      \/ p = Notice("Event", -2)
      \/ \E a \in net.asked : p \in AnswersTo(a)
  BY DEF Sendable
<1>6. QED
  BY <1>1, <1>2, <1>3, <1>4, <1>5

\* What is sent and has not been read.
LEMMA WireKept ==
  ASSUME WireType, SeqType, [SessionNext]_sessionVars
  PROVE  WireType'
<1>1. CASE UNCHANGED <<net, stream>>
  BY <1>1 DEF WireType
<1>2. ASSUME NEW a \in Asks, Ask(a), UNCHANGED stream PROVE WireType'
  BY <1>2 DEF Ask, WireType
<1>3. ASSUME NEW r \in Requests, MercuryRequest(r) PROVE WireType'
  <2>1. [kind |-> "mercury", seq |-> merc.seq, owner |-> r] \in Asks
    BY DEF Asks, Owner, SeqType
  <2>2. QED
    BY <1>2, <1>3, <2>1 DEF MercuryRequest
<1>4. ASSUME NEW k \in KeyRequests, KeyRequest(k) PROVE WireType'
  <2>1. [kind |-> "key", seq |-> akey.seq, owner |-> k] \in Asks
    BY DEF Asks, Owner, SeqType
  <2>2. QED
    BY <1>2, <1>4, <2>1 DEF KeyRequest
<1>5. ASSUME NEW c \in Channels, ChannelAllocate(c) PROVE WireType'
  <2>1. [kind |-> "channel", seq |-> chan.seq, owner |-> c] \in Asks
    BY DEF Asks, Owner, SeqType
  <2>2. QED
    BY <1>2, <1>5, <2>1 DEF ChannelAllocate
<1>6. CASE ServerSends
  <2>1. Sendable \subseteq Packets
    BY SentPackets
  <2>2. PICK p \in Sendable :
          /\ stream' = Append(stream, p)
          /\ net' = [net EXCEPT !.sent = @ + 1,
               !.asked = IF p.part = "last" /\ p.cmd \in {"Mercury", "Key"}
                         THEN {a \in @ : a.owner # p.owner} ELSE @]
    BY <1>6 DEF ServerSends
  <2>3. DOMAIN net' = DOMAIN net /\ net'.asked \subseteq net.asked
    BY <2>2 DEF WireType
  <2>4. stream' \in Seq(Packets)
    BY <2>1, <2>2 DEF WireType
  <2>5. QED
    BY <2>3, <2>4 DEF WireType
<1>7. CASE ConnectionCloses
  BY <1>7 DEF ConnectionCloses, WireType
<1>8. CASE stream # <<>> /\ stream' = Tail(stream) /\ UNCHANGED net
  BY <1>8 DEF WireType
<1>9. QED
  BY <1>1, <1>3, <1>4, <1>5, <1>6, <1>7, <1>8
  DEF SessionNext, sessionVars, Dial, Authenticate, ConnectAtOnce,
      ShutdownCall, SenderFails, Shutdown, ListenFor, SubscriberDropped,
      KeyTimeout, ChannelPoll, Tick, Wake, DispatchKeepAlive, DispatchKey,
      DispatchChunk, DispatchMercury, FinishMercury, StreamEnds, PollTimer

\* The session's types.
THEOREM TypesHold == SessionSpec => []Types
<1>1. SessionInit => Types
  BY DEF SessionInit, Types, SeType, WireType, SeqType
<1>2. Types /\ [SessionNext]_sessionVars => Types'
  BY SeKept, SeqKept, WireKept DEF Types
<1>3. QED
  BY <1>1, <1>2, PTL DEF SessionSpec

-----------------------------------------------------------------------------
(* Keeping alive.  The time that has passed in silence and the time that   *)
(* is left of the deadline are never more than the longest deadline, since *)
(* a packet that has not been read holds the clock.                        *)

Deadlines ==
  /\ se.login # "connected" => se.phase = "none"
  /\ \A i \in 1..Len(stream) : stream[i].cmd \in KeepAlives => se.quiet = 0
  /\ se.phase # "ended" =>
       se.quiet + se.left <= IF se.keepAlive = "PendingPong" THEN 3 ELSE 4

LEMMA DeadlinesKept ==
  ASSUME Types, Deadlines, [SessionNext]_sessionVars
  PROVE  Deadlines'
<1> SeType /\ stream \in Seq(Packets)
  BY DEF Types, WireType
<1> USE DEF SeType
<1>1. CASE /\ UNCHANGED <<stream, se.quiet, se.left, se.keepAlive>>
           /\ se'.login # "connected" => se'.phase = "none"
           /\ se'.phase # "ended" => se.phase # "ended"
  BY <1>1 DEF Deadlines
<1>2. CASE UNCHANGED se /\ stream # <<>> /\ stream' = Tail(stream)
  BY <1>2 DEF Deadlines
<1>3. CASE Dial
  <2>1. /\ UNCHANGED <<stream, se.quiet, se.left, se.keepAlive, se.phase>>
        /\ se.login # "connected"
    BY <1>3 DEF Dial, LoginError
  <2>2. QED
    BY <1>1, <2>1 DEF Deadlines
<1>4. CASE Authenticate \/ ConnectAtOnce
  <2>1. /\ UNCHANGED <<stream, se.quiet, se.left, se.keepAlive>>
        /\ se.login # "connected"
        /\ \/ UNCHANGED se.phase
           \/ se'.login = "connected"
    BY <1>4 DEF Authenticate, ConnectAtOnce, Connected, LoginError
  <2>2. QED
    BY <1>1, <2>1 DEF Deadlines
<1>5. CASE ShutdownCall \/ SenderFails
  <2>1. UNCHANGED <<stream, se.quiet, se.left, se.keepAlive, se.phase, se.login>>
    BY <1>5 DEF ShutdownCall, SenderFails, CallUnlessInvalid
  <2>2. QED
    BY <1>1, <2>1 DEF Deadlines
<1>5a. ASSUME NEW a \in Shutters, Shutdown(a) PROVE Deadlines'
  <2>1. UNCHANGED <<stream, se.quiet, se.left, se.keepAlive, se.phase, se.login>>
    BY <1>5a DEF Shutdown
  <2>2. QED
    BY <1>1, <2>1 DEF Deadlines
<1>6. CASE ServerSends
  <2>1. PICK p \in Sendable :
          /\ stream' = Append(stream, p)
          /\ se' = IF p.cmd \in {"Ping", "PongAck"}
                   THEN [se EXCEPT !.quiet = 0] ELSE se
    BY <1>6 DEF ServerSends
  <2>2. p \in Packets
    BY SentPackets DEF Types
  <2>3. /\ UNCHANGED <<se.phase, se.left, se.keepAlive, se.login>>
        /\ se'.quiet = 0 \/ (se'.quiet = se.quiet /\ p.cmd \notin KeepAlives)
    BY <2>1 DEF KeepAlives
  <2>4. \A i \in 1..Len(stream') :
          \/ stream'[i] = p
          \/ i \in 1..Len(stream) /\ stream'[i] = stream[i]
    BY <2>1, <2>2
  <2>5. QED
    BY <2>3, <2>4 DEF Deadlines
<1>7. CASE Tick
  <2>1. /\ UNCHANGED <<se.phase, se.keepAlive, se.login>> /\ stream' = <<>>
        /\ se'.left = se.left - 1 /\ se'.quiet = se.quiet + 1
    BY <1>7 DEF Tick
  <2>2. se'.left + se'.quiet = se.left + se.quiet
    BY <2>1
  <2>3. QED
    BY <2>1, <2>2 DEF Deadlines
<1>8. CASE Wake \/ FinishMercury
  <2>1. /\ UNCHANGED <<stream, se.quiet, se.left, se.keepAlive, se.login>>
        /\ se.phase \in {"parked", "held"} /\ se'.phase = "drain"
    BY <1>8 DEF Wake, FinishMercury
  <2>2. QED
    BY <1>1, <2>1 DEF Deadlines
<1>9. CASE DispatchKeepAlive
  <2>1. /\ stream # <<>> /\ stream' = Tail(stream) /\ se.phase = "drain"
        /\ stream[1].cmd \in KeepAlives
    BY <1>9 DEF DispatchKeepAlive, KeepAlives
  <2>2. se.quiet = 0
    BY <2>1 DEF Deadlines
  <2>3. /\ UNCHANGED <<se.quiet, se.phase, se.login>>
        /\ \/ se'.left = 3 /\ se'.keepAlive = "PendingPong"
           \/ se'.left = 4 /\ se'.keepAlive = "ExpectingPing"
    BY <1>9 DEF DispatchKeepAlive, KeepAlive
  <2>4. QED
    BY <2>1, <2>2, <2>3 DEF Deadlines
<1>10. CASE DispatchMercury
  <2>1. /\ UNCHANGED <<se.quiet, se.left, se.keepAlive, se.login>>
        /\ se.phase = "drain" /\ se'.phase # "none" /\ se'.phase # "ended"
        /\ stream # <<>> /\ stream' = Tail(stream)
    BY <1>10 DEF DispatchMercury
  <2>2. QED
    BY <2>1 DEF Deadlines
<1>11. CASE StreamEnds
  <2>1. /\ UNCHANGED <<stream, se.login, se.quiet>> /\ se.phase = "drain"
        /\ se'.phase = "ended"
    BY <1>11 DEF StreamEnds
  <2>2. QED
    BY <2>1 DEF Deadlines
<1>12. CASE PollTimer
  <2>1. /\ UNCHANGED <<stream, se.login, se.quiet>> /\ se.phase = "drain"
        /\ stream = <<>>
        /\ \/ se'.phase = "parked" /\ UNCHANGED <<se.left, se.keepAlive>>
           \/ /\ se'.phase = "parked" /\ se.left = 0
              /\ se.keepAlive = "PendingPong"
              /\ se'.left = 1 /\ se'.keepAlive = "ExpectingPongAck"
           \/ se'.phase = "ended"
    BY <1>12 DEF PollTimer, Timer, CallUnlessInvalid
  <2>2. QED
    BY <2>1 DEF Deadlines
<1>13. QED
  BY <1>1, <1>2, <1>3, <1>4, <1>5, <1>5a, <1>6, <1>7, <1>8, <1>9, <1>10,
     <1>11, <1>12
  DEF SessionNext, sessionVars, MercuryRequest, ListenFor, SubscriberDropped,
      KeyRequest, KeyTimeout, ChannelAllocate, ChannelPoll, ConnectionCloses,
      DispatchKey, DispatchChunk, Deadlines

\* The deadlines of the keep-alive leave no longer silence than they add up to.
THEOREM DeadlinesHold == SessionSpec => []Deadlines
<1>1. SessionInit => Deadlines
  BY DEF SessionInit, Deadlines
<1>2. Types /\ Deadlines /\ [SessionNext]_sessionVars => Deadlines'
  BY DeadlinesKept
<1>3. QED
  BY <1>1, <1>2, TypesHold, PTL DEF SessionSpec

\* DispatchTask::poll: a connection that has gone silent is noticed within
\* the longest deadline, whichever way deadlines and packets follow each other.
THEOREM SilenceIsNoticed == SessionSpec => []SilenceNoticed
<1>1. Types /\ Deadlines => SilenceNoticed
  BY DEF Types, SeType, Deadlines, SilenceNoticed
<1>2. QED
  BY <1>1, TypesHold, DeadlinesHold, PTL

-----------------------------------------------------------------------------
(* Shutting down.  A call that has taken its second lock has shut Mercury, *)
(* one that has taken its third the channels too; a manager that is shut   *)
(* opens nothing more, and an open channel is in the table, where the      *)
(* shutdown finds it.                                                      *)

Signals ==
  /\ se.invalid => \E a \in Shutters :
                     se.shutting[a] \in {"invalid", "mercury", "done"}
  /\ \A a \in Shutters : se.shutting[a] \in {"mercury", "done"} => merc.invalid
  /\ \A a \in Shutters : se.shutting[a] = "done" => chan.invalid
  /\ DOMAIN chan.ch = Channels
  /\ \A c \in Channels : DOMAIN chan.ch[c] = {"st", "q", "tx"}
  /\ \A c \in Channels : chan.ch[c].tx =>
       ~chan.invalid /\ \E i \in DOMAIN chan.map : chan.map[i] = c
  /\ DOMAIN merc.rx = Subscribers
  /\ \A s \in Subscribers :
       merc.rx[s] = "open" => s \in merc.subs /\ ~merc.invalid

\* The task that dispatches calls shutdown once, when it ends.
DispatchOnce == se.phase # "ended" => se.shutting["dispatch"] = "no"

\* What the callers of shutdown do to the session.
LEMMA Calls ==
  ASSUME SeType
  PROVE  /\ ShutdownCall =>
              /\ ~se.invalid /\ UNCHANGED <<se.phase, se.invalid, merc, chan>>
              /\ se'.shutting = [se.shutting EXCEPT !["program"] = "called"]
         /\ SenderFails =>
              /\ UNCHANGED <<se.phase, se.invalid, merc, chan>>
              /\ \/ UNCHANGED se.shutting
                 \/ /\ ~se.invalid
                    /\ se'.shutting = [se.shutting EXCEPT !["sender"] = "called"]
         /\ PollTimer =>
              /\ UNCHANGED <<se.invalid, merc, chan>> /\ se.phase = "drain"
              /\ \/ UNCHANGED se.shutting
                 \/ /\ ~se.invalid /\ se'.phase = "ended"
                    /\ se'.shutting = [se.shutting EXCEPT !["dispatch"] = "called"]
         /\ StreamEnds =>
              /\ UNCHANGED <<se.invalid, merc, chan>>
              /\ se.phase = "drain" /\ se'.phase = "ended"
              /\ se'.shutting = [se.shutting EXCEPT !["dispatch"] = "called"]
<1>1. ASSUME NEW s, NEW a \in Shutters, DOMAIN s = DOMAIN se,
             s.shutting = se.shutting, s.invalid = se.invalid
      PROVE  LET t == CallUnlessInvalid(s, a)
             IN /\ t.phase = s.phase /\ t.invalid = se.invalid
                /\ \/ se.invalid /\ t.shutting = se.shutting
                   \/ /\ ~se.invalid
                      /\ t.shutting = [se.shutting EXCEPT ![a] = "called"]
  <2>1. CASE se.invalid
    BY <1>1, <2>1 DEF CallUnlessInvalid, SeType
  <2>2. CASE ~se.invalid
    BY <1>1, <2>2 DEF CallUnlessInvalid, SeType
  <2>3. QED
    BY <2>1, <2>2
<1>2. ASSUME ShutdownCall
      PROVE  /\ ~se.invalid /\ UNCHANGED <<se.phase, se.invalid, merc, chan>>
             /\ se'.shutting = [se.shutting EXCEPT !["program"] = "called"]
  BY <1>1, <1>2 DEF ShutdownCall, Shutters
<1>3. ASSUME SenderFails
      PROVE  /\ UNCHANGED <<se.phase, se.invalid, merc, chan>>
             /\ \/ UNCHANGED se.shutting
                \/ /\ ~se.invalid
                   /\ se'.shutting = [se.shutting EXCEPT !["sender"] = "called"]
  <2> DEFINE s == [se EXCEPT !.sender = "ended"]
  <2>1. /\ DOMAIN s = DOMAIN se /\ s.shutting = se.shutting
        /\ s.invalid = se.invalid /\ s.phase = se.phase
    BY DEF SeType
  <2>2. se' = CallUnlessInvalid(s, "sender") /\ UNCHANGED <<merc, chan>>
    BY <1>3 DEF SenderFails
  <2> HIDE DEF s
  <2>3. QED
    BY <1>1, <2>1, <2>2 DEF Shutters
<1>4. ASSUME PollTimer
      PROVE  /\ UNCHANGED <<se.invalid, merc, chan>> /\ se.phase = "drain"
             /\ \/ UNCHANGED se.shutting
                \/ /\ ~se.invalid /\ se'.phase = "ended"
                   /\ se'.shutting = [se.shutting EXCEPT !["dispatch"] = "called"]
  <2> DEFINE s == [se EXCEPT !.phase = "ended"]
  <2>1. /\ DOMAIN s = DOMAIN se /\ s.shutting = se.shutting
        /\ s.invalid = se.invalid /\ s.phase = "ended"
    BY DEF SeType
  <2>2. /\ UNCHANGED <<merc, chan>> /\ se.phase = "drain"
        /\ \/ UNCHANGED <<se.invalid, se.shutting>>
           \/ se' = CallUnlessInvalid(s, "dispatch")
    BY <1>4 DEF PollTimer, Timer, SeType
  <2> HIDE DEF s
  <2>3. QED
    BY <1>1, <2>1, <2>2 DEF Shutters
<1>5. ASSUME StreamEnds
      PROVE  /\ UNCHANGED <<se.invalid, merc, chan>>
             /\ se.phase = "drain" /\ se'.phase = "ended"
             /\ se'.shutting = [se.shutting EXCEPT !["dispatch"] = "called"]
  BY <1>5 DEF StreamEnds, SeType
<1>6. QED
  BY <1>2, <1>3, <1>4, <1>5

LEMMA DispatchOnceKept ==
  ASSUME Types, Deadlines, DispatchOnce, [SessionNext]_sessionVars
  PROVE  DispatchOnce'
<1> SeType
  BY DEF Types
<1> USE DEF SeType, DispatchOnce
<1>1. CASE /\ UNCHANGED se.shutting
           /\ se'.phase # "ended" => se.phase # "ended"
  BY <1>1
<1>2. CASE Dial
  BY <1>1, <1>2 DEF Dial, LoginError
<1>3. CASE Authenticate \/ ConnectAtOnce
  <2>1. se.phase = "none" /\ UNCHANGED se.shutting
    BY <1>3 DEF Authenticate, ConnectAtOnce, Connected, LoginError, Deadlines
  <2>2. QED
    BY <1>1, <2>1
<1>4. CASE ShutdownCall \/ SenderFails
  BY <1>4, Calls DEF Shutters
<1>5. ASSUME NEW a \in Shutters, Shutdown(a) PROVE DispatchOnce'
  <2>1. /\ UNCHANGED se.phase /\ se.shutting[a] # "no"
        /\ \E x : se'.shutting = [se.shutting EXCEPT ![a] = x]
    BY <1>5 DEF Shutdown
  <2>2. QED
    BY <2>1 DEF Shutters
<1>6. CASE StreamEnds
  BY <1>6, Calls
<1>7. CASE PollTimer
  BY <1>7, Calls
<1>8. CASE ServerSends \/ Tick \/ Wake \/ DispatchKeepAlive
  BY <1>1, <1>8 DEF ServerSends, Tick, Wake, DispatchKeepAlive, KeepAlive
<1>9. CASE DispatchMercury \/ FinishMercury
  BY <1>1, <1>9 DEF DispatchMercury, FinishMercury
<1>10. CASE UNCHANGED se
  BY <1>1, <1>10
<1>11. QED
  BY <1>2, <1>3, <1>4, <1>5, <1>6, <1>7, <1>8, <1>9, <1>10
  DEF SessionNext, sessionVars, MercuryRequest, ListenFor, SubscriberDropped,
      KeyRequest, KeyTimeout, ChannelAllocate, ChannelPoll, ConnectionCloses,
      DispatchKey, DispatchChunk

LEMMA ShutdownSignals ==
  ASSUME Types, Signals, NEW a \in Shutters, Shutdown(a)
  PROVE  Signals'
<1> SeType /\ SeqType
  BY DEF Types
<1>1. CASE se.shutting[a] = "called"
  <2>1. /\ UNCHANGED <<merc, chan>> /\ se'.invalid
        /\ se'.shutting = [se.shutting EXCEPT ![a] = "invalid"]
    BY <1>1 DEF Shutdown, SeType
  <2>2. QED
    BY <2>1 DEF Signals, SeType
<1>2. CASE se.shutting[a] = "invalid"
  <2>1. /\ UNCHANGED <<chan, se.invalid>>
        /\ se'.shutting = [se.shutting EXCEPT ![a] = "mercury"]
        /\ merc' = MercuryShutdown(merc)
    BY <1>2 DEF Shutdown, SeType
  <2>2. /\ merc'.invalid
        /\ merc'.rx = [s \in Subscribers |-> IF s \in merc.subs THEN "ended"
                                             ELSE merc.rx[s]]
    BY <2>1 DEF MercuryShutdown, SeqType
  <2>3. \A s \in Subscribers : merc'.rx[s] # "open"
    BY <2>2 DEF Signals
  <2>4. QED
    BY <2>1, <2>2, <2>3 DEF Signals, SeType
<1>3. CASE se.shutting[a] = "mercury"
  <2>1. /\ UNCHANGED <<merc, se.invalid>>
        /\ se'.shutting = [se.shutting EXCEPT ![a] = "done"]
        /\ chan' = ChannelShutdown(chan)
    BY <1>3 DEF Shutdown, SeType
  <2>2. /\ chan'.invalid
        /\ chan'.ch = [c \in Channels |->
                         IF \E i \in DOMAIN chan.map : chan.map[i] = c
                         THEN [chan.ch[c] EXCEPT !.tx = FALSE] ELSE chan.ch[c]]
    BY <2>1 DEF ChannelShutdown, SeqType
  <2>3. \A c \in Channels :
          DOMAIN chan'.ch[c] = {"st", "q", "tx"} /\ ~chan'.ch[c].tx
    BY <2>2 DEF Signals
  <2>4. QED
    BY <1>3, <2>1, <2>2, <2>3 DEF Signals, SeType
<1>4. QED
  BY <1>1, <1>2, <1>3 DEF Shutdown

LEMMA AllocateSignals ==
  ASSUME SeqType, Signals, NEW c \in Channels, chan' = Allocate(chan, c),
         UNCHANGED <<se, merc>>
  PROVE  Signals'
<1> DEFINE new == [st |-> "Header", q |-> <<>>, tx |-> ~chan.invalid]
<1>1. UNCHANGED chan.invalid
  BY DEF Allocate, SeqType
<1>1a. ~chan.invalid => chan'.map = Put(chan.map, chan.seq, c)
  BY DEF Allocate, SeqType
<1>2. DOMAIN chan'.ch = Channels
  BY DEF Allocate, SeqType, Signals
<1>3. CASE chan.invalid
  <2>1. chan'.ch = [chan.ch EXCEPT ![c] = new]
    BY <1>3 DEF Allocate, SeqType
  <2>2. DOMAIN new = {"st", "q", "tx"} /\ ~new.tx
    BY <1>3
  <2> HIDE DEF new
  <2>3. \A d \in Channels : DOMAIN chan'.ch[d] = {"st", "q", "tx"} /\ ~chan'.ch[d].tx
    BY <1>3, <2>1, <2>2 DEF Signals
  <2>4. QED
    BY <1>1, <1>2, <2>3 DEF Signals
<1>4. CASE ~chan.invalid
  <2> DEFINE old == IF chan.seq \in DOMAIN chan.map THEN {chan.map[chan.seq]}
                    ELSE {}
             all == [chan.ch EXCEPT ![c] = new]
  <2>1. chan'.ch = [d \in Channels |-> IF d \in old
                                       THEN [all[d] EXCEPT !.tx = FALSE]
                                       ELSE all[d]]
    BY <1>4 DEF Allocate, SeqType
  <2>2. \A d \in Channels : DOMAIN all[d] = {"st", "q", "tx"}
    BY DEF Signals
  <2> HIDE DEF all
  <2>3. \A d \in Channels : DOMAIN chan'.ch[d] = {"st", "q", "tx"}
    BY <2>1, <2>2
  <2>4. ASSUME NEW d \in Channels, chan'.ch[d].tx
        PROVE  \E i \in DOMAIN chan'.map : chan'.map[i] = d
    <3>1. /\ DOMAIN chan'.map = DOMAIN chan.map \cup {chan.seq}
          /\ chan'.map[chan.seq] = c
          /\ \A i \in DOMAIN chan.map : i # chan.seq =>
               chan'.map[i] = chan.map[i]
      BY <1>1a, <1>4 DEF Put
    <3>2. d \notin old /\ all[d].tx
      BY <2>1, <2>2, <2>4
    <3>3. CASE d = c
      BY <3>1, <3>3
    <3>4. CASE d # c
      <4>1. chan.ch[d].tx
        BY <3>2, <3>4 DEF all, Signals
      <4>2. PICK i \in DOMAIN chan.map : chan.map[i] = d
        BY <4>1 DEF Signals
      <4>3. i # chan.seq
        BY <3>2, <4>2
      <4>4. QED
        BY <3>1, <4>2, <4>3
    <3>5. QED
      BY <3>3, <3>4
  <2>5. QED
    BY <1>1, <1>2, <1>4, <2>3, <2>4 DEF Signals
<1>5. QED
  BY <1>3, <1>4

LEMMA SignalsKept ==
  ASSUME Types, DispatchOnce, Signals, [SessionNext]_sessionVars
  PROVE  Signals'
<1> SeType /\ SeqType
  BY DEF Types
<1> USE DEF SeType
<1>1. CASE UNCHANGED <<merc, chan, se.invalid, se.shutting>>
  BY <1>1 DEF Signals
<1>2. ASSUME NEW a \in Shutters, UNCHANGED <<merc, chan, se.invalid>>,
             se'.shutting = [se.shutting EXCEPT ![a] = "called"],
             se.shutting[a] = "no" \/ ~se.invalid
      PROVE  Signals'
  <2>1. /\ se.invalid => \E b \in Shutters : se'.shutting[b] \in
                             {"invalid", "mercury", "done"}
        /\ \A b \in Shutters : se'.shutting[b] \in {se.shutting[b], "called"}
    BY <1>2 DEF Signals
  <2>2. QED
    BY <1>2, <2>1 DEF Signals
<1>3. CASE Dial \/ Authenticate \/ ConnectAtOnce
  BY <1>1, <1>3 DEF Dial, Authenticate, ConnectAtOnce, Connected, LoginError
<1>4. CASE ShutdownCall
  BY <1>2, <1>4, Calls DEF Shutters
<1>4a. ASSUME NEW a \in Shutters, Shutdown(a) PROVE Signals'
  BY <1>4a, ShutdownSignals
<1>5. CASE SenderFails
  BY <1>1, <1>2, <1>5, Calls DEF Shutters
<1>6. CASE PollTimer
  BY <1>1, <1>2, <1>6, Calls DEF Shutters
<1>6a. CASE StreamEnds
  BY <1>2, <1>6a, Calls DEF DispatchOnce, Shutters
<1>7. ASSUME NEW r \in Requests, MercuryRequest(r) PROVE Signals'
  <2>1. UNCHANGED <<se, chan, merc.invalid, merc.subs, merc.rx>>
    BY <1>7 DEF MercuryRequest, InsertPending, SeqType
  <2>2. QED
    BY <2>1 DEF Signals
<1>8. ASSUME NEW s \in Subscribers, ListenFor(s) PROVE Signals'
  <2>1. /\ UNCHANGED <<se, chan, merc.invalid>>
        /\ \/ merc.invalid /\ merc'.rx = [merc.rx EXCEPT ![s] = "ended"] /\ UNCHANGED merc.subs
           \/ /\ ~merc.invalid /\ merc'.rx = [merc.rx EXCEPT ![s] = "open"]
              /\ merc'.subs = merc.subs \cup {s}
    BY <1>8 DEF ListenFor, SeqType
  <2>2. QED
    BY <2>1 DEF Signals
<1>9. ASSUME NEW s \in Subscribers, SubscriberDropped(s) PROVE Signals'
  <2>1. /\ UNCHANGED <<se, chan, merc.invalid, merc.subs>>
        /\ merc'.rx = [merc.rx EXCEPT ![s] = "dropped"]
    BY <1>9 DEF SubscriberDropped, SeqType
  <2>2. QED
    BY <2>1 DEF Signals
<1>10. ASSUME NEW c \in Channels, ChannelAllocate(c) PROVE Signals'
  BY <1>10, AllocateSignals DEF ChannelAllocate
<1>11. ASSUME NEW c \in Channels, NEW h, UNCHANGED <<se, merc>>,
              chan' = [chan EXCEPT !.ch[c] = h], DOMAIN h = DOMAIN chan.ch[c],
              h.tx = chan.ch[c].tx
       PROVE  Signals'
  <2>1. /\ UNCHANGED <<chan.invalid, chan.map>>
        /\ chan'.ch = [chan.ch EXCEPT ![c] = h]
    BY <1>11 DEF SeqType
  <2>2. QED
    BY <1>11, <2>1 DEF Signals
<1>12. ASSUME NEW c \in Channels, ChannelPoll(c) PROVE Signals'
  <2> DEFINE h == chan.ch[c]
             rest == [h EXCEPT !.q = Tail(@)]
  <2>1. DOMAIN h = {"st", "q", "tx"}
    BY DEF Signals
  <2>2. DOMAIN rest = DOMAIN h /\ rest.tx = h.tx
    BY <2>1
  <2>3. PICK g : /\ chan' = [chan EXCEPT !.ch[c] = g]
                 /\ \/ g = [h EXCEPT !.st = "failed"]
                    \/ g = rest
                    \/ g = [rest EXCEPT !.st = "Closed"]
                    \/ g = [rest EXCEPT !.st = "Data"]
    BY <1>12 DEF ChannelPoll
  <2> HIDE DEF rest
  <2>4. DOMAIN g = DOMAIN h /\ g.tx = h.tx
    BY <2>1, <2>2, <2>3
  <2>5. QED
    BY <1>11, <1>12, <2>3, <2>4 DEF ChannelPoll
<1>13. CASE DispatchChunk
  <2> DEFINE c == chan.map[Head(stream).seq]
             h == [chan.ch[c] EXCEPT !.q = Append(@, Head(stream).status)]
  <2>1. UNCHANGED <<se, merc>>
    BY <1>13 DEF DispatchChunk
  <2>2. CASE chan' = chan
    BY <1>1, <2>1, <2>2
  <2>3. CASE chan' # chan
    <3>1. chan' = [chan EXCEPT !.ch[c] = h]
      BY <1>13, <2>3 DEF DispatchChunk
    <3>2. CASE c \in Channels
      <4>1. DOMAIN h = DOMAIN chan.ch[c] /\ h.tx = chan.ch[c].tx
        BY <3>2 DEF Signals
      <4> HIDE DEF h
      <4>2. QED
        BY <1>11, <2>1, <3>1, <3>2, <4>1
    <3>3. CASE c \notin Channels
      <4>1. /\ UNCHANGED <<chan.invalid, chan.map>>
            /\ chan'.ch = [chan.ch EXCEPT ![c] = h]
        BY <3>1 DEF SeqType
      <4> HIDE DEF h
      <4>2. /\ DOMAIN chan'.ch = DOMAIN chan.ch
            /\ \A d \in Channels : chan'.ch[d] = chan.ch[d]
        BY <3>3, <4>1 DEF Signals
      <4>3. QED
        BY <2>1, <4>1, <4>2 DEF Signals
    <3>4. QED
      BY <3>2, <3>3
  <2>4. QED
    BY <2>2, <2>3
<1>14. CASE DispatchMercury
  <2>1. UNCHANGED <<chan, se.invalid, se.shutting, merc.invalid, merc.subs,
                    merc.rx>>
    BY <1>14 DEF DispatchMercury, SeqType
  <2>2. QED
    BY <2>1 DEF Signals
<1>15. CASE FinishMercury
  <2>1. /\ UNCHANGED <<chan, se.invalid, se.shutting, merc.invalid, merc.rx>>
        /\ \/ UNCHANGED merc.subs
           \/ merc'.subs = {s \in merc.subs : merc.rx[s] = "open"}
    BY <1>15 DEF FinishMercury, CompleteRequest, SeqType
  <2>2. QED
    BY <2>1 DEF Signals
<1>16. CASE ServerSends \/ DispatchKeepAlive
  BY <1>1, <1>16 DEF ServerSends, DispatchKeepAlive, KeepAlive
<1>17. CASE Tick \/ Wake
  BY <1>1, <1>17 DEF Tick, Wake
<1>18. QED
  BY <1>1, <1>3, <1>4, <1>4a, <1>5, <1>6, <1>6a, <1>7, <1>8, <1>9, <1>10,
     <1>12, <1>13, <1>14, <1>15, <1>16, <1>17
  DEF SessionNext, sessionVars, KeyRequest, KeyTimeout, ConnectionCloses,
      DispatchKey

\* Session::shutdown: each of its three locks leaves behind what the next one
\* relies on, whichever callers are between theirs, and what is shut stays so.
THEOREM SignalsHold == SessionSpec => [](DispatchOnce /\ Signals)
<1>1. SessionInit => DispatchOnce /\ Signals
  BY DEF SessionInit, DispatchOnce, Signals, Shutters
<1>2. Types /\ Deadlines /\ DispatchOnce /\ Signals /\ [SessionNext]_sessionVars
        => (DispatchOnce /\ Signals)'
  BY DispatchOnceKept, SignalsKept
<1>3. QED
  BY <1>1, <1>2, TypesHold, DeadlinesHold, PTL DEF SessionSpec

\* Session::shutdown: when a call has returned, or the session is invalid and
\* no call is under way, no channel and no subscription is open, whichever of
\* the three tasks called it, whichever numbers were used again, and whoever
\* asks for a channel or a subscription between the locks or later.
THEOREM EveryoneIsSignalled == SessionSpec => []ChannelsAreSignalled
<1>1. Signals => ChannelsAreSignalled
  BY DEF Signals, ChannelsAreSignalled, ShutdownOver
<1>2. QED
  BY <1>1, SignalsHold, PTL

-----------------------------------------------------------------------------
(* Answers.  Every number is given to one request only, and a number finds *)
(* the same owner in what has been asked, in the packets that have not     *)
(* been read, and in the manager's table.                                  *)

Unread == {stream[i] : i \in 1..Len(stream)}

AskOf(p, kind) ==
  \E a \in net.asked : a.kind = kind /\ a.seq = p.seq /\ a.owner = p.owner
Backed(p) == /\ p.cmd = "Mercury" => AskOf(p, "mercury")
             /\ p.cmd = "Key" => AskOf(p, "key")
             /\ p.cmd = "Event" => p.seq = -2 /\ p.part = "last"

\* The wire agrees with who about the owners of the numbers below seq.
AsksFit(kind, seq, who) ==
  \A a \in net.asked : a.kind = kind => a.seq < seq /\ a.owner = who[a.seq]
UnreadFit(cmd, seq, who) ==
  \A p \in Unread : p.cmd = cmd =>
    p.seq \in Nat /\ p.seq < seq /\ p.owner = who[p.seq]
EventsFit ==
  \A p \in Unread : p.cmd = "Event" => p.seq = -2 /\ p.part = "last"

LEMMA UnreadStep ==
  ASSUME Types, [SessionNext]_sessionVars
  PROVE  \A p \in Unread' : p \in Packets /\ (p \in Unread \/ Backed(p))
<1> stream \in Seq(Packets) /\ WireType
  BY DEF Types, WireType
<1>1. CASE UNCHANGED stream
  BY <1>1 DEF Unread
<1>2. CASE stream # <<>> /\ stream' = Tail(stream)
  <2>1. \A i \in 1..Len(stream') : /\ i + 1 \in 1..Len(stream)
                                   /\ stream'[i] = stream[i + 1]
    BY <1>2
  <2>2. QED
    BY <2>1 DEF Unread
<1>3. CASE ServerSends
  <2>1. PICK p \in Sendable : stream' = Append(stream, p)
    BY <1>3 DEF ServerSends
  <2>2. p \in Packets /\ Backed(p)
    BY SentPackets DEF Backed, AskOf
  <2>3. \A i \in 1..Len(stream') :
          \/ stream'[i] = p
          \/ i \in 1..Len(stream) /\ stream'[i] = stream[i]
    BY <2>1, <2>2
  <2>4. QED
    BY <2>2, <2>3 DEF Unread
<1>4. QED
  BY <1>1, <1>2, <1>3
  DEF SessionNext, sessionVars, Dial, Authenticate, ConnectAtOnce,
      ShutdownCall, SenderFails, Shutdown, MercuryRequest, ListenFor, SubscriberDropped,
      KeyRequest, KeyTimeout, ChannelAllocate, ChannelPoll, ConnectionCloses,
      Tick, Wake, DispatchKeepAlive, DispatchKey, DispatchChunk,
      DispatchMercury, FinishMercury, StreamEnds, PollTimer

\* Only a request, a key and a channel add to what has been asked.
LEMMA AskStep ==
  ASSUME Types, [SessionNext]_sessionVars, NEW a \in net'.asked
  PROVE  \/ a \in net.asked
         \/ a.kind = "channel"
         \/ \E r \in Requests : /\ MercuryRequest(r)
              /\ a = [kind |-> "mercury", seq |-> merc.seq, owner |-> r]
         \/ \E k \in KeyRequests : /\ KeyRequest(k)
              /\ a = [kind |-> "key", seq |-> akey.seq, owner |-> k]
<1> DOMAIN net = {"asked", "sent", "closed"}
  BY DEF Types, WireType
<1>1. CASE UNCHANGED net
  BY <1>1
<1>2. ASSUME NEW x, Ask(x) PROVE a \in net.asked \/ a = x
  BY <1>2 DEF Ask
<1>3. ASSUME NEW r \in Requests, MercuryRequest(r)
      PROVE  \/ a \in net.asked
             \/ a = [kind |-> "mercury", seq |-> merc.seq, owner |-> r]
  BY <1>2, <1>3 DEF MercuryRequest
<1>4. ASSUME NEW k \in KeyRequests, KeyRequest(k)
      PROVE  \/ a \in net.asked
             \/ a = [kind |-> "key", seq |-> akey.seq, owner |-> k]
  BY <1>2, <1>4 DEF KeyRequest
<1>5. ASSUME NEW c \in Channels, ChannelAllocate(c)
      PROVE  a \in net.asked \/ a.kind = "channel"
  BY <1>2, <1>5 DEF ChannelAllocate
<1>6. CASE ServerSends \/ ConnectionCloses
  BY <1>6 DEF ServerSends, ConnectionCloses
<1>7. QED
  BY <1>1, <1>3, <1>4, <1>5, <1>6
  DEF SessionNext, sessionVars, Dial, Authenticate, ConnectAtOnce,
      ShutdownCall, SenderFails, Shutdown, ListenFor, SubscriberDropped, KeyTimeout,
      ChannelPoll, Tick, Wake, DispatchKeepAlive, DispatchKey, DispatchChunk,
      DispatchMercury, FinishMercury, StreamEnds, PollTimer

\* Packets that are read or sent fit as what has been asked does.
LEMMA UnreadFits ==
  ASSUME Types, [SessionNext]_sessionVars, NEW seq \in Nat, NEW next \in Nat,
         seq <= next, NEW who \in [Nat -> Owner], NEW who2 \in [Nat -> Owner],
         \A i \in Nat : i < seq => who2[i] = who[i],
         NEW kind, NEW cmd, <<kind, cmd>> \in {<<"mercury", "Mercury">>,
                                              <<"key", "Key">>},
         AsksFit(kind, seq, who), UnreadFit(cmd, seq, who)
  PROVE  \A p \in Unread' : p.cmd = cmd =>
           p.seq \in Nat /\ p.seq < next /\ p.owner = who2[p.seq]
<1> TAKE p \in Unread'
<1> HAVE p.cmd = cmd
<1>1. CASE p \in Unread
  BY <1>1 DEF UnreadFit
<1>2. CASE Backed(p)
  <2>1. PICK a \in net.asked :
          a.kind = kind /\ a.seq = p.seq /\ a.owner = p.owner
    BY <1>2 DEF Backed, AskOf
  <2>2. a.seq \in Nat
    BY DEF Types, WireType, Asks
  <2>3. QED
    BY <2>1, <2>2 DEF AsksFit
<1>3. QED
  BY <1>1, <1>2, UnreadStep

-----------------------------------------------------------------------------
(* Audio keys                                                              *)

KeyTable(who) ==
  \A i \in DOMAIN akey.pending :
    i \in Nat /\ i < akey.seq /\ akey.pending[i].owner = who[i]
KeyFutures ==
  /\ DOMAIN akey.fut = KeyRequests
  /\ \A k \in KeyRequests : /\ DOMAIN akey.fut[k] = {"st", "key"}
                            /\ akey.fut[k].st = "ok" => akey.fut[k].key = k
KeyOwners(who) ==
  /\ AsksFit("key", akey.seq, who)
  /\ UnreadFit("Key", akey.seq, who)
  /\ KeyTable(who)

KeysFit == KeyFutures /\ \E who \in [Nat -> Owner] : KeyOwners(who)

LEMMA KeyRequestFits ==
  ASSUME Types, KeyFutures, NEW who \in [Nat -> Owner], KeyOwners(who),
         NEW k \in KeyRequests, KeyRequest(k)
  PROVE  KeysFit'
<1> DEFINE entry == [owner |-> k]
<1> SeqType /\ akey.seq \in Nat /\ akey.seq + 1 \in Nat
  BY DEF Types, SeqType
<1>1. /\ akey'.seq = akey.seq + 1
      /\ akey'.pending = Put(akey.pending, akey.seq, entry)
      /\ akey'.fut = [akey.fut EXCEPT ![k].st =
                        IF CanSend THEN "waiting" ELSE "failed"]
  BY DEF KeyRequest, SeqType
<1>2. PICK who2 \in [Nat -> Owner] :
        /\ who2[akey.seq] = k
        /\ \A i \in Nat : i < akey.seq => who2[i] = who[i]
  <2> DEFINE w == [who EXCEPT ![akey.seq] = k]
  <2>1. /\ w \in [Nat -> Owner] /\ w[akey.seq] = k
        /\ \A i \in Nat : i < akey.seq => w[i] = who[i]
    BY DEF Owner
  <2> HIDE DEF w
  <2>2. QED
    BY <2>1
<1>3. UnreadFit("Key", akey.seq, who2)'
  <2>1. \A p \in Unread' : p.cmd = "Key" =>
           p.seq \in Nat /\ p.seq < akey.seq + 1 /\ p.owner = who2[p.seq]
    BY <1>2, UnreadFits DEF KeyOwners, SessionNext
  <2>2. QED
    BY <1>1, <2>1 DEF UnreadFit
<1>4. AsksFit("key", akey.seq, who2)'
  <2> SUFFICES ASSUME NEW a \in net'.asked, a.kind = "key"
               PROVE  a.seq < akey.seq + 1 /\ a.owner = who2[a.seq]
    BY <1>1 DEF AsksFit
  <2>1. CASE a \in net.asked
    <3>1. a.seq \in Nat
      BY <2>1 DEF Types, WireType, Asks
    <3>2. a.seq < akey.seq /\ a.owner = who[a.seq]
      BY <2>1 DEF KeyOwners, AsksFit
    <3>3. QED
      BY <1>2, <3>1, <3>2
  <2>2. CASE a = [kind |-> "key", seq |-> akey.seq, owner |-> k]
    BY <1>2, <2>2
  <2>3. a \in net.asked \/ a = [kind |-> "key", seq |-> akey.seq, owner |-> k]
    BY DEF KeyRequest, Ask, Types, WireType
  <2>4. QED
    BY <2>1, <2>2, <2>3
<1>5. KeyTable(who2)'
  BY <1>1, <1>2 DEF KeyTable, KeyOwners, Put
<1>6. KeyFutures'
  BY <1>1 DEF KeyFutures
<1>7. QED
  BY <1>2, <1>3, <1>4, <1>5, <1>6 DEF KeysFit, KeyOwners

LEMMA KeysKept ==
  ASSUME Types, KeysFit, [SessionNext]_sessionVars
  PROVE  KeysFit'
<1> SeqType /\ akey.seq \in Nat
  BY DEF Types, SeqType
<1>1. PICK who \in [Nat -> Owner] : KeyOwners(who)
  BY DEF KeysFit
<1>2. ASSUME NEW k \in KeyRequests, KeyRequest(k) PROVE KeysFit'
  BY <1>1, <1>2, KeyRequestFits DEF KeysFit
<1>3. ASSUME UNCHANGED akey.seq, \A k \in KeyRequests : ~KeyRequest(k),
             KeyFutures', KeyTable(who)'
      PROVE  KeysFit'
  <2>1. \A a \in net'.asked : a.kind = "key" => a \in net.asked
    BY <1>3, AskStep
  <2>2. AsksFit("key", akey.seq, who)'
    BY <1>1, <1>3, <2>1 DEF AsksFit, KeyOwners
  <2>3. UnreadFit("Key", akey.seq, who)'
    <3>1. \A p \in Unread' : p.cmd = "Key" =>
             p.seq \in Nat /\ p.seq < akey.seq /\ p.owner = who[p.seq]
      BY <1>1, UnreadFits DEF KeyOwners
    <3>2. QED
      BY <1>3, <3>1 DEF UnreadFit
  <2>4. QED
    BY <1>3, <2>2, <2>3 DEF KeysFit, KeyOwners
<1>4. ASSUME NEW k \in KeyRequests, KeyTimeout(k)
      PROVE  UNCHANGED akey.seq /\ KeyFutures' /\ KeyTable(who)'
  <2>1. /\ UNCHANGED <<akey.seq, akey.pending>>
        /\ akey'.fut = [akey.fut EXCEPT ![k].st = "timed out"]
    BY <1>4 DEF KeyTimeout, SeqType
  <2>2. QED
    BY <1>1, <2>1 DEF KeysFit, KeyFutures, KeyOwners, KeyTable
<1>5. ASSUME DispatchKey
      PROVE  UNCHANGED akey.seq /\ KeyFutures' /\ KeyTable(who)'
  <2> DEFINE p == Head(stream)
             k == akey.pending[p.seq].owner
             answer == [st |-> IF p.status = "ok" THEN "ok" ELSE "failed",
                        key |-> p.owner]
             f == IF akey.fut[k].st # "waiting" THEN akey.fut[k] ELSE answer
  <2>1. CASE akey' = akey
    BY <1>1, <2>1 DEF KeysFit, KeyFutures, KeyOwners, KeyTable
  <2>2. CASE akey' # akey
    <3>1. /\ p.seq \in DOMAIN akey.pending
          /\ akey' = [akey EXCEPT !.pending = Drop(@, p.seq), !.fut[k] = f]
      BY <1>5, <2>2 DEF DispatchKey, PendingKey
    <3>2. p \in Unread /\ p.cmd = "Key"
      BY <1>5 DEF DispatchKey, Unread, Types, WireType
    <3>3. p.owner = k
      BY <1>1, <3>1, <3>2 DEF KeyOwners, UnreadFit, KeyTable
    <3>4. DOMAIN answer = {"st", "key"} /\ answer.key = k
      BY <3>3
    <3> HIDE DEF answer
    <3>5. k \in KeyRequests =>
            DOMAIN f = {"st", "key"} /\ (f.st = "ok" => f.key = k)
      BY <3>4 DEF KeysFit, KeyFutures
    <3> HIDE DEF f
    <3>6. /\ akey'.seq = akey.seq /\ akey'.pending = Drop(akey.pending, p.seq)
          /\ akey'.fut = [akey.fut EXCEPT ![k] = f]
      BY <3>1 DEF SeqType
    <3>7. KeyFutures'
      BY <3>5, <3>6 DEF KeysFit, KeyFutures
    <3>8. KeyTable(who)'
      BY <1>1, <3>6 DEF KeyOwners, KeyTable, Drop
    <3>9. QED
      BY <3>6, <3>7, <3>8
  <2>3. QED
    BY <2>1, <2>2
<1>6. CASE UNCHANGED akey /\ \A k \in KeyRequests : ~KeyRequest(k)
  BY <1>1, <1>3, <1>6 DEF KeysFit, KeyFutures, KeyOwners, KeyTable
<1>7. CASE ~\E k \in KeyRequests : KeyRequest(k)
  <2>1. \/ UNCHANGED akey
        \/ DispatchKey
        \/ \E k \in KeyRequests : KeyTimeout(k)
    BY <1>7
    DEF SessionNext, sessionVars, Dial, Authenticate, ConnectAtOnce,
        ShutdownCall, SenderFails, Shutdown, MercuryRequest, ListenFor,
        SubscriberDropped, ChannelAllocate, ChannelPoll, ConnectionCloses,
        Tick, Wake, DispatchKeepAlive, DispatchChunk, DispatchMercury,
        FinishMercury, StreamEnds, PollTimer, ServerSends
  <2>2. QED
    BY <1>3, <1>4, <1>5, <1>6, <1>7, <2>1
<1>8. QED
  BY <1>2, <1>7

-----------------------------------------------------------------------------
(* Mercury.  An entry is in the table or held between the two locks, and a *)
(* request that waits has one; what has been shut down leaves only entries *)
(* that were put back.                                                     *)

EntryOf(e, r) ==
  /\ DOMAIN e = {"owner", "parts"} /\ e.owner = r
  /\ e.parts \in Seq(Owner) /\ \A j \in 1..Len(e.parts) : e.parts[j] = r
MercuryTable(who) ==
  \A i \in DOMAIN merc.pending :
    i \in Nat /\ i < merc.seq /\ EntryOf(merc.pending[i], who[i])
HeldAnswer == se.phase = "held" /\ merc.held.packet.cmd = "Mercury"
MercuryHeld(who) ==
  se.phase = "held" =>
    /\ DOMAIN merc.held = {"seq", "entry", "packet"}
    /\ merc.held.packet \in Packets
    /\ merc.held.packet.cmd \in {"Mercury", "Event"}
    /\ merc.held.packet.cmd = "Event" => merc.held.packet.part = "last"
    /\ merc.held.packet.cmd = "Mercury" =>
         /\ merc.held.seq \in Nat /\ merc.held.seq < merc.seq
         /\ merc.held.seq \notin DOMAIN merc.pending
         /\ EntryOf(merc.held.entry, who[merc.held.seq])
         /\ merc.held.entry.parts # <<>>
MercuryFutures ==
  /\ DOMAIN merc.fut = Requests
  /\ \A r \in Requests :
       /\ DOMAIN merc.fut[r] = {"st", "parts"}
       /\ merc.fut[r].st = "ok" =>
            /\ merc.fut[r].parts \in Seq(Owner) /\ merc.fut[r].parts # <<>>
            /\ \A j \in 1..Len(merc.fut[r].parts) : merc.fut[r].parts[j] = r
Waiting ==
  \A r \in Requests : merc.fut[r].st = "waiting" =>
    \/ \E i \in DOMAIN merc.pending : merc.pending[i].owner = r
    \/ HeldAnswer /\ merc.held.entry.owner = r
PutBack ==
  merc.invalid => \A i \in DOMAIN merc.pending : merc.pending[i].parts # <<>>
MercuryOwners(who) ==
  /\ AsksFit("mercury", merc.seq, who)
  /\ UnreadFit("Mercury", merc.seq, who)
  /\ MercuryTable(who)
  /\ MercuryHeld(who)

MercuryFits ==
  /\ EventsFit /\ MercuryFutures /\ Waiting /\ PutBack
  /\ \E who \in [Nat -> Owner] : MercuryOwners(who)

LEMMA EventsKept ==
  ASSUME Types, EventsFit, [SessionNext]_sessionVars
  PROVE  EventsFit'
BY UnreadStep DEF EventsFit, Backed

\* The wire fits as long as no request is made.
LEMMA MercuryWire ==
  ASSUME Types, [SessionNext]_sessionVars, NEW who \in [Nat -> Owner],
         MercuryOwners(who), \A r \in Requests : ~MercuryRequest(r),
         UNCHANGED merc.seq, EventsFit, MercuryFutures', Waiting', PutBack',
         MercuryTable(who)', MercuryHeld(who)'
  PROVE  MercuryFits'
<1> merc.seq \in Nat
  BY DEF Types, SeqType
<1>1. \A a \in net'.asked : a.kind = "mercury" => a \in net.asked
  BY AskStep
<1>2. AsksFit("mercury", merc.seq, who)'
  BY <1>1 DEF AsksFit, MercuryOwners
<1>3. UnreadFit("Mercury", merc.seq, who)'
  <2>1. \A p \in Unread' : p.cmd = "Mercury" =>
           p.seq \in Nat /\ p.seq < merc.seq /\ p.owner = who[p.seq]
    BY UnreadFits DEF MercuryOwners
  <2>2. QED
    BY <2>1 DEF UnreadFit
<1>4. QED
  BY <1>2, <1>3, EventsKept DEF MercuryFits, MercuryOwners

LEMMA MercuryRequestFits ==
  ASSUME Types, MercuryFits, NEW who \in [Nat -> Owner], MercuryOwners(who),
         NEW r \in Requests, MercuryRequest(r)
  PROVE  MercuryFits'
<1> DEFINE entry == [NoEntry EXCEPT !.owner = r]
           st == IF merc.invalid \/ ~CanSend THEN "failed" ELSE "waiting"
<1> SeqType /\ merc.seq \in Nat /\ merc.seq + 1 \in Nat
  BY DEF Types, SeqType
<1>1. /\ merc'.seq = merc.seq + 1
      /\ merc'.pending = IF merc.invalid THEN merc.pending
                         ELSE Put(merc.pending, merc.seq, entry)
      /\ merc'.fut = [merc.fut EXCEPT ![r].st = st]
      /\ UNCHANGED <<merc.held, merc.invalid, se>>
  BY DEF MercuryRequest, InsertPending, SeqType
<1>1a. EntryOf(entry, r) /\ entry.owner = r
  BY DEF NoEntry, EntryOf
<1> HIDE DEF entry
<1>2. PICK who2 \in [Nat -> Owner] :
        /\ who2[merc.seq] = r
        /\ \A i \in Nat : i < merc.seq => who2[i] = who[i]
  <2> DEFINE w == [who EXCEPT ![merc.seq] = r]
  <2>1. /\ w \in [Nat -> Owner] /\ w[merc.seq] = r
        /\ \A i \in Nat : i < merc.seq => w[i] = who[i]
    BY DEF Owner
  <2> HIDE DEF w
  <2>2. QED
    BY <2>1
<1>3. UnreadFit("Mercury", merc.seq, who2)'
  <2>1. \A p \in Unread' : p.cmd = "Mercury" =>
           p.seq \in Nat /\ p.seq < merc.seq + 1 /\ p.owner = who2[p.seq]
    BY <1>2, UnreadFits DEF MercuryOwners, SessionNext
  <2>2. QED
    BY <1>1, <2>1 DEF UnreadFit
<1>4. AsksFit("mercury", merc.seq, who2)'
  <2> SUFFICES ASSUME NEW a \in net'.asked, a.kind = "mercury"
               PROVE  a.seq < merc.seq + 1 /\ a.owner = who2[a.seq]
    BY <1>1 DEF AsksFit
  <2>1. CASE a \in net.asked
    <3>1. a.seq \in Nat
      BY <2>1 DEF Types, WireType, Asks
    <3>2. a.seq < merc.seq /\ a.owner = who[a.seq]
      BY <2>1 DEF MercuryOwners, AsksFit
    <3>3. QED
      BY <1>2, <3>1, <3>2
  <2>2. CASE a = [kind |-> "mercury", seq |-> merc.seq, owner |-> r]
    BY <1>2, <2>2
  <2>3. \/ a \in net.asked
        \/ a = [kind |-> "mercury", seq |-> merc.seq, owner |-> r]
    BY DEF MercuryRequest, Ask, Types, WireType
  <2>4. QED
    BY <2>1, <2>2, <2>3
<1>5. MercuryTable(who2)'
  <2>1. \A i \in DOMAIN merc.pending :
          i \in Nat /\ i < merc.seq /\ EntryOf(merc.pending[i], who2[i])
    BY <1>2 DEF MercuryOwners, MercuryTable
  <2>2. \A i \in DOMAIN merc'.pending :
          i \in Nat /\ i < merc.seq + 1 /\ EntryOf(merc'.pending[i], who2[i])
    BY <1>1, <1>1a, <1>2, <2>1 DEF Put
  <2>3. QED
    BY <1>1, <2>2 DEF MercuryTable, EntryOf
<1>6. MercuryHeld(who2)'
  <2>1. HeldAnswer => merc.held.seq \notin DOMAIN merc'.pending
    BY <1>1 DEF MercuryOwners, MercuryHeld, HeldAnswer, Put
  <2>2. HeldAnswer => who2[merc.held.seq] = who[merc.held.seq]
    BY <1>2 DEF MercuryOwners, MercuryHeld, HeldAnswer
  <2>3. QED
    BY <1>1, <2>1, <2>2 DEF MercuryOwners, MercuryHeld, HeldAnswer, EntryOf
<1>7. MercuryFutures' /\ merc'.fut[r].st = st
      /\ \A q \in Requests \ {r} : merc'.fut[q] = merc.fut[q]
  BY <1>1 DEF MercuryFits, MercuryFutures
<1>8. /\ \A i \in DOMAIN merc.pending : /\ i \in DOMAIN merc'.pending
                                        /\ merc'.pending[i] = merc.pending[i]
      /\ ~merc.invalid => /\ merc.seq \in DOMAIN merc'.pending
                          /\ merc'.pending[merc.seq].owner = r
  BY <1>1, <1>1a DEF Put, MercuryOwners, MercuryTable
<1>9. Waiting'
  BY <1>1, <1>7, <1>8 DEF MercuryFits, Waiting, HeldAnswer
<1>10. PutBack'
  BY <1>1 DEF MercuryFits, PutBack
<1>11. EventsFit'
  BY EventsKept DEF MercuryFits, SessionNext
<1>12. QED
  BY <1>2, <1>3, <1>4, <1>5, <1>6, <1>7, <1>9, <1>10, <1>11
  DEF MercuryFits, MercuryOwners

\* The part of the invariant that a step leaves alone when it leaves alone
\* what Mercury keeps.
LEMMA MercuryIdle ==
  ASSUME Types, MercuryFits, [SessionNext]_sessionVars,
         \A r \in Requests : ~MercuryRequest(r),
         UNCHANGED <<merc.seq, merc.pending, merc.held, merc.fut,
                     merc.invalid>>,
         se'.phase = se.phase \/ (se.phase # "held" /\ se'.phase # "held")
  PROVE  MercuryFits'
<1>1. PICK who \in [Nat -> Owner] : MercuryOwners(who)
  BY DEF MercuryFits
<1>2. MercuryTable(who)' /\ MercuryHeld(who)'
  BY <1>1 DEF MercuryOwners, MercuryTable, MercuryHeld, EntryOf
<1>3. MercuryFutures' /\ Waiting' /\ PutBack'
  BY DEF MercuryFits, MercuryFutures, Waiting, PutBack, HeldAnswer
<1>4. QED
  BY <1>1, <1>2, <1>3, MercuryWire DEF MercuryFits

LEMMA MercuryShutdownFits ==
  ASSUME Types, MercuryFits, [SessionNext]_sessionVars,
         \A r \in Requests : ~MercuryRequest(r), merc' = MercuryShutdown(merc),
         se'.phase = se.phase \/ (se.phase # "held" /\ se'.phase # "held")
  PROVE  MercuryFits'
<1> SeqType
  BY DEF Types
<1>1. PICK who \in [Nat -> Owner] : MercuryOwners(who)
  BY DEF MercuryFits
<1> DEFINE told == Owners(merc.pending)
<1>2. /\ UNCHANGED <<merc.seq, merc.held>> /\ merc'.pending = <<>>
      /\ merc'.fut = [r \in Requests |->
           IF r \in told /\ merc.fut[r].st = "waiting"
           THEN [merc.fut[r] EXCEPT !.st = "failed"] ELSE merc.fut[r]]
  BY DEF MercuryShutdown, SeqType
<1>3. DOMAIN merc'.pending = {}
  BY <1>2
<1>4. MercuryTable(who)' /\ PutBack'
  BY <1>3 DEF MercuryTable, PutBack
<1>5. MercuryHeld(who)'
  BY <1>1, <1>2, <1>3 DEF MercuryOwners, MercuryHeld, EntryOf
<1>6. \A r \in Requests : \/ merc'.fut[r] = merc.fut[r]
                          \/ merc'.fut[r] = [merc.fut[r] EXCEPT !.st = "failed"]
  BY <1>2
<1>7. MercuryFutures'
  <2>1. DOMAIN merc'.fut = Requests
    BY <1>2
  <2>2. ASSUME NEW r \in Requests
        PROVE  /\ DOMAIN merc'.fut[r] = {"st", "parts"}
               /\ merc'.fut[r].st = "ok" => merc'.fut[r] = merc.fut[r]
    BY <1>6 DEF MercuryFits, MercuryFutures
  <2>3. QED
    BY <2>1, <2>2 DEF MercuryFits, MercuryFutures
<1>8. Waiting'
  <2> SUFFICES ASSUME NEW r \in Requests, merc'.fut[r].st = "waiting"
               PROVE  HeldAnswer' /\ merc'.held.entry.owner = r
    BY DEF Waiting
  <2>1. merc.fut[r].st = "waiting" /\ r \notin told
    <3>1. DOMAIN merc.fut[r] = {"st", "parts"}
      BY DEF MercuryFits, MercuryFutures
    <3>2. QED
      BY <1>2, <3>1
  <2>2. ~\E i \in DOMAIN merc.pending : merc.pending[i].owner = r
    BY <2>1 DEF Owners
  <2>3. HeldAnswer /\ merc.held.entry.owner = r
    BY <2>1, <2>2 DEF MercuryFits, Waiting
  <2>4. QED
    BY <1>2, <2>3 DEF HeldAnswer
<1>9. QED
  BY <1>1, <1>2, <1>4, <1>5, <1>7, <1>8, MercuryWire DEF MercuryFits

LEMMA DispatchMercuryFits ==
  ASSUME Types, MercuryFits, DispatchMercury
  PROVE  MercuryFits'
<1> SeqType /\ SeType
  BY DEF Types
<1> DEFINE p == Head(stream)
           known == p.seq \in DOMAIN merc.pending
           entry == IF known THEN merc.pending[p.seq] ELSE NoEntry
           longer == [entry EXCEPT !.parts = Append(@, p.owner)]
<1>1. PICK who \in [Nat -> Owner] : MercuryOwners(who)
  BY DEF MercuryFits
<1>2. /\ p \in Unread /\ p \in Packets /\ p.cmd \in {"Mercury", "Event"}
      /\ se.phase = "drain"
  BY DEF DispatchMercury, Unread, Types, WireType
<1>3. [SessionNext]_sessionVars
  BY DEF SessionNext
<1>3a. \A r \in Requests : ~MercuryRequest(r)
  <2>1. stream' # stream
    BY DEF DispatchMercury, Types, WireType
  <2>2. QED
    BY <2>1 DEF MercuryRequest
<1>4. CASE UNCHANGED <<se, merc>>
  BY <1>3, <1>3a, <1>4, MercuryIdle
<1>5. CASE known \/ p.cmd = "Event"
  <2>1. /\ UNCHANGED <<merc.seq, merc.fut, merc.invalid>>
        /\ merc'.pending = Drop(merc.pending, p.seq)
        /\ merc'.held = Held(p.seq, longer, p)
        /\ se'.phase = "held"
    BY <1>5 DEF DispatchMercury, SeqType, SeType
  <2>2. p.cmd = "Event" => ~known /\ p.part = "last"
    BY <1>1, <1>2
    DEF MercuryFits, EventsFit, MercuryOwners, MercuryTable
  <2>3. p.cmd = "Mercury" =>
          /\ p.seq \in Nat /\ p.seq < merc.seq /\ p.owner = who[p.seq]
          /\ EntryOf(entry, who[p.seq]) /\ known
    BY <1>1, <1>2, <1>5 DEF MercuryOwners, UnreadFit, MercuryTable
  <2> HIDE DEF entry
  <2>4. p.cmd = "Mercury" => EntryOf(longer, who[p.seq]) /\ longer.parts # <<>>
    <3> SUFFICES ASSUME p.cmd = "Mercury"
                 PROVE  EntryOf(longer, who[p.seq]) /\ longer.parts # <<>>
      OBVIOUS
    <3>1. /\ DOMAIN longer = {"owner", "parts"} /\ longer.owner = who[p.seq]
          /\ longer.parts = Append(entry.parts, p.owner)
      BY <2>3 DEF EntryOf
    <3>2. entry.parts \in Seq(Owner) /\ p.owner \in Owner
      BY <1>2, <2>3 DEF EntryOf, Packets
    <3>3. /\ longer.parts \in Seq(Owner) /\ longer.parts # <<>>
          /\ \A j \in 1..Len(longer.parts) :
               \/ longer.parts[j] = p.owner
               \/ j \in 1..Len(entry.parts) /\ longer.parts[j] = entry.parts[j]
      BY <3>1, <3>2
    <3>4. QED
      BY <2>3, <3>1, <3>3 DEF EntryOf
  <2>5. /\ DOMAIN merc'.pending = DOMAIN merc.pending \ {p.seq}
        /\ \A i \in DOMAIN merc'.pending : merc'.pending[i] = merc.pending[i]
    BY <2>1 DEF Drop
  <2> HIDE DEF longer
  <2>6. /\ DOMAIN merc'.held = {"seq", "entry", "packet"}
        /\ merc'.held.seq = p.seq /\ merc'.held.entry = longer
        /\ merc'.held.packet = p
    BY <2>1 DEF Held
  <2> HIDE DEF p
  <2>7. MercuryTable(who)'
    BY <1>1, <2>1, <2>5 DEF MercuryOwners, MercuryTable, EntryOf
  <2>8. MercuryHeld(who)'
    <3>1. p.seq \notin DOMAIN merc'.pending
      BY <2>5
    <3>2. QED
      BY <1>2, <2>1, <2>2, <2>3, <2>4, <2>6, <3>1 DEF MercuryHeld, EntryOf
  <2>9. MercuryFutures' /\ PutBack'
    BY <2>1, <2>5 DEF MercuryFits, MercuryFutures, PutBack
  <2>10. Waiting'
    <3> SUFFICES ASSUME NEW r \in Requests, merc.fut[r].st = "waiting"
                 PROVE  \/ \E i \in DOMAIN merc'.pending : merc'.pending[i].owner = r
                        \/ HeldAnswer' /\ merc'.held.entry.owner = r
      BY <2>1 DEF Waiting
    <3>1. PICK i \in DOMAIN merc.pending : merc.pending[i].owner = r
      BY <1>2 DEF MercuryFits, Waiting, HeldAnswer
    <3>2. CASE i # p.seq
      BY <2>5, <3>1, <3>2
    <3>3. CASE i = p.seq
      <4>1. p.cmd = "Mercury"
        BY <1>2, <2>2, <3>3
      <4>2. who[p.seq] = r
        BY <1>1, <3>1, <3>3 DEF MercuryOwners, MercuryTable, EntryOf
      <4>3. QED
        BY <2>1, <2>4, <2>6, <4>1, <4>2 DEF HeldAnswer, EntryOf
    <3>4. QED
      BY <3>2, <3>3
  <2>11. QED
    BY <1>1, <1>3, <1>3a, <2>1, <2>7, <2>8, <2>9, <2>10, MercuryWire
    DEF MercuryFits
<1>6. QED
  BY <1>2, <1>4, <1>5 DEF DispatchMercury

LEMMA FinishMercuryFits ==
  ASSUME Types, MercuryFits, FinishMercury
  PROVE  MercuryFits'
<1> SeqType /\ SeType
  BY DEF Types
<1> DEFINE h == merc.held
           r == h.entry.owner
           answer == [st |-> IF h.packet.status = "ok" THEN "ok" ELSE "failed",
                      parts |-> h.entry.parts]
           f == IF merc.fut[r].st # "waiting" THEN merc.fut[r] ELSE answer
<1>1. PICK who \in [Nat -> Owner] : MercuryOwners(who)
  BY DEF MercuryFits
<1>2. se.phase = "held" /\ se'.phase = "drain"
  BY DEF FinishMercury, SeType
<1>3. [SessionNext]_sessionVars /\ \A q \in Requests : ~MercuryRequest(q)
  BY <1>2 DEF SessionNext, MercuryRequest
<1>4. MercuryHeld(who)'
  BY <1>2 DEF MercuryHeld
<1>5. /\ h.packet.cmd \in {"Mercury", "Event"}
      /\ h.packet.part \in {"more", "last"}
      /\ h.packet.cmd = "Event" => h.packet.part = "last"
      /\ h.packet.cmd = "Mercury" =>
           /\ h.seq \in Nat /\ h.seq < merc.seq /\ h.seq \notin DOMAIN merc.pending
           /\ EntryOf(h.entry, who[h.seq]) /\ h.entry.parts # <<>>
  BY <1>1, <1>2 DEF MercuryOwners, MercuryHeld, Packets
<1>6. CASE h.packet.cmd = "Event"
  <2>1. UNCHANGED <<merc.seq, merc.pending, merc.fut, merc.invalid>>
    BY <1>5, <1>6 DEF FinishMercury, CompleteRequest, SeqType
  <2>2. MercuryTable(who)' /\ MercuryFutures' /\ PutBack'
    BY <1>1, <2>1 DEF MercuryOwners, MercuryTable, MercuryFits,
                      MercuryFutures, PutBack, EntryOf
  <2>3. Waiting'
    BY <1>6, <2>1 DEF MercuryFits, Waiting, HeldAnswer
  <2>4. QED
    BY <1>1, <1>3, <1>4, <2>1, <2>2, <2>3, MercuryWire DEF MercuryFits
<1>7. CASE h.packet.cmd = "Mercury" /\ h.packet.part = "more"
  <2>1. /\ UNCHANGED <<merc.seq, merc.fut, merc.invalid>>
        /\ merc'.pending = Put(merc.pending, h.seq, h.entry)
    BY <1>7 DEF FinishMercury, SeqType
  <2> HIDE DEF h
  <2>2. /\ DOMAIN merc'.pending = DOMAIN merc.pending \cup {h.seq}
        /\ \A i \in DOMAIN merc.pending : merc'.pending[i] = merc.pending[i]
        /\ merc'.pending[h.seq] = h.entry
    BY <1>5, <1>7, <2>1 DEF Put
  <2>3. MercuryTable(who)'
    BY <1>1, <1>5, <1>7, <2>1, <2>2
    DEF MercuryOwners, MercuryTable, EntryOf
  <2>4. MercuryFutures' /\ PutBack'
    BY <1>5, <1>7, <2>1, <2>2 DEF MercuryFits, MercuryFutures, PutBack
  <2>5. Waiting'
    <3> SUFFICES ASSUME NEW q \in Requests, merc.fut[q].st = "waiting"
                 PROVE  \E i \in DOMAIN merc'.pending : merc'.pending[i].owner = q
      BY <2>1 DEF Waiting
    <3>1. \/ \E i \in DOMAIN merc.pending : merc.pending[i].owner = q
          \/ h.entry.owner = q
      BY DEF MercuryFits, Waiting, h
    <3>2. QED
      BY <2>2, <3>1
  <2>6. QED
    BY <1>1, <1>3, <1>4, <2>1, <2>3, <2>4, <2>5, MercuryWire DEF MercuryFits
<1>8. CASE h.packet.cmd = "Mercury" /\ h.packet.part = "last"
  <2>1. /\ UNCHANGED <<merc.seq, merc.pending, merc.invalid>>
        /\ merc'.fut = [merc.fut EXCEPT ![r] = f]
    BY <1>8 DEF FinishMercury, CompleteRequest, SeqType
  <2>2. /\ DOMAIN answer = {"st", "parts"} /\ answer.st \in {"ok", "failed"}
        /\ answer.parts = h.entry.parts
    OBVIOUS
  <2>3. /\ answer.parts \in Seq(Owner) /\ answer.parts # <<>>
        /\ \A j \in 1..Len(answer.parts) : answer.parts[j] = r
    BY <1>5, <1>8, <2>2 DEF EntryOf
  <2> HIDE DEF answer
  <2>4. r \in Requests =>
          /\ DOMAIN f = {"st", "parts"} /\ f.st # "waiting"
          /\ f.st = "ok" => /\ f.parts \in Seq(Owner) /\ f.parts # <<>>
                            /\ \A j \in 1..Len(f.parts) : f.parts[j] = r
    BY <2>2, <2>3 DEF MercuryFits, MercuryFutures
  <2>4a. DOMAIN merc.fut = Requests
    BY DEF MercuryFits, MercuryFutures
  <2> HIDE DEF f, r
  <2>5. /\ DOMAIN merc'.fut = DOMAIN merc.fut
        /\ \A q \in Requests :
             merc'.fut[q] = IF q = r THEN f ELSE merc.fut[q]
    BY <2>1, <2>4a
  <2>6. MercuryFutures'
    BY <2>4, <2>5 DEF MercuryFits, MercuryFutures
  <2>7. MercuryTable(who)' /\ PutBack'
    BY <1>1, <2>1 DEF MercuryOwners, MercuryTable, MercuryFits, PutBack, EntryOf
  <2>8. Waiting'
    <3> SUFFICES ASSUME NEW q \in Requests, merc'.fut[q].st = "waiting"
                 PROVE  \E i \in DOMAIN merc.pending : merc.pending[i].owner = q
      BY <2>1 DEF Waiting
    <3>1. q # r /\ merc.fut[q].st = "waiting"
      BY <2>4, <2>5
    <3>2. QED
      BY <3>1 DEF MercuryFits, Waiting, r
  <2>9. QED
    BY <1>1, <1>3, <1>4, <2>1, <2>6, <2>7, <2>8, MercuryWire DEF MercuryFits
<1>9. QED
  BY <1>5, <1>6, <1>7, <1>8

LEMMA MercuryKept ==
  ASSUME Types, Deadlines, MercuryFits, [SessionNext]_sessionVars
  PROVE  MercuryFits'
<1> SeqType /\ SeType
  BY DEF Types
<1> USE DEF SeType
<1> DEFINE calm == \A r \in Requests : ~MercuryRequest(r)
           phaseKept == \/ se'.phase = se.phase
                        \/ se.phase # "held" /\ se'.phase # "held"
           tableKept == UNCHANGED <<merc.seq, merc.pending, merc.held,
                                    merc.fut, merc.invalid>>
<1>1. ASSUME NEW r \in Requests, MercuryRequest(r) PROVE MercuryFits'
  BY <1>1, MercuryRequestFits DEF MercuryFits
<1>2. CASE calm /\ phaseKept /\ tableKept
  BY <1>2, MercuryIdle
<1>3. CASE calm /\ phaseKept /\ merc' = MercuryShutdown(merc)
  BY <1>3, MercuryShutdownFits
<1>4. CASE calm
  <2> USE <1>4
  <2>1. CASE DispatchMercury \/ FinishMercury
    BY <2>1, DispatchMercuryFits, FinishMercuryFits
  <2>2. CASE Dial \/ Authenticate \/ ConnectAtOnce
    <3>1. tableKept
      BY <2>2 DEF Dial, Authenticate, ConnectAtOnce
    <3>2. CASE Dial
      BY <1>2, <3>1, <3>2 DEF Dial, LoginError
    <3>3. CASE Authenticate \/ ConnectAtOnce
      <4>1. se.phase = "none"
        BY <3>3 DEF Authenticate, ConnectAtOnce, Deadlines
      <4>2. se'.phase # "held"
        BY <3>3, <4>1
        DEF Authenticate, ConnectAtOnce, Connected, LoginError
      <4>3. QED
        BY <1>2, <3>1, <4>1, <4>2
    <3>4. QED
      BY <2>2, <3>2, <3>3
  <2>3. ASSUME NEW a \in Shutters, Shutdown(a) PROVE MercuryFits'
    <3>1. /\ phaseKept
          /\ tableKept \/ merc' = MercuryShutdown(merc)
      BY <2>3 DEF Shutdown
    <3>2. QED
      BY <1>2, <1>3, <3>1
  <2>4. CASE ShutdownCall \/ SenderFails \/ StreamEnds \/ PollTimer
    <3>1. tableKept
      BY <2>4 DEF ShutdownCall, SenderFails, StreamEnds, PollTimer
    <3>2. phaseKept
      BY <2>4, Calls DEF PollTimer, Timer, CallUnlessInvalid
    <3>3. QED
      BY <1>2, <3>1, <3>2
  <2>6. ASSUME NEW s \in Subscribers, ListenFor(s) \/ SubscriberDropped(s)
        PROVE  MercuryFits'
    BY <1>2, <2>6 DEF ListenFor, SubscriberDropped, SeqType
  <2>7. CASE ServerSends \/ Tick \/ Wake \/ DispatchKeepAlive
    BY <1>2, <2>7 DEF ServerSends, Tick, Wake, DispatchKeepAlive, KeepAlive
  <2>8. CASE UNCHANGED <<se, merc>>
    BY <1>2, <2>8
  <2>9. QED
    BY <2>1, <2>2, <2>3, <2>4, <2>6, <2>7, <2>8
    DEF SessionNext, sessionVars, KeyRequest, KeyTimeout, ChannelAllocate,
        ChannelPoll, ConnectionCloses, DispatchKey, DispatchChunk
<1>5. QED
  BY <1>1, <1>4

-----------------------------------------------------------------------------

\* The managers' tables, the wire and the callers agree about who waits for
\* which number, however answers are delayed, split, late or never asked for.
THEOREM AnswersInvariant == SessionSpec => [](KeysFit /\ MercuryFits)
<1>1. SessionInit => KeysFit /\ MercuryFits
  <2> SUFFICES ASSUME SessionInit PROVE KeysFit /\ MercuryFits
    OBVIOUS
  <2>1. PICK who : who \in [Nat -> Owner]
    <3>1. [i \in Nat |-> "server"] \in [Nat -> Owner]
      BY DEF Owner
    <3>2. QED
      BY <3>1
  <2>2. /\ Unread = {} /\ net.asked = {} /\ se.phase = "none"
        /\ DOMAIN merc.pending = {} /\ DOMAIN akey.pending = {}
    BY DEF SessionInit, Unread
  <2>3. KeyFutures
    BY DEF SessionInit, KeyFutures
  <2>4. KeyOwners(who)
    BY <2>2 DEF KeyOwners, AsksFit, UnreadFit, KeyTable
  <2>5. MercuryFutures /\ Waiting
    <3>1. merc.fut = [r \in Requests |-> [st |-> "idle", parts |-> <<>>]]
      BY DEF SessionInit
    <3>2. /\ DOMAIN merc.fut = Requests
          /\ \A r \in Requests : /\ DOMAIN merc.fut[r] = {"st", "parts"}
                                 /\ merc.fut[r].st = "idle"
      BY <3>1
    <3>3. QED
      BY <3>2 DEF MercuryFutures, Waiting
  <2>6. EventsFit /\ PutBack
    BY <2>2 DEF EventsFit, PutBack
  <2>7. MercuryOwners(who)
    BY <2>2 DEF MercuryOwners, AsksFit, UnreadFit, MercuryTable, MercuryHeld
  <2>8. QED
    BY <2>1, <2>3, <2>4, <2>5, <2>6, <2>7 DEF KeysFit, MercuryFits
<1>2. Types /\ Deadlines /\ KeysFit /\ MercuryFits /\ [SessionNext]_sessionVars
        => (KeysFit /\ MercuryFits)'
  BY KeysKept, MercuryKept
<1>3. QED
  BY <1>1, <1>2, TypesHold, DeadlinesHold, PTL DEF SessionSpec

\* MercuryManager::dispatch and AudioKeyManager::dispatch: an answer reaches
\* the request it was sent for and no other, in as many parts as it came in.
THEOREM AnswersReachTheirRequests == SessionSpec => []AnswersFitRequests
<1>1. KeysFit /\ MercuryFits => AnswersFitRequests
  <2> SUFFICES ASSUME KeyFutures, MercuryFutures
               PROVE  AnswersFitRequests
    BY DEF KeysFit, MercuryFits
  <2>1. ASSUME NEW r \in Requests, merc.fut[r].st = "ok"
        PROVE  merc.fut[r].parts # <<>> /\ Range(merc.fut[r].parts) = {r}
    <3> DEFINE f == merc.fut[r].parts
    <3>1. /\ f \in Seq(Owner) /\ f # <<>>
          /\ \A j \in 1..Len(f) : f[j] = r
      BY <2>1 DEF MercuryFutures
    <3> HIDE DEF f
    <3>2. 1 \in DOMAIN f /\ DOMAIN f = 1..Len(f)
      BY <3>1
    <3>3. Range(f) = {r}
      BY <3>1, <3>2 DEF Range
    <3>4. QED
      BY <3>1, <3>3 DEF f
  <2>2. \A k \in KeyRequests : akey.fut[k].st = "ok" => akey.fut[k].key = k
    BY DEF KeyFutures
  <2>3. QED
    BY <2>1, <2>2 DEF AnswersFitRequests
<1>2. QED
  BY <1>1, AnswersInvariant, PTL

\* MercuryManager::shutdown: after it only a request whose answer came in
\* parts, held by dispatch between its two locks, can still be waiting.
THEOREM OnlyHeldAnswersWait == SessionSpec => []OnlyHeldAnswersAreLeft
<1>1. MercuryFits => OnlyHeldAnswersAreLeft
  <2> SUFFICES ASSUME MercuryFits, merc.invalid, NEW r \in Requests,
                      merc.fut[r].st = "waiting"
               PROVE  \/ \E i \in DOMAIN merc.pending :
                           /\ merc.pending[i].owner = r
                           /\ merc.pending[i].parts # <<>>
                      \/ merc.held # NotHeld /\ merc.held.entry.owner = r
    BY DEF OnlyHeldAnswersAreLeft
  <2>1. CASE \E i \in DOMAIN merc.pending : merc.pending[i].owner = r
    BY <2>1 DEF MercuryFits, PutBack
  <2>2. CASE HeldAnswer /\ merc.held.entry.owner = r
    <3>1. DOMAIN merc.held = {"seq", "entry", "packet"}
      BY <2>2 DEF MercuryFits, MercuryOwners, MercuryHeld, HeldAnswer
    <3>2. DOMAIN NotHeld = {"seq"}
      BY DEF NotHeld
    <3>3. QED
      BY <2>2, <3>1, <3>2
  <2>3. QED
    BY <2>1, <2>2 DEF MercuryFits, Waiting
<1>2. QED
  BY <1>1, AnswersInvariant, PTL
=============================================================================
