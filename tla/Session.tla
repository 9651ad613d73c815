------------------------------ MODULE Session ------------------------------
(***************************************************************************)
(* The session with the access point (core/src/session.rs): logging in, the*)
(* task that dispatches the server's packets and keeps the connection      *)
(* alive, and the managers that wait for answers: Mercury requests and     *)
(* subscriptions (mercury/mod.rs), channels (channel.rs) and audio keys    *)
(* (audio_key.rs).                                                         *)
(*                                                                         *)
(* The managers are called from any thread, each locks only its own table. *)
(* Mercury's dispatch locks twice and shutdown three times: two steps and  *)
(* three steps here.  Time is counted in ticks of 20 seconds; a tick waits *)
(* for the deadline that is due.                                           *)
(***************************************************************************)
EXTENDS Integers, Sequences, SequencesExt, FiniteSets, FiniteSetsExt

CONSTANTS Requests,       \* Mercury requests that may be made
          Subscribers,    \* Mercury subscriptions that may be made
          KeyRequests,    \* audio keys that may be asked for
          Channels,       \* channels that may be allocated
          ChannelIds,     \* how many ids a channel may have (2^16)
          MaxTries,       \* MAX_AP_TRIES
          MaxPackets,     \* bound: packets the server sends
          SessionScenes   \* the kinds of steps that occur together

ASSUME IdsAssumption == ChannelIds \in Nat \ {0}

VARIABLES se,      \* SessionInternal, the two tasks, the connection
          merc,    \* MercuryManagerInner and its callers
          akey,    \* AudioKeyManagerInner and its callers
          chan,    \* ChannelManagerInner and the channels
          stream,  \* packets of the server that have not been read
          net,     \* what the server has been asked and has sent
          acts     \* the kinds of steps of this behaviour

sessionVars == <<se, merc, akey, chan, stream, net, acts>>

\* Who may call shutdown: the program, the task that writes packets, and the
\* task that dispatches them.
Shutters == {"program", "sender", "dispatch"}

NoEntry == [owner |-> "none", parts |-> <<>>]
Held(seq, entry, p) == [seq |-> seq, entry |-> entry, packet |-> p]
NotHeld == [seq |-> -1]

SessionInit ==
  /\ se = [login |-> "begin", tries |-> 0, retried |-> FALSE, token |-> TRUE,
           invalid |-> FALSE, sender |-> "none", phase |-> "none",
           keepAlive |-> "ExpectingPing", left |-> 1, quiet |-> 0,
           shutting |-> [a \in Shutters |-> "no"]]
  /\ merc = [seq |-> 0, pending |-> <<>>, subs |-> {}, invalid |-> FALSE,
             held |-> NotHeld,
             fut |-> [r \in Requests |-> [st |-> "idle", parts |-> <<>>]],
             rx |-> [s \in Subscribers |-> "idle"]]
  /\ akey = [seq |-> 0, pending |-> <<>>,
             fut |-> [k \in KeyRequests |-> [st |-> "idle", key |-> "none"]]]
  /\ chan = [seq |-> 0, map |-> <<>>, invalid |-> FALSE,
             ch |-> [c \in Channels |-> [st |-> "idle", q |-> <<>>,
                                         tx |-> FALSE]]]
  /\ stream = <<>>
  /\ net = [asked |-> {}, sent |-> 0, closed |-> FALSE]
  /\ acts \in SessionScenes

Drop(f, x) == [y \in DOMAIN f \ {x} |-> f[y]]
Put(f, x, v) == [y \in DOMAIN f \cup {x} |-> IF y = x THEN v ELSE f[y]]
Owners(f) == {f[x].owner : x \in DOMAIN f}

-----------------------------------------------------------------------------
(* Logging in                                                              *)

LoginError(again) ==
  [se EXCEPT !.tries = @ + 1, !.retried = FALSE,
             !.login = IF again /\ se.tries + 1 < MaxTries
                       THEN "begin" ELSE "failed"]

\* connect_with_retry: one access point is dialled twice.
Dial ==
  /\ "login" \in acts /\ se.login \in {"begin", "again"}
  /\ \/ se' = [se EXCEPT !.login = IF @ = "begin" THEN "dialled"
                                   ELSE "redialled"]
     \/ /\ ~se.retried
        /\ se' = [se EXCEPT !.retried = TRUE]
     \/ /\ se.retried
        /\ se' = LoginError(TRUE)
     \/ /\ se.login = "begin" /\ ~se.retried  \* no access point to be had
        /\ se' = [se EXCEPT !.login = "failed"]
  /\ UNCHANGED <<merc, akey, chan, stream, net, acts>>

Connected(s) == [s EXCEPT !.login = "connected", !.sender = "running",
                          !.phase = "parked"]

\* authenticate: a session that was authenticated by a token is dialled again
\* with the credentials it got.  Only a login that was refused is final.
Authenticate ==
  /\ se.login \in {"dialled", "redialled"}
  /\ \/ se' = IF se.token /\ se.login = "dialled"
              THEN [se EXCEPT !.login = "again", !.retried = FALSE]
              ELSE Connected(se)
     \/ se' = LoginError(TRUE)
     \/ se' = LoginError(FALSE)
  /\ UNCHANGED <<merc, akey, chan, stream, net, acts>>

\* The scenes that are about a session that is up begin with it.
ConnectAtOnce ==
  /\ "login" \notin acts /\ se.login = "begin"
  /\ se' = Connected(se)
  /\ UNCHANGED <<merc, akey, chan, stream, net, acts>>

-----------------------------------------------------------------------------
(* Shutdown.  Whoever waits for a sender that is dropped is told.          *)

MercuryShutdown(m) ==
  LET told == Owners(m.pending)
  IN [m EXCEPT !.invalid = TRUE, !.pending = <<>>, !.subs = {},
               !.fut = [r \in Requests |-> IF r \in told /\ @[r].st = "waiting"
                                           THEN [@[r] EXCEPT !.st = "failed"]
                                           ELSE @[r]],
               !.rx = [s \in Subscribers |-> IF s \in m.subs THEN "ended"
                                             ELSE @[s]]]

ChannelShutdown(h) ==
  [h EXCEPT !.invalid = TRUE, !.map = <<>>,
            !.ch = [c \in Channels |->
                      IF \E i \in DOMAIN h.map : h.map[i] = c
                      THEN [@[c] EXCEPT !.tx = FALSE] ELSE @[c]]]

\* Session::shutdown, called by a: under three locks, one after the other.
Shutdown(a) ==
  /\ \/ /\ se.shutting[a] = "called"
        /\ se' = [se EXCEPT !.invalid = TRUE, !.shutting[a] = "invalid"]
        /\ UNCHANGED <<merc, chan>>
     \/ /\ se.shutting[a] = "invalid"
        /\ se' = [se EXCEPT !.shutting[a] = "mercury"]
        /\ merc' = MercuryShutdown(merc) /\ UNCHANGED chan
     \/ /\ se.shutting[a] = "mercury"
        /\ se' = [se EXCEPT !.shutting[a] = "done"]
        /\ chan' = ChannelShutdown(chan) /\ UNCHANGED merc
  /\ UNCHANGED <<akey, stream, net, acts>>

\* if !session.is_invalid() { session.shutdown() }: nobody holds a lock
\* between the question and the call.
CallUnlessInvalid(s, a) ==
  [s EXCEPT !.shutting[a] = IF s.invalid THEN @ ELSE "called"]

\* Called by the program.
ShutdownCall ==
  /\ "shutdown" \in acts /\ se.login = "connected"
  /\ ~se.invalid /\ se.shutting["program"] = "no"
  /\ se' = CallUnlessInvalid(se, "program")
  /\ UNCHANGED <<merc, akey, chan, stream, net, acts>>

\* The task that writes packets meets a broken connection.
SenderFails ==
  /\ "sender" \in acts /\ se.sender = "running"
  /\ se' = CallUnlessInvalid([se EXCEPT !.sender = "ended"], "sender")
  /\ UNCHANGED <<merc, akey, chan, stream, net, acts>>

-----------------------------------------------------------------------------
(* Requests.  send_packet fails without a connection, after the entry has  *)
(* been made.                                                              *)

CanSend == se.sender = "running"
Ask(x) == net' = IF CanSend THEN [net EXCEPT !.asked = @ \cup {x}] ELSE net

InsertAlways(m, r) ==
  [m EXCEPT !.pending = Put(@, m.seq, [NoEntry EXCEPT !.owner = r]),
            !.fut[r].st = IF CanSend THEN "waiting" ELSE "failed"]

InsertPending(m, r) ==
  [m EXCEPT !.pending = IF m.invalid THEN @
                        ELSE Put(@, m.seq, [NoEntry EXCEPT !.owner = r]),
            !.fut[r].st = IF m.invalid \/ ~CanSend THEN "failed" ELSE "waiting"]

MercuryRequest(r) ==
  /\ "mercury" \in acts /\ merc.fut[r].st = "idle" /\ se.login # "begin"
  /\ merc' = [InsertPending(merc, r) EXCEPT !.seq = @ + 1]
  /\ Ask([kind |-> "mercury", seq |-> merc.seq, owner |-> r])
  /\ UNCHANGED <<se, akey, chan, stream, acts>>

\* listen_for; subscribe does the same when its request has been answered.
ListenFor(s) ==
  /\ acts \cap {"mercury", "listen"} # {}
  /\ merc.rx[s] = "idle" /\ se.login # "begin"
  /\ merc' = IF merc.invalid THEN [merc EXCEPT !.rx[s] = "ended"]
             ELSE [merc EXCEPT !.subs = @ \cup {s}, !.rx[s] = "open"]
  /\ UNCHANGED <<se, akey, chan, stream, net, acts>>

SubscriberDropped(s) ==
  /\ merc.rx[s] = "open"
  /\ merc' = [merc EXCEPT !.rx[s] = "dropped"]
  /\ UNCHANGED <<se, akey, chan, stream, net, acts>>

KeyRequest(k) ==
  /\ "key" \in acts /\ akey.fut[k].st = "idle" /\ se.login # "begin"
  /\ akey' = [akey EXCEPT !.seq = @ + 1,
                !.pending = Put(@, akey.seq, [owner |-> k]),
                !.fut[k].st = IF CanSend THEN "waiting" ELSE "failed"]
  /\ Ask([kind |-> "key", seq |-> akey.seq, owner |-> k])
  /\ UNCHANGED <<se, merc, chan, stream, acts>>

\* KEY_RESPONSE_TIMEOUT; the entry stays.
KeyTimeout(k) ==
  /\ akey.fut[k].st = "waiting"
  /\ akey' = [akey EXCEPT !.fut[k].st = "timed out"]
  /\ UNCHANGED <<se, merc, chan, stream, net, acts>>

AllocateAlways(h, c) ==
  [h EXCEPT !.seq = (@ + 1) % ChannelIds, !.map = Put(@, h.seq, c),
            !.ch[c] = [st |-> "Header", q |-> <<>>, tx |-> TRUE]]

\* The sequence number wraps; the entry it meets is replaced.
Allocate(h, c) ==
  LET old == IF h.seq \in DOMAIN h.map THEN {h.map[h.seq]} ELSE {}
      next == [h EXCEPT !.seq = (@ + 1) % ChannelIds,
                        !.ch[c] = [st |-> "Header", q |-> <<>>,
                                   tx |-> ~h.invalid]]
      all == next.ch
  IN IF h.invalid THEN next
     ELSE [next EXCEPT !.map = Put(@, h.seq, c),
                       !.ch = [d \in Channels |->
                                 IF d \in old THEN [all[d] EXCEPT !.tx = FALSE]
                                 ELSE all[d]]]

ChannelAllocate(c) ==
  /\ "channel" \in acts /\ chan.ch[c].st = "idle" /\ se.login # "begin"
  /\ chan' = Allocate(chan, c)
  /\ Ask([kind |-> "channel", seq |-> chan.seq, owner |-> c])
  /\ UNCHANGED <<se, merc, akey, stream, acts>>

\* The channel's stream: headers, data until an empty packet, an error.
ChannelPoll(c) ==
  LET h == chan.ch[c]
      rest == [h EXCEPT !.q = Tail(@)]
  IN /\ h.st \in {"Header", "Data"} /\ (h.q # <<>> \/ ~h.tx)
     /\ chan' = [chan EXCEPT !.ch[c] =
          IF h.q = <<>> THEN [h EXCEPT !.st = "failed"]
          ELSE IF Head(h.q) = "error" THEN [rest EXCEPT !.st = "Closed"]
          ELSE IF h.st = "Header" THEN [rest EXCEPT !.st = "Data"]
          ELSE IF Head(h.q) = "empty" THEN [rest EXCEPT !.st = "Closed"]
          ELSE rest]
     /\ UNCHANGED <<se, merc, akey, stream, net, acts>>

-----------------------------------------------------------------------------
(* The server                                                              *)

Notice(cmd, seq) == [cmd |-> cmd, seq |-> seq, owner |-> "server",
                     part |-> "last", status |-> "ok"]

AnswerStatuses == [mercury |-> {"ok", "4xx", "5xx"}, key |-> {"ok", "error"},
                   channel |-> {"ok", "empty", "error"}]

\* Only Mercury answers in parts.
AnswersTo(a) ==
  [cmd : {CASE a.kind = "mercury" -> "Mercury" [] a.kind = "key" -> "Key"
            [] OTHER -> "Chunk"},
   seq : {a.seq}, owner : {a.owner}, status : AnswerStatuses[a.kind],
   part : IF a.kind = "mercury" THEN {"more", "last"} ELSE {"last"}]

\* What it may send now.
Sendable ==
  (IF "time" \in acts THEN {Notice("Ping", -1), Notice("PongAck", -1)} ELSE {})
  \cup (IF Subscribers # {} /\ acts \cap {"mercury", "listen"} # {}
        THEN {Notice("Event", -2)} ELSE {})
  \cup UNION {AnswersTo(a) : a \in net.asked}

ServerSends ==
  /\ se.login = "connected" /\ ~net.closed /\ net.sent < MaxPackets
  /\ \E p \in Sendable :
       /\ stream' = Append(stream, p)
       /\ net' = [net EXCEPT !.sent = @ + 1,
            !.asked = IF p.part = "last" /\ p.cmd \in {"Mercury", "Key"}
                      THEN {a \in @ : a.owner # p.owner} ELSE @]
       /\ se' = IF p.cmd \in {"Ping", "PongAck"}
                THEN [se EXCEPT !.quiet = 0] ELSE se
  /\ UNCHANGED <<merc, akey, chan, acts>>

ConnectionCloses ==
  /\ "close" \in acts /\ se.login = "connected" /\ ~net.closed
  /\ net' = [net EXCEPT !.closed = TRUE]
  /\ UNCHANGED <<se, merc, akey, chan, stream, acts>>

Tick ==
  /\ "time" \in acts /\ se.phase = "parked" /\ se.left > 0
  /\ stream = <<>> /\ ~net.closed
  /\ se' = [se EXCEPT !.left = @ - 1, !.quiet = @ + 1]
  /\ UNCHANGED <<merc, akey, chan, stream, net, acts>>

-----------------------------------------------------------------------------
(* DispatchTask                                                            *)

Ready == stream # <<>> \/ net.closed \/ se.left = 0

Wake ==
  /\ se.phase = "parked" /\ Ready
  /\ se' = [se EXCEPT !.phase = "drain"]
  /\ UNCHANGED <<merc, akey, chan, stream, net, acts>>

KeepAlive(s, cmd) ==
  IF cmd = "Ping" THEN [s EXCEPT !.keepAlive = "PendingPong", !.left = 3]
  ELSE [s EXCEPT !.keepAlive = "ExpectingPing", !.left = 4]

DispatchKeepAlive ==
  /\ se.phase = "drain" /\ stream # <<>>
  /\ Head(stream).cmd \in {"Ping", "PongAck"}
  /\ se' = KeepAlive(se, Head(stream).cmd)
  /\ stream' = Tail(stream)
  /\ UNCHANGED <<merc, akey, chan, net, acts>>

AnyPending(a, p) ==
  IF a.pending = <<>> THEN p.seq ELSE Min(DOMAIN a.pending)

\* Where the answer's sequence number is looked up.
PendingKey(a, p) == p.seq

DispatchKey ==
  /\ se.phase = "drain" /\ stream # <<>> /\ Head(stream).cmd = "Key"
  /\ LET p == Head(stream)
         seq == PendingKey(akey, p)
         k == akey.pending[seq].owner
     IN akey' = IF seq \notin DOMAIN akey.pending THEN akey
                ELSE [akey EXCEPT
                  !.pending = Drop(@, seq),
                  !.fut[k] = IF @.st # "waiting" THEN @
                             ELSE [st |-> IF p.status = "ok" THEN "ok"
                                          ELSE "failed", key |-> p.owner]]
  /\ stream' = Tail(stream)
  /\ UNCHANGED <<se, merc, chan, net, acts>>

\* A channel that has been closed refuses the packet, and keeps its entry.
DispatchChunk ==
  /\ se.phase = "drain" /\ stream # <<>> /\ Head(stream).cmd = "Chunk"
  /\ LET p == Head(stream)
         c == chan.map[p.seq]
     IN chan' = IF p.seq \notin DOMAIN chan.map \/ chan.ch[c].st = "Closed"
                THEN chan
                ELSE [chan EXCEPT !.ch[c].q = Append(@, p.status)]
  /\ stream' = Tail(stream)
  /\ UNCHANGED <<se, merc, akey, net, acts>>

\* The first lock of MercuryManager::dispatch takes the entry out; an event
\* has none.
DispatchMercury ==
  /\ se.phase = "drain" /\ stream # <<>>
  /\ Head(stream).cmd \in {"Mercury", "Event"}
  /\ LET p == Head(stream)
         known == p.seq \in DOMAIN merc.pending
         entry == IF known THEN merc.pending[p.seq] ELSE NoEntry
     IN IF ~known /\ p.cmd # "Event" THEN UNCHANGED <<se, merc>>
        ELSE /\ merc' = [merc EXCEPT !.pending = Drop(@, p.seq),
                          !.held = Held(p.seq, [entry EXCEPT
                                     !.parts = Append(@, p.owner)], p)]
             /\ se' = [se EXCEPT !.phase = "held"]
  /\ stream' = Tail(stream)
  /\ UNCHANGED <<akey, chan, net, acts>>

\* complete_request: the callback is called, or dropped, which its future
\* reports as an error; an event goes to the subscribers that are left.
CompleteRequest(m, h) ==
  LET r == h.entry.owner
      alive == {s \in m.subs : m.rx[s] = "open"}
  IN IF h.packet.cmd = "Event" THEN [m EXCEPT !.subs = alive]
     ELSE [m EXCEPT !.fut[r] =
             IF @.st # "waiting" THEN @
             ELSE [st |-> IF h.packet.status = "ok" THEN "ok" ELSE "failed",
                   parts |-> h.entry.parts]]

\* The second lock: a partial answer is put back, whatever has happened.
FinishMercury ==
  /\ se.phase = "held"
  /\ LET h == merc.held
     IN merc' = [(IF h.packet.part = "last" THEN CompleteRequest(merc, h)
                  ELSE [merc EXCEPT !.pending = Put(@, h.seq, h.entry)])
                   EXCEPT !.held = NotHeld]
  /\ se' = [se EXCEPT !.phase = "drain"]
  /\ UNCHANGED <<akey, chan, stream, net, acts>>

StreamEnds ==
  /\ se.phase = "drain" /\ stream = <<>> /\ net.closed
  /\ se' = [se EXCEPT !.phase = "ended", !.shutting["dispatch"] = "called"]
  /\ UNCHANGED <<merc, akey, chan, stream, net, acts>>

LazyTimer(s) ==
  IF s.left > 0 THEN [s EXCEPT !.phase = "parked"]
  ELSE IF s.keepAlive = "PendingPong"
  THEN [s EXCEPT !.keepAlive = "ExpectingPongAck", !.left = 4,
                 !.phase = "parked"]
  ELSE CallUnlessInvalid([s EXCEPT !.phase = "ended"], "dispatch")

\* The deadline is looked at only when the stream has nothing more.
Timer(s) ==
  IF s.left > 0 THEN [s EXCEPT !.phase = "parked"]
  ELSE IF s.keepAlive = "PendingPong"
  THEN [s EXCEPT !.keepAlive = "ExpectingPongAck", !.left = 1,
                 !.phase = "parked"]
  ELSE CallUnlessInvalid([s EXCEPT !.phase = "ended"], "dispatch")

PollTimer ==
  /\ se.phase = "drain" /\ stream = <<>> /\ ~net.closed
  /\ se' = Timer(se)
  /\ UNCHANGED <<merc, akey, chan, stream, net, acts>>

SessionNext ==
  \/ Dial \/ Authenticate \/ ConnectAtOnce \/ ShutdownCall \/ SenderFails
  \/ \E a \in Shutters : Shutdown(a)
  \/ \E r \in Requests : MercuryRequest(r)
  \/ \E s \in Subscribers : ListenFor(s) \/ SubscriberDropped(s)
  \/ \E k \in KeyRequests : KeyRequest(k) \/ KeyTimeout(k)
  \/ \E c \in Channels : ChannelAllocate(c) \/ ChannelPoll(c)
  \/ ServerSends \/ ConnectionCloses \/ Tick \/ Wake \/ DispatchKeepAlive
  \/ DispatchKey \/ DispatchChunk \/ DispatchMercury \/ FinishMercury
  \/ StreamEnds \/ PollTimer

SessionSpec == SessionInit /\ [][SessionNext]_sessionVars

-----------------------------------------------------------------------------
(* Properties                                                              *)

\* A connection that has gone silent is noticed: the task never waits longer
\* for a Ping or a PongAck than the longest deadline, 80 seconds, whichever
\* way the deadlines and the packets follow each other.
SilenceNoticed == (se.phase # "ended") => se.quiet <= 4

\* An answer reaches the request it was sent for, in as many parts as it came
\* in, and no other: not the one whose number a late answer carries, nor one
\* whose parts arrive in between.
AnswersFitRequests ==
  /\ \A r \in Requests : merc.fut[r].st = "ok" =>
       /\ merc.fut[r].parts # <<>>
       /\ Range(merc.fut[r].parts) = {r}
  /\ \A k \in KeyRequests : akey.fut[k].st = "ok" => akey.fut[k].key = k

\* One call of shutdown has returned, or the session is invalid and no call is
\* between its locks: a task that finds it invalid leaves the work to the one
\* that made it so.
ShutdownOver ==
  \/ \E a \in Shutters : se.shutting[a] = "done"
  \/ /\ se.invalid
     /\ \A a \in Shutters : se.shutting[a] \notin {"invalid", "mercury"}

\* "destroy the sending halves of the channels to signal everyone who is
\* waiting for something": when the shutdown is over no channel and no
\* subscription is open, not one whose number was given to another channel,
\* nor one that was asked for between the three locks, or later.
ChannelsAreSignalled ==
  ShutdownOver => /\ \A c \in Channels : ~chan.ch[c].tx
                  /\ \A s \in Subscribers : merc.rx[s] # "open"

\* The same of Mercury requests, with one exception: a request that still
\* waits after the shutdown is one whose answer came in parts, which dispatch
\* held between its two locks and put back into the table that had been
\* cleared.  Whoever asks later is refused.
OnlyHeldAnswersAreLeft ==
  merc.invalid =>
    \A r \in Requests : merc.fut[r].st = "waiting" =>
      \/ \E i \in DOMAIN merc.pending :
           merc.pending[i].owner = r /\ merc.pending[i].parts # <<>>
      \/ merc.held # NotHeld /\ merc.held.entry.owner = r
=============================================================================
