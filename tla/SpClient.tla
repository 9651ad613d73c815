------------------------------ MODULE SpClient ------------------------------
(***************************************************************************)
(* Requests to Spotify's services: the list of access points               *)
(* (core/src/apresolve.rs), the client token and the request loop          *)
(* (spclient.rs), the access token (login5.rs) and what the HTTP client    *)
(* makes of an answer (http_client.rs).                                    *)
(*                                                                         *)
(* Callers run at the same time and meet at every await.  A caller wants   *)
(* an access point, a dealer's url, or to make a request.  An address is   *)
(* its port; of the addresses that the resolver keeps for an endpoint only *)
(* their number counts, as nothing depends on which of them is taken.      *)
(* Every request of the repository goes to an access point and is tried a  *)
(* number of times: RequestOptions.base_url is None wherever one is made,  *)
(* and nothing calls set_strategy, so RequestStrategy::Infinitely is not   *)
(* met.                                                                    *)
(***************************************************************************)
EXTENDS Integers, Sequences, FiniteSets

CONSTANTS Callers,        \* who uses the three at once
          Wants,          \* the endpoints each of them asks for
          Resolvable,     \* what apresolve.spotify.com may answer: lists
                          \* of ports per endpoint
          PortConfigs,    \* port_config(): a port, or 0
          RequestTries,   \* RequestStrategy::TryTimes
          MaxLoginTries,  \* MAX_LOGIN_TRIES
          MaxTokenTries,  \* MAX_TRIES of client_token
          MaxAnswers      \* bound: challenges of the token service

ASSUME WantsAssumption ==
  Wants \in [Callers -> SUBSET {"accesspoint", "dealer", "spclient"}]
ASSUME ResolvableAssumption ==
  Resolvable \subseteq [{"accesspoint", "dealer", "spclient"} -> Seq(Nat)]

VARIABLES ap,      \* ApResolverInner.data: how many addresses are left
          memo,    \* SpClientInner: access point, client token
          token,   \* Login5ManagerInner.auth_token: "live" or "none", also
                   \* when it has expired
          caller,  \* the callers
          port     \* port_config()

spVars == <<ap, memo, token, caller, port>>

Endpoints == {"accesspoint", "dealer", "spclient"}
NoPoint == 0
MaxWait == 10       \* RATE_LIMIT_MAX_WAIT, in seconds

Idle == [at |-> "idle", wants |-> "none", tries |-> 0, logins |-> 0,
         count |-> 0, back |-> "none", taken |-> FALSE]

SpInit ==
  /\ ap = [e \in Endpoints |-> 0]
  /\ memo = [point |-> NoPoint, token |-> "none"]
  /\ token = "none"
  /\ caller = [c \in Callers |-> Idle]
  /\ port \in PortConfigs

\* Where a caller goes on; "done" and "failed" return to whoever called.
GoTo(r, pc) == IF pc \in {"done", "failed"} THEN Idle
               ELSE [r EXCEPT !.at = pc]
At(c, pc) == caller' = [caller EXCEPT ![c] = GoTo(@, pc)]
AnyEmpty(d) == \E e \in Endpoints : d[e] = 0

Call(c) ==
  /\ caller[c].at \in {"idle", "unavailable"}
  /\ \E e \in Wants[c] :
       caller' = [caller EXCEPT ![c] = [Idle EXCEPT !.wants = e, !.tries = 1,
                    !.at = IF e = "spclient" THEN "point" ELSE "resolve"]]
  /\ UNCHANGED <<ap, memo, token, port>>

-----------------------------------------------------------------------------
(* ApResolver                                                              *)

Resolve(c) ==
  /\ caller[c].at = "resolve"
  /\ caller' = [caller EXCEPT ![c].taken = FALSE,
                  ![c].at = IF AnyEmpty(ap) THEN "apresolve" ELSE "pop"]
  /\ UNCHANGED <<ap, memo, token, port>>

\* process_ap_strings: other ports than the configured one are dropped.
ProcessApStrings(ports) ==
  Cardinality({i \in DOMAIN ports : port = 0 \/ ports[i] = port})

Fallback == ProcessApStrings(<<443>>)
NoAnswer == [e \in Endpoints |-> <<>>]

ParseResolve(data) == [e \in Endpoints |-> ProcessApStrings(data[e])]

AccessPoints(data) ==
  LET d == ParseResolve(data)
  IN IF AnyEmpty(d) THEN [e \in Endpoints |-> d[e] + Fallback] ELSE d

\* The answer, or none, replaces the list, also one that has been filled by
\* another caller meanwhile.
ApResolve(c) ==
  /\ caller[c].at = "apresolve"
  /\ \E data \in Resolvable \cup {NoAnswer} : ap' = AccessPoints(data)
  /\ caller' = [caller EXCEPT ![c].at = "pop", ![c].taken = FALSE]
  /\ UNCHANGED <<memo, token, port>>

\* Whoever has looked at the list before, and wants the same, has lost it.
Pop(c) ==
  LET e == caller[c].wants
      empty == ap[e] = 0
      next == IF empty THEN "unavailable"
              ELSE CASE e = "accesspoint" -> "done"
                     [] e = "dealer" -> "auth"
                     [] OTHER -> "memoize"
  IN /\ caller[c].at = "pop"
     /\ ap' = IF empty THEN ap ELSE [ap EXCEPT ![e] = @ - 1]
     /\ caller' = [d \in Callers |->
          CASE d = c -> GoTo(caller[d], next)
            [] d # c /\ caller[d].wants = e /\ caller[d].at = "pop" ->
                 [caller[d] EXCEPT !.taken = TRUE]
            [] OTHER -> caller[d]]
     /\ UNCHANGED <<memo, token, port>>

-----------------------------------------------------------------------------
(* SpClient                                                                *)

\* get_accesspoint
GetPoint(c) ==
  /\ caller[c].at = "point"
  /\ At(c, IF memo.point = NoPoint THEN "resolve" ELSE "auth")
  /\ UNCHANGED <<ap, memo, token, port>>

Memoize(c) ==
  /\ caller[c].at = "memoize"
  /\ memo' = [memo EXCEPT !.point = 443]
  /\ At(c, "auth")
  /\ UNCHANGED <<ap, token, port>>

Back(r) == [r EXCEPT !.at = r.back, !.back = "none", !.count = 0]

\* client_token; without one a request goes on and a login does not.
ClientToken(c) ==
  /\ caller[c].at = "client token"
  /\ caller' = [caller EXCEPT ![c] =
       IF memo.token = "live" THEN Back(@) ELSE GoTo(@, "token request")]
  /\ UNCHANGED <<ap, memo, token, port>>

TokenFails(r) == IF r.back = "login" THEN Idle ELSE Back(r)

\* A token is granted, a challenge answered and accepted, which does not look
\* at the number of tries, an answer refused, or something else.
TokenRequest(c) ==
  LET r == caller[c]
      again == [r EXCEPT !.count = @ + 1]
  IN /\ r.at = "token request"
     /\ \/ /\ memo' = [memo EXCEPT !.token = "live"]
           /\ caller' = [caller EXCEPT ![c] = Back(r)]
        \/ /\ r.count < MaxAnswers
           /\ caller' = [caller EXCEPT ![c] = again]
           /\ UNCHANGED memo
        \/ /\ caller' = [caller EXCEPT ![c] =
                IF r.count + 1 < MaxTokenTries THEN again ELSE TokenFails(r)]
           /\ UNCHANGED memo
        \/ /\ caller' = [caller EXCEPT ![c] = TokenFails(r)]
           /\ UNCHANGED memo
     /\ UNCHANGED <<ap, token, port>>

-----------------------------------------------------------------------------
(* Login5Manager                                                           *)

HasToken(r) ==
  IF r.wants = "dealer" THEN Idle
  ELSE [r EXCEPT !.at = "client token", !.back = "send", !.logins = 0]

\* auth_token
AuthToken(c) ==
  /\ caller[c].at = "auth"
  /\ caller' = [caller EXCEPT ![c] =
       IF token = "live" THEN HasToken(@)
       ELSE [@ EXCEPT !.at = "client token", !.back = "login"]]
  /\ UNCHANGED <<ap, memo, token, port>>

\* login5_request: the service asks for time or for the answer to a challenge
\* a few times; other errors are final.
Login(c) ==
  LET r == caller[c]
      again == [r EXCEPT !.logins = @ + 1, !.at = "client token",
                         !.back = "login"]
  IN /\ r.at = "login"
     /\ \/ /\ token' = "live"
           /\ caller' = [caller EXCEPT ![c] = HasToken(r)]
        \/ /\ caller' = [caller EXCEPT ![c] =
                IF r.logins + 1 = MaxLoginTries THEN Idle ELSE again]
           /\ UNCHANGED token
        \/ At(c, "failed") /\ UNCHANGED token
     /\ UNCHANGED <<ap, memo, port>>

TokensExpire ==
  /\ \/ token = "live" /\ token' = "none" /\ UNCHANGED memo
     \/ /\ memo.token = "live"
        /\ memo' = [memo EXCEPT !.token = "none"]
        /\ UNCHANGED token
  /\ UNCHANGED <<ap, caller, port>>

-----------------------------------------------------------------------------
(* HttpClient and the request loop                                         *)

\* One status of each group that From<HttpClientError> tells apart in what
\* the request loop does with it; "not found" is any other error.
Statuses == {"success", "not found", "unavailable", "timeout", "limited"}

\* How long a limited request waits; a moment that has passed becomes a very
\* long time.
RetryAfter(seconds) == IF seconds \in 0..MaxWait THEN seconds ELSE -1

ErrorKind(status) ==
  CASE status = "unavailable" -> "Unavailable"
    [] status = "timeout" -> "DeadlineExceeded"
    [] status = "limited" -> "ResourceExhausted"
    [] OTHER -> "NotFound"

\* A request that is limited is repeated after a wait that is not too long,
\* which the caller does not see.
Limited(c) ==
  /\ caller[c].at = "send"
  /\ \E seconds \in {-1, 1, MaxWait + 1} : RetryAfter(seconds) >= 0
  /\ UNCHANGED spVars

Send(c) ==
  LET r == caller[c]
  IN /\ r.at = "send"
     /\ \E status \in Statuses :
          LET retry == ErrorKind(status) \in {"Unavailable", "DeadlineExceeded"}
                       /\ r.tries < RequestTries
          IN /\ caller' = [caller EXCEPT ![c] =
                  IF retry
                  THEN [GoTo(r, "point") EXCEPT !.tries = @ + 1] ELSE Idle]
             /\ memo' = IF retry /\ r.tries % 3 = 0
                        THEN [memo EXCEPT !.point = NoPoint] ELSE memo
     /\ UNCHANGED <<ap, token, port>>

SpNext ==
  \/ \E c \in Callers :
       \/ Call(c) \/ Resolve(c) \/ ApResolve(c) \/ Pop(c) \/ GetPoint(c)
       \/ Memoize(c) \/ ClientToken(c) \/ TokenRequest(c) \/ AuthToken(c)
       \/ Login(c) \/ Limited(c) \/ Send(c)
  \/ TokensExpire

SpSpec == SpInit /\ [][SpNext]_spVars

-----------------------------------------------------------------------------
(* Properties                                                              *)

\* resolve comes back without an address only when the configured port rules
\* out the fallback, or another caller took the last address after this one
\* had looked: not when the service is down, answers nothing for one endpoint,
\* or is asked by several callers at once.
ResolveFailsOnlyByRace ==
  \A c \in Callers :
    caller[c].at = "unavailable" => Fallback = 0 \/ caller[c].taken
=============================================================================
