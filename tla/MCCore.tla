------------------------------- MODULE MCCore -------------------------------
(* Small instances of the components around the player, one after the other: *)
(* a behaviour is one of the component named by part, while the others stay  *)
(* where they began.  Nothing is composed here; the components share a run   *)
(* because each is small.                                                    *)
EXTENDS Session, Airplay, Dealer, Cache, SpClient, MainLoop, RangeSet

VARIABLE part  \* the part that runs

MCSessionScenes ==
  {{"login"}, {"time", "shutdown"}, {"mercury", "close"}, {"key", "close"},
   {"channel", "shutdown"}, {"mercury", "shutdown"},
   {"mercury", "sender"}, {"sender", "time"},
   {"listen", "shutdown", "sender", "close"}}
MCAirplayScenes ==
  {{"audio", "end", "sound"},
   {"audio", "end", "second", "spotify", "command"},
   {"dacp", "end"}, {"dacp", "headers"}, {"dacp", "details"},
   {"push", "audio"}}
MCPaths == {<<"hm", "a">>, <<"hm", "a", "b">>}
MCDealerScenes ==
  {{"listen", "handle"}, {"handle", "lost"}, {"listen", "lost"},
   {"ping", "lost"}}
MCFileSize == [f \in Files |-> IF f = "big" THEN 2 ELSE 1]
\* The requests of the program, next to the connections it makes.
MCWants ==
  [c \in Callers |-> {"accesspoint", "dealer"}
                     \cup (IF c = "requests" THEN {"spclient"} ELSE {})]
MCResolvable ==
  {[accesspoint |-> <<4070>>, dealer |-> d, spclient |-> <<443>>] :
     d \in {<<443>>, <<>>}}
MCSetups == [discovery : BOOLEAN, credentials : BOOLEAN]

\* The part that runs begins anywhere, the others in one place.
Begins(name, value, values) == part # name => value = CHOOSE v \in values : TRUE

CoreInit ==
  /\ part \in {"session", "airplay", "dealer", "cache", "http", "main",
               "ranges"}
  /\ SessionInit     /\ Begins("session", acts, SessionScenes)
  /\ AirplayInit     /\ Begins("airplay", kinds, AirplayScenes)
  /\ DealerInit      /\ Begins("dealer", does, DealerScenes)
  /\ CacheInit
  /\ SpInit          /\ Begins("http", port, PortConfigs)
  /\ MainInit        /\ Begins("main", loop.setup, Setups)
  /\ RangesInit

\* What the steps of each part leave alone.
Others(name) ==
  /\ name # "session" => UNCHANGED sessionVars
  /\ name # "airplay" => UNCHANGED airplayVars
  /\ name # "dealer" => UNCHANGED dealerVars
  /\ name # "cache" => UNCHANGED cacheVars
  /\ name # "http" => UNCHANGED spVars
  /\ name # "main" => UNCHANGED mainVars
  /\ name # "ranges" => UNCHANGED rangeVars
  /\ UNCHANGED part

CoreNext ==
  \/ part = "session" /\ SessionNext /\ Others("session")
  \/ part = "airplay" /\ AirplayNext /\ Others("airplay")
  \/ part = "dealer" /\ DealerNext /\ Others("dealer")
  \/ part = "cache" /\ CacheNext /\ Others("cache")
  \/ part = "http" /\ SpNext /\ Others("http")
  \/ part = "main" /\ MainNext /\ Others("main")
  \/ part = "ranges" /\ RangesNext /\ Others("ranges")

coreVars == <<part, sessionVars, airplayVars, dealerVars, cacheVars, spVars,
              mainVars, rangeVars>>

CoreSpec == CoreInit /\ [][CoreNext]_coreVars

-----------------------------------------------------------------------------
(* The properties are those of the modules, and hold of a part that stays    *)
(* where it began.                                                           *)
=============================================================================
