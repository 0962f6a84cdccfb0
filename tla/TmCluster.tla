----------------------------- MODULE TmCluster -----------------------------
(***************************************************************************)
(* How managers find each other and clients find managers.  A starting        *)
(* manager binds its port, reads the list of managers in Redis, asks the       *)
(* listed ones over HTTP to announce it until one does, deletes those that       *)
(* refuse the connection, and then writes itself into the list.  A manager that   *)
(* is asked sends an announcement ("ntm") over all its channels.  Clients learn     *)
(* the list when they register a channel (RpcChannels).                             *)
(***************************************************************************)
EXTENDS RpcChannels

CONSTANT MaxStarts   \* bound on the starts of a manager

ASSUME ClusterAssumption == MaxStarts \in Nat

VARIABLES
  list,       \* the hash of managers in Redis
  stage,      \* stage[m]: how far m has come; its HTTP port is open unless "off"
  starts,     \* starts[m]: how often it was started
  others,     \* others[m]: the managers it still has to ask
  condemned,  \* condemned[m]: the one that refused m's connection, until deleted
  news        \* the channels an announcement is on its way over

startVars == <<stage, starts, others, condemned>>
vars == <<channelVars, list, startVars, news>>

TypeOK ==
  /\ ChannelTypeOK
  /\ list \in SUBSET Managers
  /\ stage \in [Managers -> {"off", "starting", "asking", "ready"}]
  /\ starts \in [Managers -> 0..MaxStarts]
  /\ others \in [Managers -> SUBSET Managers]
  /\ condemned \in [Managers -> Managers \cup {None}]
  /\ news \in SUBSET Channels

Init ==
  /\ ChannelInit
  /\ list = {}
  /\ stage = [m \in Managers |-> "off"]
  /\ starts = [m \in Managers |-> 0]
  /\ others = [m \in Managers |-> {}]
  /\ condemned = [m \in Managers |-> None]
  /\ news = {}

trafficVars == <<linkVars, threadVars, nameVars, host, broken, asked, answers>>

StartManager(m) ==
  /\ stage[m] = "off"
  /\ starts[m] < MaxStarts
  /\ stage' = [stage EXCEPT ![m] = "starting"]
  /\ starts' = [starts EXCEPT ![m] = @ + 1]
  /\ UNCHANGED <<channelVars, list, others, condemned, news>>

\* NettyRpcServerInitializer.init binds without waiting for the result.
Bind(m) ==
  /\ stage[m] # "off"
  /\ m \notin listening
  /\ listening' = listening \cup {m}
  /\ UNCHANGED <<trafficVars, troubles, list, startVars, news>>

\* TMAutoCluster.init: the managers of the list, without itself.
FindManagers(m) ==
  /\ stage[m] = "starting"
  /\ stage' = [stage EXCEPT ![m] = "asking"]
  /\ others' = [others EXCEPT ![m] = list \ {m}]
  /\ UNCHANGED <<channelVars, list, starts, condemned, news>>

\* ManagerServiceImpl.refresh: the announcement goes out over all channels of x.
Announce(x) ==
  news' = news \cup {ch \in Channels : peer[ch] = x /\ host[ch] = "active"}

\* variant: every manager that was asked is deleted
AskAndCondemn(m, x) ==
  /\ x \in others[m]
  /\ condemned[m] = None
  /\ condemned' = [condemned EXCEPT ![m] = x]
  /\ others' = [others EXCEPT ![m] = @ \ {x}]
  /\ UNCHANGED <<channelVars, list, stage, starts, news>>

(***************************************************************************)
(* One listed manager is asked: it announces m and m asks no further; or it         *)
(* refuses the connection; or the request ends in another exception.                *)
(***************************************************************************)
AskManager(m, x) ==
  /\ x \in others[m]
  /\ condemned[m] = None
  /\ \/ /\ stage[x] # "off"
        /\ Announce(x)
        /\ others' = [others EXCEPT ![m] = {}]
        /\ UNCHANGED condemned
     \/ /\ stage[x] = "off"
        /\ condemned' = [condemned EXCEPT ![m] = x]
        /\ others' = [others EXCEPT ![m] = @ \ {x}]
        /\ UNCHANGED news
     \/ /\ others' = [others EXCEPT ![m] = @ \ {x}]
        /\ UNCHANGED <<condemned, news>>
  /\ UNCHANGED <<channelVars, list, stage, starts>>

DeleteCondemned(m) ==
  /\ condemned[m] # None
  /\ list' = list \ {condemned[m]}
  /\ condemned' = [condemned EXCEPT ![m] = None]
  /\ UNCHANGED <<channelVars, stage, starts, others, news>>

\* The manager lists itself, in the hope that its port is bound by now.
SaveManager(m) ==
  /\ stage[m] = "asking"
  /\ others[m] = {}
  /\ condemned[m] = None
  /\ \/ m \in listening /\ UNCHANGED troubles
     \/ m \notin listening /\ Trouble
  /\ stage' = [stage EXCEPT ![m] = "ready"]
  /\ list' = list \cup {m}
  /\ UNCHANGED <<trafficVars, listening, starts, others, condemned, news>>

\* A manager crashes, or stops and removes itself from the list.
StopManager(m) ==
  /\ stage[m] # "off"
  /\ Trouble
  /\ ManagerEnds(m)
  /\ stage' = [stage EXCEPT ![m] = "off"]
  /\ list' \in {list, list \ {m}}
  /\ others' = [others EXCEPT ![m] = {}]
  /\ condemned' = [condemned EXCEPT ![m] = None]
  /\ UNCHANGED <<starts, news>>

\* QueryTMClusterExecuteService.execute
AnswerCluster(r) ==
  /\ r.kind = "query-tm-cluster"
  /\ Handle(r, list)
  /\ UNCHANGED <<linkVars, threadVars, nameVars, host, broken, listening, troubles,
                 list, startVars, news>>

\* The announcement reaches a client: LCNCmdType.parserCmd knows no "ntm" and throws
\* in the pool thread of ClientRpcAnswer.
HearOfManager(ch) ==
  /\ ch \in news
  /\ news' = news \ {ch}
  /\ UNCHANGED <<channelVars, list, startVars>>

-----------------------------------------------------------------------------
LoopStep(ch) ==
  \/ ConnectSucceeds(ch) \/ ConnectFails(ch) \/ Activate(ch)
  \/ LoseChannel(ch) \/ ReConnect(ch)

RegisterStep(ch) == Register(ch) \/ Registered(ch) \/ Searched(ch) \/ LinkFails(ch)

ManagerNettyStep(ch) == CloseChannel(ch) \/ \E m \in Managers : PurgeName(m, ch)

ChannelStep ==
  /\ \/ \E a \in Threads, m \in Managers : ConnectHost(a, m)
     \/ \E ch \in Channels : LoopStep(ch) \/ RegisterStep(ch) \/ ManagerNettyStep(ch)
     \/ \E r \in asked : BindName(r)
  /\ UNCHANGED <<list, startVars, news>>

StartStep(m) ==
  \/ Bind(m)
  \/ FindManagers(m)
  \/ \E x \in Managers : AskManager(m, x)
  \/ DeleteCondemned(m)
  \/ SaveManager(m)

\* What threads, event loops and pools do.
SystemStep ==
  \/ ChannelStep
  \/ \E r \in asked : AnswerCluster(r)
  \/ \E ch \in Channels : HearOfManager(ch)
  \/ \E m \in Managers : StartStep(m)

\* What operators and the network do.
EnvironmentStep ==
  \/ /\ \/ \E c \in Clients : StartClient(c)
        \/ \E ch \in Channels : Break(ch) \/ TimesOut(ch)
     /\ UNCHANGED <<list, startVars, news>>
  \/ \E m \in Managers : StartManager(m) \/ StopManager(m)

Next == SystemStep \/ EnvironmentStep

Spec == Init /\ [][Next]_vars

(***************************************************************************)
(* The system does not stand still while a thread, an event loop or a pool can run.  *)
(* Every behaviour is finite, so this gives each of them its turn; nothing makes      *)
(* processes start or stop, links break or answers come late.                          *)
(***************************************************************************)
FairSpec == Spec /\ WF_vars(SystemStep)

-----------------------------------------------------------------------------
(***************************************************************************)
(* A manager in its first life is listed once it is ready: no other start deletes    *)
(* it, whatever crashes and restarts around it (TMAutoCluster.init, "can't            *)
(* access" then remove).                                                              *)
(***************************************************************************)
ReadyIsListed ==
  \A m \in Managers : (stage[m] = "ready" /\ starts[m] = 1) => m \in list

(***************************************************************************)
(* An answered registration stands: while the manager has the channel it came over,  *)
(* the manager knows the module behind it, and can notify units there                 *)
(* (InitClientService, SocketManager.removeChannel).                                  *)
(***************************************************************************)
RegistrationStands ==
  \A a \in answers :
    LET d == a.request.over
    IN  (a.request.kind = "init-client" /\ host[d] = "active") => <<peer[d], d>> \in named

\* Client c has a channel to m that m knows the name of.
Reached(c, m) ==
  \E ch \in Channels :
    /\ ch[1] = c
    /\ peer[ch] = m
    /\ side[ch] = "active"
    /\ host[ch] = "active"
    /\ <<m, ch>> \in named

(***************************************************************************)
(* A client reaches every manager that an answer has named, unless a process, a      *)
(* link or a wait has failed: no two of its threads keep each other from it            *)
(* (AutoTMClusterEngine, "connect the TM cluster").                                    *)
(***************************************************************************)
ToldIsReached ==
  \A c \in Clients : \A m \in Managers :
    m \in told[c] ~> (Reached(c, m) \/ troubles > 0)

\* The caller inside connect waits for an event loop that waits for the lock.
Entangled(c) == lock[c] # None /\ Busy(lock[c].of)

\* The bound MaxPort is reached.
PortsUsedUp(c) == \A ch \in Channels : ch[1] = c => peer[ch] # None

(***************************************************************************)
(* A channel that is lost to a manager whose port is bound is replaced, though only   *)
(* one attempt is made: nothing but the manager's end, or an event loop and a caller   *)
(* of connect that wait for each other, keeps the client from it                        *)
(* (NettyClientRetryHandler.channelInactive, NettyRpcClientInitializer.connect).         *)
(***************************************************************************)
LostChannelsReturn ==
  \A c \in Clients : \A m \in Managers :
    LET its == {ch \in Channels : ch[1] = c /\ peer[ch] = m}
    IN  (m \in listening /\ \E ch \in its : side[ch] = "lost")
          ~> \/ \E ch \in its : side[ch] = "active"
             \/ m \notin listening
             \/ Entangled(c)
             \/ PortsUsedUp(c)

(***************************************************************************)
(* "The handler that reconnects a broken connection"                                 *)
(* (NettyRpcClientChannelInitializer): it gets its turn in connect, because every      *)
(* attempt of another thread to connect ends.                                          *)
(***************************************************************************)
AttemptsEnd == \A c \in Clients : lock[c] # None ~> lock[c] = None

(***************************************************************************)
(* "If more servers are started than the client is configured with, the callback     *)
(* makes the client connect to all servers" (NettyClientRetryHandler.channelActive);   *)
(* "tell the tc clients to connect to this tm" (TMAutoCluster.init).                    *)
(***************************************************************************)
NewManagersAreReached ==
  \A c \in Clients : \A m, x \in Managers :
    (stage[m] = "ready" /\ Reached(c, x)) ~> (Reached(c, m) \/ troubles > 0)
=============================================================================
