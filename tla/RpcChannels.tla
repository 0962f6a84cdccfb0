---------------------------- MODULE RpcChannels ----------------------------
(***************************************************************************)
(* tx-netty: the channels between transaction clients and transaction         *)
(* managers.  A client's threads open channels through one synchronized        *)
(* method, which waits for the event loop of the new channel; event loops call  *)
(* the same method when a channel of theirs is lost.  A thread of its own        *)
(* registers every new channel with its manager, which keeps the name of the      *)
(* client's module under the address of the channel.                              *)
(***************************************************************************)
EXTENDS Naturals, FiniteSets

CONSTANTS
  Clients,      \* transaction clients
  Managers,     \* transaction managers
  Configured,   \* the managers in the clients' manager-address
  MaxPort,      \* bound on the connections of a client
  Loops,        \* event loops of a NioEventLoopGroup
  MaxTroubles,  \* bound on stops, broken links, late answers and late binds
  None          \* no manager, no channel, no lock holder

\* A channel is named by its address at the client; ports are used in turn, and
\* none is used for two connections.
Channels == Clients \X (1..MaxPort)

ASSUME ChannelAssumption ==
  /\ Configured \subseteq Managers
  /\ None \notin Managers \cup Clients \cup Channels
  /\ Clients \cap Channels = {}
  /\ MaxPort \in Nat
  /\ Loops \in Nat \ {0}
  /\ MaxTroubles \in Nat

\* The threads that run init(hosts): a client's starter, and the thread that
\* registers a channel.
Threads == Clients \cup Channels
ClientOf(a) == IF a \in Clients THEN a ELSE a[1]

VARIABLES
  group,      \* group[c]: the number of the current workerGroup of c, 0 at first
  cursor,     \* cursor[c]: the event loop its next channel gets
  peer,       \* peer[ch]: the manager at the other end, None while unused
  loop,       \* loop[ch]: its event loop, as <<group, number>>
  side,       \* side[ch]: what the client has seen of the channel
  host,       \* host[ch]: what the manager has seen of it
  broken,     \* the channels whose link is down
  lock,       \* lock[c]: the channel that the caller inside connect waits for
              \* and the lost channel whose event loop that caller is, if any
  hosts,      \* hosts[a]: the managers thread a has still to connect to
  talk,       \* talk[ch]: where the thread that registers ch stands
  asked,      \* requests on their way to, or in the pool of, a manager
  answers,    \* answers on their way to a client
  named,      \* appNames of the managers, as <<manager, channel>> pairs
  purges,     \* the scheduled removals from appNames, as pairs too
  listening,  \* the managers whose port is bound
  told,       \* history: told[c], the managers answers to c have named
  troubles    \* history: the stops, broken links, late answers and late binds

linkVars == <<group, cursor, peer, loop, side, lock>>
threadVars == <<hosts, talk, told>>
nameVars == <<named, purges>>
channelVars == <<linkVars, threadVars, nameVars, host, broken, asked, answers,
                 listening, troubles>>

\* A request of the thread that registers channel "from", sent over "over".
Requests == [kind : {"init-client", "query-tm-cluster"}, from : Channels, over : Channels]
Answers == [request : Requests, managers : SUBSET Managers]
Waits == [of : Channels, retries : Channels \cup {None}]

ChannelTypeOK ==
  /\ group \in [Clients -> Nat]
  /\ cursor \in [Clients -> 0..(Loops - 1)]
  /\ peer \in [Channels -> Managers \cup {None}]
  /\ loop \in [Channels -> Nat \X (0..(Loops - 1))]
  /\ side \in [Channels -> {"none", "connecting", "open", "active", "lost", "closed"}]
  /\ host \in [Channels -> {"none", "active", "closed"}]
  /\ broken \in SUBSET Channels
  /\ lock \in [Clients -> Waits \cup {None}]
  /\ hosts \in [Threads -> SUBSET Managers]
  /\ talk \in [Channels -> {"none", "start", "init", "search", "done"}]
  /\ asked \in SUBSET Requests
  /\ answers \in SUBSET Answers
  /\ named \in SUBSET (Managers \X Channels)
  /\ purges \in SUBSET (Managers \X Channels)
  /\ listening \in SUBSET Managers
  /\ told \in [Clients -> SUBSET Managers]
  /\ troubles \in 0..MaxTroubles

ChannelInit ==
  /\ group = [c \in Clients |-> 0]
  /\ cursor = [c \in Clients |-> 0]
  /\ peer = [ch \in Channels |-> None]
  /\ loop = [ch \in Channels |-> <<0, 0>>]
  /\ side = [ch \in Channels |-> "none"]
  /\ host = [ch \in Channels |-> "none"]
  /\ broken = {}
  /\ lock = [c \in Clients |-> None]
  /\ hosts = [a \in Threads |-> {}]
  /\ talk = [ch \in Channels |-> "none"]
  /\ asked = {}
  /\ answers = {}
  /\ named = {}
  /\ purges = {}
  /\ listening = {}
  /\ told = [c \in Clients |-> {}]
  /\ troubles = 0

Trouble ==
  /\ troubles < MaxTroubles
  /\ troubles' = troubles + 1

\* variant: a channel to any manager counts
InGroupAny(c, m) == \E ch \in Channels : ch[1] = c /\ side[ch] = "active"

\* variant: a lost channel leaves the group after connect has looked
InGroupStill(c, m) ==
  \E ch \in Channels : ch[1] = c /\ side[ch] \in {"active", "lost"} /\ peer[ch] = m

\* SocketManager.noConnect, negated: the channelGroup of c has a channel to m.
InGroup(c, m) == \E ch \in Channels : ch[1] = c /\ side[ch] = "active" /\ peer[ch] = m

\* The event loop of ch is inside channelInactive of another channel.
Busy(ch) ==
  \E d \in Channels : d[1] = ch[1] /\ d # ch /\ side[d] = "lost" /\ loop[d] = loop[ch]

\* init gives the client a new workerGroup.
NewGroup(c) ==
  /\ group' = [group EXCEPT ![c] = @ + 1]
  /\ cursor' = [cursor EXCEPT ![c] = 0]

StartClient(c) ==
  /\ group[c] = 0
  /\ NewGroup(c)
  /\ hosts' = [hosts EXCEPT ![c] = Configured]
  /\ UNCHANGED <<peer, loop, side, lock, talk, told, nameVars, host, broken, asked,
                 answers, listening, troubles>>

-----------------------------------------------------------------------------
\* variant: the event loops are not taken in turn
DialRaw(c, m, ch) ==
  /\ ch[1] = c
  /\ peer[ch] = None
  /\ \A n \in 1..(ch[2] - 1) : peer[<<c, n>>] # None
  /\ peer' = [peer EXCEPT ![ch] = m]
  /\ loop' = [loop EXCEPT ![ch] = <<group[c], cursor[c]>>]
  /\ cursor' = [cursor EXCEPT ![c] = @ + 1]

(***************************************************************************)
(* NettyRpcClientInitializer.connect: nothing for a manager the channelGroup       *)
(* has a channel to; else one attempt, for whose end the caller waits with the      *)
(* lock.                                                                            *)
(***************************************************************************)
Dial(c, m, ch) ==
  /\ ch[1] = c
  /\ peer[ch] = None
  /\ \A n \in 1..(ch[2] - 1) : peer[<<c, n>>] # None
  /\ peer' = [peer EXCEPT ![ch] = m]
  /\ loop' = [loop EXCEPT ![ch] = <<group[c], cursor[c]>>]
  /\ cursor' = [cursor EXCEPT ![c] = (@ + 1) % Loops]

ConnectHost(a, m) ==
  LET c == ClientOf(a)
  IN  /\ lock[c] = None
      /\ m \in hosts[a]
      /\ hosts' = [hosts EXCEPT ![a] = @ \ {m}]
      /\ \/ /\ InGroup(c, m)
            /\ UNCHANGED <<cursor, peer, loop, side, lock>>
         \/ /\ ~InGroup(c, m)
            /\ \E ch \in Channels :
                 /\ Dial(c, m, ch)
                 /\ side' = [side EXCEPT ![ch] = "connecting"]
                 /\ lock' = [lock EXCEPT ![c] = [of |-> ch, retries |-> None]]
      /\ UNCHANGED <<group, talk, told, nameVars, host, broken, asked, answers,
                     listening, troubles>>

(***************************************************************************)
(* channelInactive: the event loop leaves the channelGroup, then calls connect.     *)
(* When the new channel falls to the loop itself, sync throws at once, and the       *)
(* attempt goes on without a caller.                                                 *)
(***************************************************************************)
LoseChannel(ch) ==
  /\ ch \in broken
  /\ side[ch] = "active"
  /\ ~Busy(ch)
  /\ side' = [side EXCEPT ![ch] = "lost"]
  /\ UNCHANGED <<group, cursor, peer, loop, lock, threadVars, nameVars, host, broken,
                 asked, answers, listening, troubles>>

ReConnect(d) ==
  LET c == d[1]
  IN  /\ side[d] = "lost"
      /\ lock[c] = None
      /\ \/ /\ InGroup(c, peer[d])
            /\ side' = [side EXCEPT ![d] = "closed"]
            /\ UNCHANGED <<cursor, peer, loop, lock>>
         \/ /\ ~InGroup(c, peer[d])
            /\ \E ch \in Channels :
                 /\ Dial(c, peer[d], ch)
                 /\ \/ /\ loop'[ch] = loop[d]
                       /\ side' = [side EXCEPT ![ch] = "connecting", ![d] = "closed"]
                       /\ UNCHANGED lock
                    \/ /\ loop'[ch] # loop[d]
                       /\ side' = [side EXCEPT ![ch] = "connecting"]
                       /\ lock' = [lock EXCEPT ![c] = [of |-> ch, retries |-> d]]
      /\ UNCHANGED <<group, threadVars, nameVars, host, broken, asked, answers,
                     listening, troubles>>

(***************************************************************************)
(* The end of an attempt, on the event loop of the channel: connect returns, and   *)
(* with it the channelInactive that called it.                                      *)
(***************************************************************************)
EndAttempt(ch, seen) ==
  LET c == ch[1]
      waited == lock[c] # None /\ lock[c].of = ch
  IN  /\ lock' = IF waited THEN [lock EXCEPT ![c] = None] ELSE lock
      /\ side' = [d \in Channels |->
                    IF d = ch THEN seen
                    ELSE IF waited /\ d = lock[c].retries THEN "closed"
                    ELSE side[d]]

ConnectSucceeds(ch) ==
  /\ side[ch] = "connecting"
  /\ ~Busy(ch)
  /\ peer[ch] \in listening
  /\ EndAttempt(ch, "open")
  /\ host' = [host EXCEPT ![ch] = "active"]
  /\ UNCHANGED <<group, cursor, peer, loop, threadVars, nameVars, broken, asked,
                 answers, listening, troubles>>

ConnectFails(ch) ==
  /\ side[ch] = "connecting"
  /\ ~Busy(ch)
  /\ peer[ch] \notin listening
  /\ EndAttempt(ch, "none")
  /\ peer' = [peer EXCEPT ![ch] = None]
  /\ UNCHANGED <<group, cursor, loop, threadVars, nameVars, host, broken,
                 asked, answers, listening, troubles>>

-----------------------------------------------------------------------------
\* channelActive: the channel enters the channelGroup, a new thread is started.
Activate(ch) ==
  /\ side[ch] = "open"
  /\ ~Busy(ch)
  /\ side' = [side EXCEPT ![ch] = "active"]
  /\ talk' = [talk EXCEPT ![ch] = "start"]
  /\ UNCHANGED <<group, cursor, peer, loop, lock, hosts, told, nameVars, host, broken,
                 asked, answers, listening, troubles>>

(***************************************************************************)
(* A request of the thread that registers ch: it goes over a channel the client      *)
(* has to the manager of ch (getChannel compares addresses of managers), and the      *)
(* thread ends when there is none.                                                    *)
(***************************************************************************)
Ask(kind, ch, waiting) ==
  \/ \E d \in Channels :
       /\ d[1] = ch[1]
       /\ side[d] = "active"
       /\ peer[d] = peer[ch]
       /\ asked' = asked \cup {[kind |-> kind, from |-> ch, over |-> d]}
       /\ talk' = [talk EXCEPT ![ch] = waiting]
  \/ /\ ~InGroup(ch[1], peer[ch])
     /\ talk' = [talk EXCEPT ![ch] = "done"]
     /\ UNCHANGED asked

Register(ch) ==
  /\ talk[ch] = "start"
  /\ Ask("init-client", ch, "init")
  /\ UNCHANGED <<linkVars, hosts, told, nameVars, host, broken, answers, listening,
                 troubles>>

\* A manager takes up a request; its answer leaves while the channel is up.
Handle(r, managers) ==
  /\ r \in asked
  /\ asked' = asked \ {r}
  /\ answers' = IF host[r.over] = "active"
                THEN answers \cup {[request |-> r, managers |-> managers]}
                ELSE answers

\* InitClientService.execute: the name is bound to the channel of the request.
BindName(r) ==
  /\ r.kind = "init-client"
  /\ Handle(r, {})
  /\ named' = named \cup {<<peer[r.over], r.over>>}
  /\ UNCHANGED <<linkVars, threadVars, purges, host, broken, listening, troubles>>

\* The client has registered and searches the cluster.
Registered(ch) ==
  /\ talk[ch] = "init"
  /\ \E a \in answers : a.request.kind = "init-client" /\ a.request.from = ch
  /\ Ask("query-tm-cluster", ch, "search")
  /\ UNCHANGED <<linkVars, hosts, told, nameVars, host, broken, answers, listening,
                 troubles>>

\* AutoTMClusterEngine.searchTMCluster: init with the managers of the answer.
Searched(ch) ==
  /\ talk[ch] = "search"
  /\ \E a \in answers :
       /\ a.request.kind = "query-tm-cluster"
       /\ a.request.from = ch
       /\ hosts' = [hosts EXCEPT ![ch] = a.managers]
       /\ told' = [told EXCEPT ![ch[1]] = @ \cup a.managers]
  /\ talk' = [talk EXCEPT ![ch] = "done"]
  /\ NewGroup(ch[1])
  /\ UNCHANGED <<peer, loop, side, lock, nameVars, host, broken, asked, answers,
                 listening, troubles>>

\* A wait ends without an answer, and the thread with it: its link is down, or the
\* answer is late.
WaitEnds(ch) ==
  /\ talk[ch] \in {"init", "search"}
  /\ talk' = [talk EXCEPT ![ch] = "done"]
  /\ UNCHANGED <<linkVars, hosts, told, nameVars, host, broken, asked, answers, listening>>

LinkFails(ch) ==
  /\ \E d \in broken : d[1] = ch[1] /\ peer[d] = peer[ch]
  /\ WaitEnds(ch)
  /\ UNCHANGED troubles

TimesOut(ch) == Trouble /\ WaitEnds(ch)

-----------------------------------------------------------------------------
\* A link breaks.  What was lost on it is not told from what is late: a thread
\* that waits for an answer may end in LinkFails at any time from now on.
Break(ch) ==
  /\ host[ch] = "active"
  /\ ch \notin broken
  /\ Trouble
  /\ broken' = broken \cup {ch}
  /\ UNCHANGED <<linkVars, threadVars, nameVars, host, asked, answers, listening>>

\* SocketManager.removeChannel of a manager: the name goes after attrDelayTime.
CloseChannel(ch) ==
  /\ ch \in broken
  /\ host[ch] = "active"
  /\ host' = [host EXCEPT ![ch] = "closed"]
  /\ purges' = purges \cup {<<peer[ch], ch>>}
  /\ UNCHANGED <<linkVars, threadVars, named, broken, asked, answers, listening, troubles>>

\* variant: the names of all channels of the client go
PurgeClient(m, ch) ==
  /\ <<m, ch>> \in purges
  /\ purges' = purges \ {<<m, ch>>}
  /\ named' = {n \in named : n[1] # m \/ n[2][1] # ch[1]}
  /\ UNCHANGED <<linkVars, threadVars, host, broken, asked, answers, listening, troubles>>

PurgeName(m, ch) ==
  /\ <<m, ch>> \in purges
  /\ purges' = purges \ {<<m, ch>>}
  /\ named' = named \ {<<m, ch>>}
  /\ UNCHANGED <<linkVars, threadVars, host, broken, asked, answers, listening, troubles>>

(***************************************************************************)
(* A manager's process ends: its channels break, what it kept in memory is gone.    *)
(***************************************************************************)
ManagerEnds(m) ==
  LET its == {ch \in Channels : peer[ch] = m}
  IN  /\ listening' = listening \ {m}
      /\ broken' = broken \cup {ch \in its : host[ch] # "none"}
      /\ host' = [ch \in Channels |-> IF ch \in its /\ host[ch] # "none"
                                      THEN "closed" ELSE host[ch]]
      /\ named' = {n \in named : n[1] # m}
      /\ purges' = {n \in purges : n[1] # m}
      /\ asked' = {r \in asked : r.over \notin its}
      /\ UNCHANGED <<linkVars, threadVars, answers>>
=============================================================================
