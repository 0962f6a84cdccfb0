-------------------------- MODULE TmCluster_proofs --------------------------
(***************************************************************************)
(* Theorems about TmCluster, for any clients, managers, ports, event loops     *)
(* and troubles: its types, that an answered registration stands, and that a    *)
(* ready manager stays listed.  Types and registrations rest on what the two      *)
(* ends of a channel know of each other (ChannelInv), the list on who can be       *)
(* condemned (ListInv).                                                            *)
(***************************************************************************)
EXTENDS TmCluster, TLAPS

\* A channel that either end has seen has a manager.
Peered == \A ch \in Channels : side[ch] # "none" => peer[ch] # None

\* The manager sees a channel when the client sees it open, and not before.
SeenByBoth ==
  \A ch \in Channels : host[ch] = "none" <=> side[ch] \in {"none", "connecting"}

\* The event loop that waits inside connect is one of the client's, in
\* channelInactive of a lost channel.
RetryIsLost ==
  \A c \in Clients :
    (lock[c] # None /\ lock[c].retries # None) =>
       lock[c].retries[1] = c /\ side[lock[c].retries] = "lost"

\* Requests and answers travel over channels the manager has seen.
MessagesAreOverSeen ==
  /\ \A r \in asked : host[r.over] # "none"
  /\ \A a \in answers : host[a.request.over] # "none"

\* A name is removed after its channel has closed.
PurgesAreClosed ==
  \A m \in Managers, ch \in Channels : <<m, ch>> \in purges => host[ch] = "closed"

ChannelInv ==
  /\ ChannelTypeOK
  /\ Peered
  /\ SeenByBoth
  /\ RetryIsLost
  /\ MessagesAreOverSeen
  /\ PurgesAreClosed
  /\ RegistrationStands

\* A manager is listed, asked or condemned only after a start, and one that is
\* condemned in its first life is over.
OnlyTheDeadAreCondemned ==
  \A m, x \in Managers :
    condemned[x] = m => starts[m] # 0 /\ (starts[m] = 1 => stage[m] = "off")

KnownHaveStarted ==
  \A m \in Managers :
    (stage[m] # "off" \/ m \in list \/ \E x \in Managers : m \in others[x]) => starts[m] # 0

ListInv ==
  /\ OnlyTheDeadAreCondemned
  /\ KnownHaveStarted
  /\ ReadyIsListed

-----------------------------------------------------------------------------
LEMMA ChannelOfClient ==
  ASSUME NEW ch \in Channels
  PROVE  ch[1] \in Clients /\ ch \in Threads /\ ch # None
BY ChannelAssumption DEF Channels, Threads

LEMMA ThreadOfClient ==
  ASSUME NEW a \in Threads
  PROVE  ClientOf(a) \in Clients
BY ChannelOfClient DEF Threads, ClientOf

LEMMA ManagerIsSome ==
  ASSUME NEW m \in Managers
  PROVE  m # None
BY ChannelAssumption

LEMMA NewGroupKeepsTypes ==
  ASSUME ChannelTypeOK, NEW c \in Clients, NewGroup(c)
  PROVE  group' \in [Clients -> Nat] /\ cursor' \in [Clients -> 0..(Loops - 1)]
<1>1. 0 \in 0..(Loops - 1)
  BY ChannelAssumption
<1>2. QED
  BY <1>1 DEF NewGroup, ChannelTypeOK

LEMMA DialKeepsTypes ==
  ASSUME ChannelTypeOK, NEW c \in Clients, NEW m \in Managers, NEW ch \in Channels,
         Dial(c, m, ch)
  PROVE  /\ cursor' \in [Clients -> 0..(Loops - 1)]
         /\ peer' = [peer EXCEPT ![ch] = m]
         /\ peer' \in [Channels -> Managers \cup {None}]
         /\ loop' \in [Channels -> Nat \X (0..(Loops - 1))]
         /\ peer[ch] = None
<1>1. (cursor[c] + 1) % Loops \in 0..(Loops - 1)
  BY ChannelAssumption DEF ChannelTypeOK
<1>2. <<group[c], cursor[c]>> \in Nat \X (0..(Loops - 1))
  BY DEF ChannelTypeOK
<1>3. QED
  BY <1>1, <1>2 DEF Dial, ChannelTypeOK

\* The end of an attempt changes the channel, and the lost one whose event loop
\* made it.
LEMMA EndAttemptIsLocal ==
  ASSUME ChannelInv, NEW ch \in Channels, NEW seen \in {"open", "none"},
         side[ch] = "connecting", EndAttempt(ch, seen)
  PROVE  /\ lock' \in [Clients -> Waits \cup {None}]
         /\ side' \in [Channels -> {"none", "connecting", "open", "active", "lost", "closed"}]
         /\ side'[ch] = seen
         /\ \A d \in Channels : d # ch =>
              \/ side'[d] = side[d]
              \/ side[d] = "lost" /\ side'[d] = "closed"
         /\ \A c \in Clients : (lock'[c] # None /\ lock'[c].retries # None) =>
              /\ lock'[c] = lock[c]
              /\ lock[c].retries[1] = c
              /\ side'[lock[c].retries] = "lost"
<1>1. ch[1] \in Clients
  BY ChannelOfClient
<1>2. ASSUME NEW c \in Clients, lock[c] # None, lock[c].retries # None
      PROVE  /\ lock[c].retries \in Channels
             /\ lock[c].retries[1] = c
             /\ side[lock[c].retries] = "lost"
  BY <1>2 DEF ChannelInv, RetryIsLost, ChannelTypeOK, Waits
<1>3. CASE lock[ch[1]] # None /\ lock[ch[1]].of = ch
  <2>1. /\ lock' = [lock EXCEPT ![ch[1]] = None]
        /\ side' = [d \in Channels |-> IF d = ch THEN seen
                                       ELSE IF d = lock[ch[1]].retries THEN "closed"
                                       ELSE side[d]]
    BY <1>3 DEF EndAttempt
  <2>2. ASSUME NEW d \in Channels, d = lock[ch[1]].retries PROVE side[d] = "lost"
    BY <1>1, <1>2, <1>3, <2>2, ChannelOfClient
  <2>3. lock' \in [Clients -> Waits \cup {None}]
    BY <2>1 DEF ChannelInv, ChannelTypeOK
  <2>4. side' \in [Channels -> {"none", "connecting", "open", "active", "lost", "closed"}]
    BY <2>1 DEF ChannelInv, ChannelTypeOK
  <2>5. ASSUME NEW c \in Clients, lock'[c] # None, lock'[c].retries # None
        PROVE  /\ lock'[c] = lock[c]
               /\ lock[c].retries[1] = c
               /\ side'[lock[c].retries] = "lost"
    <3>1. c # ch[1] /\ lock'[c] = lock[c]
      BY <1>1, <2>1, <2>5 DEF ChannelInv, ChannelTypeOK
    <3>2. /\ lock[c].retries \in Channels
          /\ lock[c].retries[1] = c
          /\ side[lock[c].retries] = "lost"
      BY <1>2, <2>5, <3>1
    <3>3. lock[c].retries # ch
      BY <3>1, <3>2
    <3>4. lock[c].retries # lock[ch[1]].retries
      BY <1>1, <1>2, <1>3, <3>1, <3>2, ChannelOfClient
    <3>5. QED
      BY <2>1, <3>1, <3>2, <3>3, <3>4
  <2>6. QED
    BY <2>1, <2>2, <2>3, <2>4, <2>5
<1>4. CASE ~(lock[ch[1]] # None /\ lock[ch[1]].of = ch)
  <2>1. /\ lock' = lock
        /\ side' = [d \in Channels |-> IF d = ch THEN seen ELSE side[d]]
    BY <1>4 DEF EndAttempt
  <2>2. lock' \in [Clients -> Waits \cup {None}]
    BY <2>1 DEF ChannelInv, ChannelTypeOK
  <2>3. side' \in [Channels -> {"none", "connecting", "open", "active", "lost", "closed"}]
    BY <2>1 DEF ChannelInv, ChannelTypeOK
  <2>4. QED
    BY <1>2, <2>1, <2>2, <2>3
<1>5. QED
  BY <1>3, <1>4

-----------------------------------------------------------------------------
(***************************************************************************)
(* ChannelInv is inductive: one lemma for each kind of step.                   *)
(***************************************************************************)
LEMMA StartClientKeepsInv ==
  ASSUME ChannelInv, NEW c \in Clients, StartClient(c)
  PROVE  ChannelInv'
<1>1. group' \in [Clients -> Nat] /\ cursor' \in [Clients -> 0..(Loops - 1)]
  BY NewGroupKeepsTypes DEF ChannelInv, StartClient
<1>2. hosts' \in [Threads -> SUBSET Managers]
  BY ChannelAssumption DEF ChannelInv, ChannelTypeOK, StartClient
<1>3. ChannelTypeOK'
  BY <1>1, <1>2 DEF ChannelInv, ChannelTypeOK, StartClient, nameVars
<1>4. QED
  BY <1>3 DEF ChannelInv, StartClient, nameVars, Peered, SeenByBoth, RetryIsLost,
     MessagesAreOverSeen, PurgesAreClosed, RegistrationStands

\* A new attempt of any caller.
LEMMA DialKeepsInv ==
  ASSUME ChannelInv, NEW c \in Clients, NEW m \in Managers, NEW ch \in Channels,
         Dial(c, m, ch),
         UNCHANGED <<group, nameVars, talk, told, host, broken, asked, answers, listening,
                     troubles>>,
         hosts' \in [Threads -> SUBSET Managers],
         lock' \in [Clients -> Waits \cup {None}],
         \/ /\ side' = [side EXCEPT ![ch] = "connecting"]
            /\ \/ lock' = lock
               \/ lock' = [lock EXCEPT ![c] = [of |-> ch, retries |-> None]]
         \/ \E d \in Channels :
              /\ d[1] = c
              /\ side[d] = "lost"
              /\ lock[c] = None
              /\ \/ /\ side' = [side EXCEPT ![ch] = "connecting", ![d] = "closed"]
                    /\ lock' = lock
                 \/ /\ side' = [side EXCEPT ![ch] = "connecting"]
                    /\ lock' = [lock EXCEPT ![c] = [of |-> ch, retries |-> d]]
  PROVE  ChannelInv'
<1>1. /\ cursor' \in [Clients -> 0..(Loops - 1)]
      /\ peer' = [peer EXCEPT ![ch] = m]
      /\ peer' \in [Channels -> Managers \cup {None}]
      /\ loop' \in [Channels -> Nat \X (0..(Loops - 1))]
      /\ peer[ch] = None
  BY DialKeepsTypes DEF ChannelInv
<1>2. side[ch] = "none" /\ host[ch] = "none"
  BY <1>1 DEF ChannelInv, Peered, SeenByBoth
<1>3. /\ side' \in [Channels -> {"none", "connecting", "open", "active", "lost", "closed"}]
      /\ side'[ch] = "connecting"
      /\ \A d \in Channels : d # ch =>
           \/ side'[d] = side[d]
           \/ side[d] = "lost" /\ side'[d] = "closed"
  BY <1>2 DEF ChannelInv, ChannelTypeOK
<1>4. ChannelTypeOK'
  BY <1>1, <1>3 DEF ChannelInv, ChannelTypeOK, nameVars
<1>5. Peered'
  BY <1>1, <1>3, ManagerIsSome DEF ChannelInv, Peered, ChannelTypeOK
<1>6. SeenByBoth'
  BY <1>2, <1>3 DEF ChannelInv, SeenByBoth
<1>7. RetryIsLost'
  <2> SUFFICES ASSUME NEW e \in Clients, lock'[e] # None, lock'[e].retries # None
               PROVE  lock'[e].retries[1] = e /\ side'[lock'[e].retries] = "lost"
    BY DEF RetryIsLost
  <2>1. CASE lock'[e] = lock[e]
    <3>1. /\ lock[e].retries \in Channels
          /\ lock[e].retries[1] = e
          /\ side[lock[e].retries] = "lost"
      BY <2>1 DEF ChannelInv, ChannelTypeOK, RetryIsLost, Waits
    <3>2. QED
      BY <1>2, <2>1, <3>1 DEF ChannelInv, ChannelTypeOK
  <2>2. CASE lock'[e] # lock[e]
    <3>1. PICK d \in Channels :
            /\ d[1] = c
            /\ side[d] = "lost"
            /\ side' = [side EXCEPT ![ch] = "connecting"]
            /\ lock' = [lock EXCEPT ![c] = [of |-> ch, retries |-> d]]
      BY <2>2 DEF ChannelInv, ChannelTypeOK
    <3>2. e = c
      BY <2>2, <3>1 DEF ChannelInv, ChannelTypeOK
    <3>3. QED
      BY <1>2, <3>1, <3>2 DEF ChannelInv, ChannelTypeOK
  <2>3. QED
    BY <2>1, <2>2
<1>8. MessagesAreOverSeen' /\ PurgesAreClosed'
  BY DEF ChannelInv, MessagesAreOverSeen, PurgesAreClosed, nameVars
<1>9. RegistrationStands'
  BY <1>1, <1>2 DEF ChannelInv, ChannelTypeOK, Answers, Requests, MessagesAreOverSeen,
     RegistrationStands, nameVars
<1>10. QED
  BY <1>4, <1>5, <1>6, <1>7, <1>8, <1>9 DEF ChannelInv

LEMMA ConnectHostKeepsInv ==
  ASSUME ChannelInv, NEW a \in Threads, NEW m \in Managers, ConnectHost(a, m)
  PROVE  ChannelInv'
<1>1. hosts' \in [Threads -> SUBSET Managers]
  BY DEF ChannelInv, ChannelTypeOK, ConnectHost
<1>2. CASE InGroup(ClientOf(a), m)
  <2>1. ChannelTypeOK'
    BY <1>1, <1>2 DEF ChannelInv, ChannelTypeOK, ConnectHost, nameVars
  <2>2. QED
    BY <1>2, <2>1 DEF ChannelInv, ConnectHost, nameVars, Peered, SeenByBoth, RetryIsLost,
       MessagesAreOverSeen, PurgesAreClosed, RegistrationStands
<1>3. CASE ~InGroup(ClientOf(a), m)
  <2>1. PICK ch \in Channels :
          /\ Dial(ClientOf(a), m, ch)
          /\ side' = [side EXCEPT ![ch] = "connecting"]
          /\ lock' = [lock EXCEPT ![ClientOf(a)] = [of |-> ch, retries |-> None]]
    BY <1>3 DEF ConnectHost
  <2>2. [of |-> ch, retries |-> None] \in Waits
    BY DEF Waits
  <2>3. lock' \in [Clients -> Waits \cup {None}]
    BY <2>1, <2>2 DEF ChannelInv, ChannelTypeOK
  <2>4. QED
    BY <1>1, <2>1, <2>3, DialKeepsInv, ThreadOfClient DEF ConnectHost
<1>4. QED
  BY <1>2, <1>3

LEMMA ReConnectKeepsInv ==
  ASSUME ChannelInv, NEW d \in Channels, ReConnect(d)
  PROVE  ChannelInv'
<1>1. d[1] \in Clients /\ peer[d] \in Managers
  BY ChannelOfClient DEF ChannelInv, ChannelTypeOK, Peered, ReConnect
<1>2. CASE InGroup(d[1], peer[d])
  <2>1. side' = [side EXCEPT ![d] = "closed"] /\ lock[d[1]] = None
    BY <1>2 DEF ReConnect
  <2>2. ChannelTypeOK'
    BY <1>2, <2>1 DEF ChannelInv, ChannelTypeOK, ReConnect, threadVars, nameVars
  <2>3. RetryIsLost'
    <3>1. ASSUME NEW e \in Clients, lock[e] # None, lock[e].retries # None
          PROVE  lock[e].retries \in Channels /\ lock[e].retries # d
      BY <2>1, <3>1 DEF ChannelInv, ChannelTypeOK, RetryIsLost, Waits
    <3>2. QED
      BY <1>2, <2>1, <3>1 DEF ChannelInv, ChannelTypeOK, RetryIsLost, ReConnect
  <2>4. Peered' /\ SeenByBoth'
    BY <1>2, <2>1 DEF ChannelInv, ChannelTypeOK, Peered, SeenByBoth, ReConnect
  <2>5. QED
    BY <1>2, <2>2, <2>3, <2>4 DEF ChannelInv, ReConnect, nameVars,
       MessagesAreOverSeen, PurgesAreClosed, RegistrationStands
<1>3. CASE ~InGroup(d[1], peer[d])
  <2>1. PICK ch \in Channels :
          /\ Dial(d[1], peer[d], ch)
          /\ \/ /\ side' = [side EXCEPT ![ch] = "connecting", ![d] = "closed"]
                /\ lock' = lock
             \/ /\ side' = [side EXCEPT ![ch] = "connecting"]
                /\ lock' = [lock EXCEPT ![d[1]] = [of |-> ch, retries |-> d]]
    BY <1>3 DEF ReConnect
  <2>2. [of |-> ch, retries |-> d] \in Waits
    BY DEF Waits
  <2>3. lock' \in [Clients -> Waits \cup {None}]
    BY <2>1, <2>2 DEF ChannelInv, ChannelTypeOK
  <2>4. side[d] = "lost" /\ lock[d[1]] = None /\ hosts' \in [Threads -> SUBSET Managers]
    BY DEF ReConnect, ChannelInv, ChannelTypeOK, threadVars
  <2>5. QED
    BY <1>1, <2>1, <2>3, <2>4, DialKeepsInv DEF ReConnect, threadVars
<1>4. QED
  BY <1>2, <1>3

LEMMA ConnectEndsKeepsInv ==
  ASSUME ChannelInv, NEW ch \in Channels, ConnectSucceeds(ch) \/ ConnectFails(ch)
  PROVE  ChannelInv'
<1>1. PICK seen \in {"open", "none"} :
        /\ EndAttempt(ch, seen)
        /\ \/ seen = "open" /\ host' = [host EXCEPT ![ch] = "active"] /\ peer' = peer
           \/ seen = "none" /\ host' = host /\ peer' = [peer EXCEPT ![ch] = None]
  BY DEF ConnectSucceeds, ConnectFails
<1>2. side[ch] = "connecting"
  BY DEF ConnectSucceeds, ConnectFails
<1>3. /\ lock' \in [Clients -> Waits \cup {None}]
      /\ side' \in [Channels -> {"none", "connecting", "open", "active", "lost", "closed"}]
      /\ side'[ch] = seen
      /\ \A d \in Channels : d # ch =>
           \/ side'[d] = side[d]
           \/ side[d] = "lost" /\ side'[d] = "closed"
      /\ \A c \in Clients : (lock'[c] # None /\ lock'[c].retries # None) =>
           /\ lock'[c] = lock[c]
           /\ lock[c].retries[1] = c
           /\ side'[lock[c].retries] = "lost"
  BY <1>1, <1>2, EndAttemptIsLocal
<1>4. UNCHANGED <<group, cursor, loop, threadVars, nameVars, broken, asked, answers,
                  listening, troubles>>
  BY DEF ConnectSucceeds, ConnectFails
<1>5. host[ch] = "none" /\ peer[ch] # None
  BY <1>2 DEF ChannelInv, Peered, SeenByBoth
<1>6. ChannelTypeOK'
  BY <1>1, <1>3, <1>4 DEF ChannelInv, ChannelTypeOK, threadVars, nameVars
<1>7. Peered' /\ SeenByBoth'
  <2> SUFFICES ASSUME NEW d \in Channels
               PROVE  /\ side'[d] # "none" => peer'[d] # None
                      /\ host'[d] = "none" <=> side'[d] \in {"none", "connecting"}
    BY DEF Peered, SeenByBoth
  <2>1. CASE d = ch
    BY <1>1, <1>3, <1>5, <2>1 DEF ChannelInv, ChannelTypeOK
  <2>2. CASE d # ch
    <3>1. peer'[d] = peer[d] /\ host'[d] = host[d]
      BY <1>1, <2>2 DEF ChannelInv, ChannelTypeOK
    <3>2. QED
      BY <1>3, <2>2, <3>1 DEF ChannelInv, Peered, SeenByBoth
  <2>3. QED
    BY <2>1, <2>2
<1>8. RetryIsLost'
  BY <1>3 DEF RetryIsLost
<1>9. MessagesAreOverSeen' /\ PurgesAreClosed'
  BY <1>1, <1>4, <1>5 DEF ChannelInv, ChannelTypeOK, Answers, Requests, MessagesAreOverSeen,
     PurgesAreClosed, nameVars
<1>10. RegistrationStands'
  BY <1>1, <1>4, <1>5 DEF ChannelInv, ChannelTypeOK, Answers, Requests, MessagesAreOverSeen,
     RegistrationStands, nameVars
<1>11. QED
  BY <1>6, <1>7, <1>8, <1>9, <1>10 DEF ChannelInv

\* The event loop finds a channel active or lost.
LEMMA ActivityKeepsInv ==
  ASSUME ChannelInv, NEW ch \in Channels, Activate(ch) \/ LoseChannel(ch)
  PROVE  ChannelInv'
<1>1. PICK seen \in {"active", "lost"} :
        side' = [side EXCEPT ![ch] = seen] /\ side[ch] \in {"open", "active"}
  BY DEF Activate, LoseChannel
<1>2. UNCHANGED <<group, cursor, peer, loop, lock, hosts, told, nameVars, host, broken,
                  asked, answers, listening, troubles>>
  BY DEF Activate, LoseChannel, threadVars
<1>3. talk' \in [Channels -> {"none", "start", "init", "search", "done"}]
  BY DEF ChannelInv, ChannelTypeOK, Activate, LoseChannel, threadVars
<1>4. ChannelTypeOK'
  BY <1>1, <1>2, <1>3 DEF ChannelInv, ChannelTypeOK, nameVars
<1>5. Peered' /\ SeenByBoth'
  BY <1>1, <1>2 DEF ChannelInv, ChannelTypeOK, Peered, SeenByBoth
<1>6. RetryIsLost'
  <2>1. ASSUME NEW c \in Clients, lock[c] # None, lock[c].retries # None
        PROVE  lock[c].retries \in Channels
    BY <2>1 DEF ChannelInv, ChannelTypeOK, Waits
  <2>2. QED
    BY <1>1, <1>2, <2>1 DEF ChannelInv, ChannelTypeOK, RetryIsLost
<1>7. MessagesAreOverSeen' /\ PurgesAreClosed' /\ RegistrationStands'
  BY <1>2 DEF ChannelInv, MessagesAreOverSeen, PurgesAreClosed, RegistrationStands, nameVars
<1>8. QED
  BY <1>4, <1>5, <1>6, <1>7 DEF ChannelInv

\* A step that leaves the channels, names and answers alone.
LEMMA TalkKeepsInv ==
  ASSUME ChannelInv, ChannelTypeOK',
         UNCHANGED <<peer, side, lock, nameVars, host, answers>>,
         \A r \in asked' : r \in asked \/ host[r.over] # "none"
  PROVE  ChannelInv'
BY DEF ChannelInv, Peered, SeenByBoth, RetryIsLost, MessagesAreOverSeen, PurgesAreClosed,
   RegistrationStands, nameVars

LEMMA AskKeepsTypes ==
  ASSUME ChannelInv, NEW ch \in Channels, NEW kind \in {"init-client", "query-tm-cluster"},
         NEW waiting \in {"init", "search"}, Ask(kind, ch, waiting)
  PROVE  /\ asked' \in SUBSET Requests
         /\ talk' \in [Channels -> {"none", "start", "init", "search", "done"}]
         /\ \A r \in asked' : r \in asked \/ host[r.over] # "none"
BY DEF Ask, ChannelInv, ChannelTypeOK, SeenByBoth, Requests

LEMMA RegisterStepKeepsInv ==
  ASSUME ChannelInv, NEW ch \in Channels, RegisterStep(ch) \/ TimesOut(ch)
  PROVE  ChannelInv'
<1>1. CASE Register(ch)
  <2>1. /\ asked' \in SUBSET Requests
        /\ talk' \in [Channels -> {"none", "start", "init", "search", "done"}]
        /\ \A r \in asked' : r \in asked \/ host[r.over] # "none"
    BY <1>1, AskKeepsTypes DEF Register
  <2>2. ChannelTypeOK'
    BY <1>1, <2>1 DEF Register, ChannelInv, ChannelTypeOK, linkVars, nameVars
  <2>3. QED
    BY <1>1, <2>1, <2>2, TalkKeepsInv DEF Register, linkVars
<1>2. CASE Registered(ch)
  <2>1. /\ asked' \in SUBSET Requests
        /\ talk' \in [Channels -> {"none", "start", "init", "search", "done"}]
        /\ \A r \in asked' : r \in asked \/ host[r.over] # "none"
    BY <1>2, AskKeepsTypes DEF Registered
  <2>2. ChannelTypeOK'
    BY <1>2, <2>1 DEF Registered, ChannelInv, ChannelTypeOK, linkVars, nameVars
  <2>3. QED
    BY <1>2, <2>1, <2>2, TalkKeepsInv DEF Registered, linkVars
<1>3. CASE Searched(ch)
  <2>1. PICK a \in answers :
          /\ hosts' = [hosts EXCEPT ![ch] = a.managers]
          /\ told' = [told EXCEPT ![ch[1]] = @ \cup a.managers]
    BY <1>3 DEF Searched
  <2>2. a.managers \in SUBSET Managers
    BY DEF ChannelInv, ChannelTypeOK, Answers
  <2>3. hosts' \in [Threads -> SUBSET Managers] /\ told' \in [Clients -> SUBSET Managers]
    BY <2>1, <2>2 DEF ChannelInv, ChannelTypeOK
  <2>4. group' \in [Clients -> Nat] /\ cursor' \in [Clients -> 0..(Loops - 1)]
    BY <1>3, NewGroupKeepsTypes, ChannelOfClient DEF ChannelInv, Searched
  <2>5. ChannelTypeOK'
    BY <1>3, <2>3, <2>4 DEF Searched, ChannelInv, ChannelTypeOK, nameVars
  <2>6. QED
    BY <1>3, <2>5, TalkKeepsInv DEF Searched
<1>4. CASE LinkFails(ch) \/ TimesOut(ch)
  <2>1. WaitEnds(ch) /\ troubles' \in 0..MaxTroubles
    BY <1>4, ChannelAssumption DEF LinkFails, TimesOut, Trouble, ChannelInv, ChannelTypeOK
  <2>2. ChannelTypeOK'
    BY <2>1 DEF WaitEnds, ChannelInv, ChannelTypeOK, linkVars, nameVars
  <2>3. QED
    BY <2>1, <2>2, TalkKeepsInv DEF WaitEnds, linkVars
<1>5. QED
  BY <1>1, <1>2, <1>3, <1>4 DEF RegisterStep

LEMMA HandleKeepsTypes ==
  ASSUME ChannelInv, NEW r \in asked, NEW managers \in SUBSET Managers, Handle(r, managers)
  PROVE  /\ r \in Requests
         /\ asked' \in SUBSET asked
         /\ answers' \in SUBSET Answers
         /\ \/ answers' = answers
            \/ /\ answers' = answers \cup {[request |-> r, managers |-> managers]}
               /\ host[r.over] = "active"
BY DEF Handle, ChannelInv, ChannelTypeOK, Answers

LEMMA BindNameKeepsInv ==
  ASSUME ChannelInv, NEW r \in asked, BindName(r)
  PROVE  ChannelInv'
<1>1. /\ r \in Requests
      /\ asked' \in SUBSET asked
      /\ answers' \in SUBSET Answers
      /\ \/ answers' = answers
         \/ /\ answers' = answers \cup {[request |-> r, managers |-> {}]}
            /\ host[r.over] = "active"
  BY HandleKeepsTypes DEF BindName
<1>2. named' = named \cup {<<peer[r.over], r.over>>} /\ r.over \in Channels
  BY <1>1 DEF BindName, Requests
<1>3. peer[r.over] \in Managers
  BY <1>2 DEF ChannelInv, ChannelTypeOK, Peered, SeenByBoth, MessagesAreOverSeen
<1>4. ChannelTypeOK'
  BY <1>1, <1>2, <1>3 DEF BindName, ChannelInv, ChannelTypeOK, linkVars, threadVars
<1>5. MessagesAreOverSeen' /\ RegistrationStands'
  BY <1>1, <1>2 DEF BindName, ChannelInv, MessagesAreOverSeen, RegistrationStands, linkVars
<1>6. QED
  BY <1>4, <1>5 DEF BindName, ChannelInv, Peered, SeenByBoth, RetryIsLost, PurgesAreClosed,
     linkVars

LEMMA AnswerClusterKeepsInv ==
  ASSUME ChannelInv, list \in SUBSET Managers, NEW r \in asked, AnswerCluster(r)
  PROVE  ChannelInv'
<1>1. /\ asked' \in SUBSET asked
      /\ answers' \in SUBSET Answers
      /\ \/ answers' = answers
         \/ /\ answers' = answers \cup {[request |-> r, managers |-> list]}
            /\ host[r.over] = "active"
  BY HandleKeepsTypes DEF AnswerCluster
<1>2. ChannelTypeOK'
  BY <1>1 DEF AnswerCluster, ChannelInv, ChannelTypeOK, linkVars, threadVars, nameVars
<1>3. MessagesAreOverSeen' /\ RegistrationStands'
  BY <1>1 DEF AnswerCluster, ChannelInv, MessagesAreOverSeen, RegistrationStands, linkVars,
     nameVars
<1>4. QED
  BY <1>2, <1>3 DEF AnswerCluster, ChannelInv, Peered, SeenByBoth, RetryIsLost,
     PurgesAreClosed, linkVars, nameVars

LEMMA BreakKeepsInv ==
  ASSUME ChannelInv, NEW ch \in Channels, Break(ch)
  PROVE  ChannelInv'
<1>1. troubles' \in 0..MaxTroubles
  BY ChannelAssumption DEF Break, Trouble, ChannelInv, ChannelTypeOK
<1>2. ChannelTypeOK'
  BY <1>1 DEF Break, ChannelInv, ChannelTypeOK, linkVars, threadVars, nameVars
<1>3. QED
  BY <1>2, TalkKeepsInv DEF Break, linkVars

\* A manager's side of a channel closes, and its name goes later.
LEMMA ManagerNettyStepKeepsInv ==
  ASSUME ChannelInv, NEW ch \in Channels, ManagerNettyStep(ch)
  PROVE  ChannelInv'
<1>1. CASE CloseChannel(ch)
  <2>1. /\ host[ch] = "active"
        /\ host' = [host EXCEPT ![ch] = "closed"]
        /\ purges' = purges \cup {<<peer[ch], ch>>}
        /\ UNCHANGED <<linkVars, threadVars, named, broken, asked, answers, listening, troubles>>
    BY <1>1 DEF CloseChannel
  <2>2. peer[ch] \in Managers
    BY <2>1 DEF ChannelInv, ChannelTypeOK, Peered, SeenByBoth
  <2>3. ChannelTypeOK'
    BY <2>1, <2>2 DEF ChannelInv, ChannelTypeOK, linkVars, threadVars
  <2>4. SeenByBoth' /\ MessagesAreOverSeen' /\ RegistrationStands'
    BY <2>1 DEF ChannelInv, ChannelTypeOK, Answers, Requests, SeenByBoth,
       MessagesAreOverSeen, RegistrationStands, linkVars
  <2>5. PurgesAreClosed'
    BY <2>1 DEF ChannelInv, ChannelTypeOK, PurgesAreClosed
  <2>6. QED
    BY <2>1, <2>3, <2>4, <2>5 DEF ChannelInv, Peered, RetryIsLost, linkVars
<1>2. ASSUME NEW m \in Managers, PurgeName(m, ch) PROVE ChannelInv'
  <2>1. /\ <<m, ch>> \in purges
        /\ purges' = purges \ {<<m, ch>>}
        /\ named' = named \ {<<m, ch>>}
        /\ UNCHANGED <<linkVars, threadVars, host, broken, asked, answers, listening, troubles>>
    BY <1>2 DEF PurgeName
  <2>2. ChannelTypeOK' /\ PurgesAreClosed'
    BY <2>1 DEF ChannelInv, ChannelTypeOK, PurgesAreClosed, linkVars, threadVars
  <2>3. host[ch] = "closed"
    BY <2>1 DEF ChannelInv, PurgesAreClosed
  <2>4. RegistrationStands'
    BY <2>1, <2>3 DEF ChannelInv, RegistrationStands, linkVars
  <2>5. QED
    BY <2>1, <2>2, <2>4 DEF ChannelInv, Peered, SeenByBoth, RetryIsLost,
       MessagesAreOverSeen, linkVars
<1>3. QED
  BY <1>1, <1>2 DEF ManagerNettyStep

LEMMA ManagerEndsKeepsInv ==
  ASSUME ChannelInv, NEW m \in Managers, ManagerEnds(m), troubles' \in 0..MaxTroubles
  PROVE  ChannelInv'
<1>1. /\ listening' = listening \ {m}
      /\ broken' \in SUBSET Channels
      /\ host' = [ch \in Channels |-> IF peer[ch] = m /\ host[ch] # "none"
                                      THEN "closed" ELSE host[ch]]
      /\ named' = {n \in named : n[1] # m}
      /\ purges' = {n \in purges : n[1] # m}
      /\ asked' \in SUBSET asked
      /\ UNCHANGED <<linkVars, threadVars, answers>>
  BY DEF ManagerEnds, ChannelInv, ChannelTypeOK
<1>2. ChannelTypeOK'
  BY <1>1 DEF ChannelInv, ChannelTypeOK, linkVars, threadVars
<1>3. SeenByBoth' /\ MessagesAreOverSeen' /\ PurgesAreClosed'
  BY <1>1 DEF ChannelInv, ChannelTypeOK, Answers, Requests, SeenByBoth, MessagesAreOverSeen,
     PurgesAreClosed, linkVars
<1>4. RegistrationStands'
  <2> SUFFICES ASSUME NEW a \in answers, a.request.kind = "init-client",
                      host'[a.request.over] = "active"
               PROVE  <<peer[a.request.over], a.request.over>> \in named'
    BY <1>1 DEF RegistrationStands, linkVars
  <2>1. a.request.over \in Channels
    BY DEF ChannelInv, ChannelTypeOK, Answers, Requests
  <2>2. host[a.request.over] = "active" /\ peer[a.request.over] # m
    BY <1>1, <2>1
  <2>3. <<peer[a.request.over], a.request.over>> \in named
    BY <2>2 DEF ChannelInv, RegistrationStands
  <2>4. QED
    BY <1>1, <2>2, <2>3
<1>5. QED
  BY <1>1, <1>2, <1>3, <1>4 DEF ChannelInv, Peered, RetryIsLost, linkVars

LEMMA UnchangedKeepsInv ==
  ASSUME ChannelInv, UNCHANGED channelVars
  PROVE  ChannelInv'
BY DEF ChannelInv, ChannelTypeOK, channelVars, linkVars, threadVars, nameVars, Peered,
   SeenByBoth, RetryIsLost, MessagesAreOverSeen, PurgesAreClosed, RegistrationStands

\* What a manager's start and stop do to the channels.
LEMMA ManagerStepKeepsInv ==
  ASSUME ChannelInv, NEW m \in Managers, StartStep(m) \/ StartManager(m) \/ StopManager(m)
  PROVE  ChannelInv'
<1>1. CASE UNCHANGED channelVars
  BY <1>1, UnchangedKeepsInv
<1>2. CASE Bind(m) \/ SaveManager(m)
  <2>1. troubles' \in 0..MaxTroubles /\ listening' \in SUBSET Managers
    BY <1>2, ChannelAssumption
    DEF Bind, SaveManager, Trouble, trafficVars, ChannelInv, ChannelTypeOK
  <2>2. UNCHANGED trafficVars
    BY <1>2 DEF Bind, SaveManager, trafficVars
  <2>3. ChannelTypeOK'
    BY <2>1, <2>2
    DEF trafficVars, ChannelInv, ChannelTypeOK, linkVars, threadVars, nameVars
  <2>4. QED
    BY <2>2, <2>3, TalkKeepsInv DEF trafficVars, linkVars
<1>3. CASE StopManager(m)
  <2>1. ManagerEnds(m) /\ troubles' \in 0..MaxTroubles
    BY <1>3, ChannelAssumption DEF StopManager, Trouble, ChannelInv, ChannelTypeOK
  <2>2. QED
    BY <2>1, ManagerEndsKeepsInv
<1>4. ASSUME NEW x \in Managers, AskManager(m, x) PROVE UNCHANGED channelVars
  BY <1>4 DEF AskManager
<1>5. QED
  BY <1>1, <1>2, <1>3, <1>4 DEF StartStep, StartManager, FindManagers, DeleteCondemned

LEMMA ChannelInvIsInductive ==
  ASSUME TypeOK, ChannelInv, [Next]_vars
  PROVE  ChannelInv'
<1>1. CASE SystemStep
  <2>1. CASE ChannelStep
    <3>1. CASE \E a \in Threads, m \in Managers : ConnectHost(a, m)
      BY <3>1, ConnectHostKeepsInv
    <3>2. ASSUME NEW ch \in Channels, LoopStep(ch) PROVE ChannelInv'
      BY <3>2, ConnectEndsKeepsInv, ActivityKeepsInv, ReConnectKeepsInv DEF LoopStep
    <3>3. CASE \E ch \in Channels : RegisterStep(ch)
      BY <3>3, RegisterStepKeepsInv
    <3>4. CASE \E ch \in Channels : ManagerNettyStep(ch)
      BY <3>4, ManagerNettyStepKeepsInv
    <3>5. CASE \E r \in asked : BindName(r)
      BY <3>5, BindNameKeepsInv
    <3>6. QED
      BY <2>1, <3>1, <3>2, <3>3, <3>4, <3>5 DEF ChannelStep
  <2>2. CASE \E r \in asked : AnswerCluster(r)
    BY <2>2, AnswerClusterKeepsInv DEF TypeOK
  <2>3. CASE \E ch \in Channels : HearOfManager(ch)
    BY <2>3, UnchangedKeepsInv DEF HearOfManager
  <2>4. CASE \E m \in Managers : StartStep(m)
    BY <2>4, ManagerStepKeepsInv
  <2>5. QED
    BY <1>1, <2>1, <2>2, <2>3, <2>4 DEF SystemStep
<1>2. CASE EnvironmentStep
  <2>1. CASE \E c \in Clients : StartClient(c)
    BY <2>1, StartClientKeepsInv
  <2>2. CASE \E ch \in Channels : Break(ch)
    BY <2>2, BreakKeepsInv
  <2>3. CASE \E ch \in Channels : TimesOut(ch)
    BY <2>3, RegisterStepKeepsInv
  <2>4. CASE \E m \in Managers : StartManager(m) \/ StopManager(m)
    BY <2>4, ManagerStepKeepsInv
  <2>5. QED
    BY <1>2, <2>1, <2>2, <2>3, <2>4 DEF EnvironmentStep
<1>3. CASE UNCHANGED vars
  BY <1>3, UnchangedKeepsInv DEF vars
<1>4. QED
  BY <1>1, <1>2, <1>3 DEF Next

\* The variables of TmCluster keep their types when those of the channels do.
LEMMA ListKeepsTypes ==
  ASSUME TypeOK, ChannelTypeOK', [Next]_vars
  PROVE  TypeOK'
<1>1. CASE UNCHANGED <<list, startVars, news>>
  BY <1>1 DEF TypeOK, startVars
<1>2. ASSUME NEW m \in Managers, StartManager(m) \/ StopManager(m) \/ FindManagers(m)
                                 \/ DeleteCondemned(m) \/ SaveManager(m)
      PROVE  TypeOK'
  BY <1>2, ClusterAssumption DEF StartManager, StopManager, FindManagers, DeleteCondemned,
     SaveManager, TypeOK
<1>3. ASSUME NEW m \in Managers, NEW x \in Managers, AskManager(m, x) PROVE TypeOK'
  BY <1>3 DEF AskManager, Announce, TypeOK
<1>4. ASSUME NEW ch \in Channels, HearOfManager(ch) PROVE TypeOK'
  BY <1>4 DEF HearOfManager, TypeOK, startVars
<1>5. QED
  BY <1>1, <1>2, <1>3, <1>4 DEF Next, SystemStep, EnvironmentStep, ChannelStep, AnswerCluster,
     StartStep, Bind, vars

LEMMA ChannelInvHolds == Spec => [](TypeOK /\ ChannelInv)
<1>1. Init => TypeOK /\ ChannelInv
  <2> SUFFICES ASSUME Init PROVE TypeOK /\ ChannelInv
    OBVIOUS
  <2>1. 0 \in 0..(Loops - 1) /\ 0 \in 0..MaxTroubles /\ 0 \in 0..MaxStarts
    BY ChannelAssumption, ClusterAssumption
  <2>2. <<0, 0>> \in Nat \X (0..(Loops - 1))
    BY <2>1
  <2>3. ChannelTypeOK
    BY <2>1, <2>2 DEF Init, ChannelInit, ChannelTypeOK
  <2>4. TypeOK
    BY <2>1, <2>3 DEF Init, TypeOK
  <2>5. QED
    BY <2>3, <2>4 DEF Init, ChannelInit, ChannelInv, Peered, SeenByBoth, RetryIsLost,
       MessagesAreOverSeen, PurgesAreClosed, RegistrationStands
<1>2. TypeOK /\ ChannelInv /\ [Next]_vars => (TypeOK /\ ChannelInv)'
  BY ChannelInvIsInductive, ListKeepsTypes DEF ChannelInv
<1>3. QED
  BY <1>1, <1>2, PTL DEF Spec

-----------------------------------------------------------------------------
\* Every variable of the cluster and its channels keeps its type.
THEOREM ClusterTypeCorrect == Spec => []TypeOK
BY ChannelInvHolds, PTL

(***************************************************************************)
(* An answered registration stands as long as the manager has its channel       *)
(* (InitClientService, SocketManager.removeChannel): names are bound before the   *)
(* answer leaves and removed only after the channel has closed.                    *)
(***************************************************************************)
THEOREM RegistrationsStand == Spec => []RegistrationStands
<1>1. ChannelInv => RegistrationStands
  BY DEF ChannelInv
<1>2. QED
  BY <1>1, ChannelInvHolds, PTL

(***************************************************************************)
(* A manager in its first life is listed once it is ready, whatever other        *)
(* managers that start at the same time delete (TMAutoCluster.init).               *)
(***************************************************************************)
THEOREM ReadyStaysListed == Spec => []ReadyIsListed
<1>1. Init => ListInv
  BY ManagerIsSome DEF Init, ListInv, OnlyTheDeadAreCondemned, KnownHaveStarted, ReadyIsListed
<1>2. TypeOK /\ ListInv /\ [Next]_vars => ListInv'
  <2> SUFFICES ASSUME TypeOK, ListInv, [Next]_vars PROVE ListInv'
    OBVIOUS
  <2>1. CASE UNCHANGED <<list, startVars>>
    BY <2>1 DEF ListInv, OnlyTheDeadAreCondemned, KnownHaveStarted, ReadyIsListed, startVars
  <2>2. ASSUME NEW m \in Managers, StartManager(m) PROVE ListInv'
    BY <2>2 DEF StartManager, TypeOK, ListInv, OnlyTheDeadAreCondemned, KnownHaveStarted,
       ReadyIsListed
  <2>3. ASSUME NEW m \in Managers, StopManager(m) PROVE ListInv'
    BY <2>3, ManagerIsSome DEF StopManager, TypeOK, ListInv, OnlyTheDeadAreCondemned,
       KnownHaveStarted, ReadyIsListed
  <2>4. ASSUME NEW m \in Managers, FindManagers(m) PROVE ListInv'
    BY <2>4 DEF FindManagers, TypeOK, ListInv, OnlyTheDeadAreCondemned, KnownHaveStarted,
       ReadyIsListed
  <2>5. ASSUME NEW m \in Managers, NEW x \in Managers, AskManager(m, x) PROVE ListInv'
    BY <2>5 DEF AskManager, TypeOK, ListInv, OnlyTheDeadAreCondemned, KnownHaveStarted,
       ReadyIsListed
  <2>6. ASSUME NEW m \in Managers, DeleteCondemned(m) PROVE ListInv'
    BY <2>6, ManagerIsSome DEF DeleteCondemned, TypeOK, ListInv, OnlyTheDeadAreCondemned,
       KnownHaveStarted, ReadyIsListed
  <2>7. ASSUME NEW m \in Managers, SaveManager(m) PROVE ListInv'
    BY <2>7 DEF SaveManager, TypeOK, ListInv, OnlyTheDeadAreCondemned, KnownHaveStarted,
       ReadyIsListed
  <2>8. QED
    BY <2>1, <2>2, <2>3, <2>4, <2>5, <2>6, <2>7 DEF Next, SystemStep, EnvironmentStep,
       ChannelStep, AnswerCluster, HearOfManager, StartStep, Bind, vars
<1>3. ListInv => ReadyIsListed
  BY DEF ListInv
<1>4. QED
  BY <1>1, <1>2, <1>3, ClusterTypeCorrect, PTL DEF Spec
=============================================================================
