------------------------------ MODULE RpcKeys ------------------------------
(***************************************************************************)
(* The keys of RPC requests between processes.  Every process draws the keys   *)
(* of its requests from an id worker of its own, and a message that arrives is   *)
(* told to be a request or an answer by one thing only: whether its key is in    *)
(* the receiver's RpcCmdContext.  Two processes that draw the same id in the      *)
(* same millisecond can be taken for each other.                                 *)
(*                                                                          *)
(* A caller that gives up leaves its key where it is, so that timeouts change    *)
(* nothing here.  What becomes of slots, and of answers that channels or handlers *)
(* lose, is RpcPool's matter.                                                     *)
(***************************************************************************)
EXTENDS Snowflake

CONSTANT Managers   \* the processes that are managers; the others are clients

ASSUME ManagersAssumption == Managers \subseteq Workers

VARIABLES
  waiting,  \* waiting[p]: the keys in the map of p's RpcCmdContext
  wire,     \* the messages on their way
  handled,  \* the requests a handler has executed
  taken     \* the messages taken for the answer to a request of their receiver

keyVars == <<waiting, wire, handled, taken>>
allVars == <<vars, keyVars>>

\* what clients ask of managers, and the notifications of units
Callable(p) == IF p \in Managers THEN Workers \ Managers ELSE Managers

Message == [kind : {"request", "answer"}, by : Workers, to : Workers, key : Id]

Request(p, q, k) == [kind |-> "request", by |-> p, to |-> q, key |-> k]

Answer(m) == [kind |-> "answer", by |-> m.to, to |-> m.by, key |-> m.key]

KeyTypeOK ==
  /\ TypeOK
  /\ waiting \in [Workers -> SUBSET Id]
  /\ wire \in SUBSET Message
  /\ handled \in SUBSET Message
  /\ taken \in SUBSET Message

KeyInit ==
  /\ Init
  /\ waiting = [p \in Workers |-> {}]
  /\ wire = {}
  /\ handled = {}
  /\ taken = {}

NextId(p) == NextIdNewTime(p) \/ NextIdSameTime(p) \/ TilNextMillis(p)

\* NextId has returned an id or has begun to wait for the next millisecond.
Call(p, q) ==
  /\ q \in Callable(p)
  /\ NextId(p)
  /\ LET keys == {ids'[p][i] : i \in Len(ids[p]) + 1 .. Len(ids'[p])}
     IN  /\ waiting' = [waiting EXCEPT ![p] = @ \cup keys]
         /\ wire' = wire \cup {Request(p, q, k) : k \in keys}
  /\ UNCHANGED <<handled, taken>>

\* variant: a process that awaits an answer takes any message for it
AwaitsAny(m) == waiting[m.to] # {}

Awaits(m) == m.key \in waiting[m.to]

TakeAnswer(m) ==
  /\ Awaits(m)
  /\ wire' = wire \ {m}
  /\ waiting' = [waiting EXCEPT ![m.to] = @ \ {m.key}]
  /\ taken' = taken \cup {m}
  /\ UNCHANGED <<handled, vars>>

\* ServerRpcAnswer and ClientRpcAnswer answer over the channel the request came from.
Handle(m) ==
  /\ ~Awaits(m)
  /\ m.kind = "request"
  /\ wire' = (wire \ {m}) \cup {Answer(m)}
  /\ handled' = handled \cup {m}
  /\ UNCHANGED <<waiting, taken, vars>>

\* No service of the receiver has the command type of an answer.
Discard(m) ==
  /\ ~Awaits(m)
  /\ m.kind = "answer"
  /\ wire' = wire \ {m}
  /\ UNCHANGED <<waiting, handled, taken, vars>>

Receive(m) == TakeAnswer(m) \/ Handle(m) \/ Discard(m)

KeyNext ==
  \/ \E p, q \in Workers : Call(p, q)
  \/ \E m \in wire : Receive(m)
  \/ \E p \in Workers : SetClock(p) /\ UNCHANGED keyVars

KeySpec == KeyInit /\ [][KeyNext]_allVars

-----------------------------------------------------------------------------
Drawn(p) == {ids[p][i] : i \in 1 .. Len(ids[p])}

SharedKey(p, k) == \E q \in Workers \ {p} : p \in Callable(q) /\ k \in Drawn(q)

(***************************************************************************)
(* A caller gets the answer to its own request, from the process it called and    *)
(* which has executed that request, unless a process that may call it has drawn    *)
(* the same key: then it may get that one's request (ReciveDataHandler,            *)
(* NettyRpcCmd.randomKey).  Clients that draw the same keys do not disturb each    *)
(* other.                                                                         *)
(***************************************************************************)
OwnAnswers ==
  \A m \in taken :
    /\ m.key \in Drawn(m.to)
    /\ \/ m.kind = "answer" /\ Request(m.to, m.by, m.key) \in handled
       \/ m.kind = "request" /\ SharedKey(m.to, m.key)

(***************************************************************************)
(* No answer is lost to a confusion of keys: a key that a process waits with         *)
(* belongs to a request or an answer on its way, or it is shared with a process at   *)
(* the other end of a channel (ReciveDataHandler).                                  *)
(***************************************************************************)
AnswersUnderWay ==
  \A p \in Workers : \A k \in waiting[p] :
    \/ SharedKey(p, k)
    \/ \E q \in Callable(p) :
         {Request(p, q, k), Answer(Request(p, q, k))} \cap wire # {}
=============================================================================
