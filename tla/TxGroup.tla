------------------------------ MODULE TxGroup ------------------------------
(***************************************************************************)
(* The state of one distributed transaction group, as the processes of the *)
(* system hold it: the threads, connections, connection cache and delay    *)
(* tasks of the TC applications (tx-tc), the RPC calls between TC and TM    *)
(* (tx-netty) and the group's entry in the TM's storage (tx-tm, Redis).     *)
(* TxClient and TxManager define the steps of the two sides over this       *)
(* state, LcnProtocol composes them.                                        *)
(*                                                                          *)
(* A party is an execution of XLTransactionManager.runTransaction: the      *)
(* initiator's or that of one called unit.  A connection is named after the *)
(* party that opened it; a unit that finds a connection of its group in the *)
(* cache of its process writes on that one.                                 *)
(***************************************************************************)
EXTENDS Naturals, FiniteSets

CONSTANTS
  Units,      \* transaction units: the called executions, by unitId
  Initiator,  \* the execution that creates the group and notifies its end
  Instances,  \* TC processes
  Apps,       \* module names (appName) under which TC processes register
  HostOf,     \* [Parties -> Instances]: where a party executes
  AppOf,      \* [Instances -> Apps]: the name a process registers with
  FirstOf,    \* [Apps -> Instances]: the first channel of that name at the TM
  Nobody,     \* no party, no connection
  Faults      \* what the environment does in a run, a subset of FaultKinds

Parties == Units \cup {Initiator}

(***************************************************************************)
(* What the code may meet.  "swallow": a caller's fallback hides the failed *)
(* call of a unit (ServiceCFallback).  "httpTimeout": the caller stops      *)
(* waiting for a unit.  "rpcTimeout": an RPC answer comes after the wait or *)
(* never.  "slow": the delay task runs before the group has ended.          *)
(* "error": business code throws an Error.  "channel": no TM channel when a *)
(* TC wants to send.  "offline": no channel of a module at the TM.          *)
(* "dbFail": the database refuses the commit.  "evict": the connection      *)
(* cache drops an entry.  "expire": the Redis group key reaches its TTL.    *)
(* "redis": a Redis command throws in a TM handler.  "tcCrash", "tmCrash": a *)
(* process stops and starts again.                                           *)
(***************************************************************************)
FaultKinds == {"swallow", "httpTimeout", "rpcTimeout", "slow", "error", "channel",
               "offline", "dbFail", "evict", "expire", "redis", "tcCrash", "tmCrash"}

ASSUME PartiesAssumption ==
  /\ Initiator \notin Units
  /\ Nobody \notin Parties

ASSUME DeploymentAssumption ==
  /\ HostOf \in [Parties -> Instances]
  /\ AppOf \in [Instances -> Apps]
  /\ FirstOf \in [Apps -> Instances]
  /\ \A u \in Units : AppOf[FirstOf[AppOf[HostOf[u]]]] = AppOf[HostOf[u]]

ASSUME FaultsAssumption == Faults \subseteq FaultKinds

VARIABLES
  pc,        \* pc[p]: where the thread of party p is
  result,    \* result[p]: how its business call ended
  calling,   \* the unit the initiator waits for, or Nobody
  wrote,     \* wrote[p]: the connection p's business wrote on
  conn,      \* conn[c]: the state of the connection party c opened
  cache,     \* cache[i]: the group's connection in TcCache of process i
  timer,     \* timer[u]: the delay task of unit u
  create,    \* the create-group call
  join,      \* join[u]: the join-group call of unit u
  notify,    \* the notify-group call
  unitMsg,   \* unitMsg[u]: the TM's notify-unit call for unit u
  clean,     \* clean[u]: the clean-group message sent after notify-unit of u
  group,     \* the group's hash in Redis
  members,   \* the units in that hash
  vetoed,    \* the group's state key in Redis holds 0
  decision,  \* what the TM decided in its notify-group handler
  toNotify,  \* the units that handler has still to notify
  waiting    \* the unit whose answer that handler waits for, or Nobody

threadVars == <<pc, result, calling>>
connVars   == <<wrote, conn, cache>>
rpcVars    == <<create, join, notify, unitMsg, clean>>
storeVars  == <<group, members, vetoed>>
noticeVars == <<decision, toNotify, waiting>>
vars == <<threadVars, connVars, timer, rpcVars, storeVars, noticeVars>>

ThreadStep == {"begin", "creating", "idle", "start", "opening", "worked", "joining",
               "registering", "ending", "ended", "returned", "threw", "crashed"}
CallStep   == {"none", "sent", "replied", "dead"}
Decision   == {"none", "commit", "rollback"}

TypeOK ==
  /\ pc \in [Parties -> ThreadStep]
  /\ result \in [Parties -> {"none", "ok", "exception", "error"}]
  /\ calling \in Units \cup {Nobody}
  /\ wrote \in [Parties -> Parties \cup {Nobody}]
  /\ conn \in [Parties -> {"none", "open", "committed", "rolledback"}]
  /\ cache \in [Instances -> Parties \cup {Nobody}]
  /\ timer \in [Units -> {"none", "scheduled", "asking", "answered", "reporting",
                          "cleaning", "done", "cancelled"}]
  /\ create \in CallStep \cup {"put", "failed"}
  /\ join \in [Units -> CallStep \cup {"saved", "checked"}]
  /\ notify \in CallStep \cup {"decided", "looping"}
  /\ unitMsg \in [Units -> CallStep \cup {"acted", "stopped", "cleaned"}]
  /\ clean \in [Units -> {"none", "sent", "done"}]
  /\ group \in {"absent", "immortal", "mortal"}
  /\ members \in SUBSET Units
  /\ vetoed \in BOOLEAN
  /\ decision \in Decision
  /\ toNotify \in SUBSET Units
  /\ waiting \in Units \cup {Nobody}

Init ==
  /\ pc = [p \in Parties |-> IF p = Initiator THEN "begin" ELSE "idle"]
  /\ result = [p \in Parties |-> "none"]
  /\ calling = Nobody
  /\ wrote = [p \in Parties |-> Nobody]
  /\ conn = [p \in Parties |-> "none"]
  /\ cache = [i \in Instances |-> Nobody]
  /\ timer = [u \in Units |-> "none"]
  /\ create = "none"
  /\ join = [u \in Units |-> "none"]
  /\ notify = "none"
  /\ unitMsg = [u \in Units |-> "none"]
  /\ clean = [u \in Units |-> "none"]
  /\ group = "absent"
  /\ members = {}
  /\ vetoed = FALSE
  /\ decision = "none"
  /\ toNotify = {}
  /\ waiting = Nobody

Fault(f) == f \in Faults

(***************************************************************************)
(* The wait for the answer to a call ends without one: the answer is late or  *)
(* lost, or the process that had the call has stopped.                        *)
(***************************************************************************)
Unanswered(call) == Fault("rpcTimeout") \/ call = "dead"

\* variant: any end of the business but an ordinary one counts as success
SysStateLenient(p) == "commit"

(***************************************************************************)
(* The state a party reports: FAIL only after an Exception.  An Error does  *)
(* not pass the catch block and leaves the default, SUCCESS.                *)
(***************************************************************************)
SysState(p) == IF result[p] = "exception" THEN "rollback" ELSE "commit"

(***************************************************************************)
(* The process that receives the notify-unit call of unit u: the first      *)
(* channel registered under the name of u's module at the TM that handles    *)
(* notify-group.                                                             *)
(***************************************************************************)
TargetOf(u) == FirstOf[AppOf[HostOf[u]]]

(***************************************************************************)
(* The group has ended as far as unit u can be concerned: the initiator's   *)
(* thread is over, the TM's handler too, and so is the notification of u.   *)
(***************************************************************************)
Over(u) == /\ pc[Initiator] \in {"ended", "threw", "crashed"}
           /\ notify \in {"none", "replied", "dead"}
           /\ unitMsg[u] \in {"none", "replied", "dead"}
=============================================================================
