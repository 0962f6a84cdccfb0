------------------------------ MODULE TxClient ------------------------------
(***************************************************************************)
(* tx-tc: the thread of the initiator, the threads of the called units, the *)
(* notify-unit handler and the delay task, with the connection cache they    *)
(* share.  Business code runs between "start" and the end of the business    *)
(* call; it may open the group's connection, call units and fail.            *)
(***************************************************************************)
EXTENDS TxGroup

(***************************************************************************)
(* ConnectionProxy.commit(state) on the connection cached in process i: a    *)
(* closed connection answers success, a missing one is skipped, a failing     *)
(* commit is swallowed and the close that follows rolls back.                 *)
(***************************************************************************)
Outcomes(d) == IF d = "commit"
               THEN {"committed"} \cup {o \in {"rolledback"} : Fault("dbFail")}
               ELSE {"rolledback"}

\* variant: the isClosed check of ConnectionProxy.commit is missing
LiveUnchecked(i) == cache[i] # Nobody

Live(i) == cache[i] # Nobody /\ conn[cache[i]] = "open"

Settle(i, d) ==
  \/ /\ Live(i)
     /\ \E o \in Outcomes(d) : conn' = [conn EXCEPT ![cache[i]] = o]
  \/ /\ ~Live(i)
     /\ UNCHANGED conn

(***************************************************************************)
(* The initiator's thread.                                                  *)
(***************************************************************************)
BeginTransaction ==
  /\ pc[Initiator] = "begin"
  /\ pc' = [pc EXCEPT ![Initiator] = "creating"]
  /\ create' = "sent"
  /\ UNCHANGED <<result, calling, connVars, timer, join, notify, unitMsg, clean,
                 storeVars, noticeVars>>

\* The answer is not looked at: a create-group that failed does as well.
GroupCreated ==
  /\ pc[Initiator] = "creating"
  /\ create \in {"replied", "failed"}
  /\ pc' = [pc EXCEPT ![Initiator] = "start"]
  /\ UNCHANGED <<result, calling, connVars, timer, rpcVars, storeVars, noticeVars>>

\* tryEndTransaction of the initiator: the notify-group request is sent, or
\* loadRemoteKey throws and the rest of the end is skipped.
NotifyEnd(r) ==
  /\ result' = [result EXCEPT ![Initiator] = r]
  /\ calling' = Nobody
  /\ \/ /\ pc' = [pc EXCEPT ![Initiator] = "ending"]
        /\ notify' = "sent"
     \/ /\ Fault("channel")
        /\ pc' = [pc EXCEPT ![Initiator] = "threw"]
        /\ UNCHANGED notify
  /\ UNCHANGED <<connVars, timer, join, unitMsg, clean, storeVars, noticeVars>>

CreateFails ==
  /\ \/ /\ pc[Initiator] = "creating"
        /\ Unanswered(create)
     \/ /\ pc[Initiator] = "begin"
        /\ Fault("channel")
  /\ NotifyEnd("exception")
  /\ UNCHANGED create

CallUnit(u) ==
  /\ pc[Initiator] \in {"start", "worked"}
  /\ calling = Nobody
  /\ pc[u] = "idle"
  /\ calling' = u
  /\ pc' = [pc EXCEPT ![u] = "start"]
  /\ UNCHANGED <<result, connVars, timer, rpcVars, storeVars, noticeVars>>

\* The call of u ended badly for the caller: u threw, or the caller gave up.
CallFailed(u) ==
  \/ pc[u] \in {"threw", "crashed"}
  \/ /\ pc[u] = "returned"
     /\ result[u] = "error"
  \/ Fault("httpTimeout")

CallReturns(u) ==
  /\ calling = u
  /\ \/ /\ pc[u] = "returned"
        /\ result[u] = "ok"
     \/ /\ CallFailed(u)
        /\ Fault("swallow")
  /\ calling' = Nobody
  /\ UNCHANGED <<pc, result, connVars, timer, rpcVars, storeVars, noticeVars>>

EndInitiator(r) ==
  /\ pc[Initiator] \in {"start", "worked"}
  /\ \/ calling = Nobody
     \/ /\ calling # Nobody
        /\ CallFailed(calling)
        /\ r = "exception"
  /\ r = "error" => Fault("error")
  /\ NotifyEnd(r)
  /\ UNCHANGED create

NotifyAnswered ==
  /\ pc[Initiator] = "ending"
  /\ notify = "replied"
  /\ Settle(HostOf[Initiator], decision)
  /\ pc' = [pc EXCEPT ![Initiator] = "ended"]
  /\ UNCHANGED <<result, calling, wrote, cache, timer, rpcVars, storeVars, noticeVars>>

\* statusOk(null) throws: neither the retry loop nor the local commit is reached.
NotifyUnanswered ==
  /\ pc[Initiator] = "ending"
  /\ Unanswered(notify)
  /\ pc' = [pc EXCEPT ![Initiator] = "threw"]
  /\ UNCHANGED <<result, calling, connVars, timer, rpcVars, storeVars, noticeVars>>

(***************************************************************************)
(* The connection of a party: one per group and process, looked up in the    *)
(* cache and opened when the lookup finds none.  The statements of the        *)
(* party go through the proxy, whose own commit, rollback and close, called    *)
(* by the framework around the business call, do nothing.                      *)
(***************************************************************************)
Write(p, c) == wrote' = [wrote EXCEPT ![p] = c]

UseCachedConnection(p) ==
  /\ pc[p] = "start"
  /\ p = Initiator => calling = Nobody
  /\ Live(HostOf[p])
  /\ Write(p, cache[HostOf[p]])
  /\ pc' = [pc EXCEPT ![p] = "worked"]
  /\ UNCHANGED <<result, calling, conn, cache, timer, rpcVars, storeVars, noticeVars>>

MissConnection(p) ==
  /\ pc[p] = "start"
  /\ p = Initiator => calling = Nobody
  /\ cache[HostOf[p]] = Nobody
  /\ pc' = [pc EXCEPT ![p] = "opening"]
  /\ UNCHANGED <<result, calling, connVars, timer, rpcVars, storeVars, noticeVars>>

OpenConnection(p) ==
  /\ pc[p] = "opening"
  /\ conn' = [conn EXCEPT ![p] = "open"]
  /\ cache' = [cache EXCEPT ![HostOf[p]] = p]
  /\ Write(p, p)
  /\ pc' = [pc EXCEPT ![p] = "worked"]
  /\ UNCHANGED <<result, calling, timer, rpcVars, storeVars, noticeVars>>

(***************************************************************************)
(* The thread of a unit: business, join-group, local rollback or delay task. *)
(***************************************************************************)
EndUnit(u, r) ==
  /\ pc[u] \in {"start", "worked"}
  /\ r = "error" => Fault("error")
  /\ result' = [result EXCEPT ![u] = r]
  /\ \/ /\ pc' = [pc EXCEPT ![u] = "joining"]
        /\ join' = [join EXCEPT ![u] = "sent"]
     \/ /\ Fault("channel")
        /\ pc' = [pc EXCEPT ![u] = "threw"]
        /\ UNCHANGED join
  /\ UNCHANGED <<calling, connVars, timer, create, notify, unitMsg, clean, storeVars,
                 noticeVars>>

JoinRefused(u) ==
  /\ pc[u] = "joining"
  /\ \/ Unanswered(join[u])
     \/ /\ join[u] = "replied"
        /\ SysState(u) = "rollback"
  /\ Settle(HostOf[u], "rollback")
  /\ pc' = [pc EXCEPT ![u] = "threw"]
  /\ UNCHANGED <<result, calling, wrote, cache, timer, rpcVars, storeVars, noticeVars>>

\* variant: a unit that joined returns without its delay task
ScheduleNothing(u) ==
  /\ pc[u] = "joining"
  /\ join[u] = "replied"
  /\ SysState(u) = "commit"
  /\ pc' = [pc EXCEPT ![u] = "registering"]
  /\ UNCHANGED <<result, calling, connVars, timer, rpcVars, storeVars, noticeVars>>

ScheduleCheck(u) ==
  /\ pc[u] = "joining"
  /\ join[u] = "replied"
  /\ SysState(u) = "commit"
  /\ timer' = [timer EXCEPT ![u] = "scheduled"]
  /\ pc' = [pc EXCEPT ![u] = "registering"]
  /\ UNCHANGED <<result, calling, connVars, rpcVars, storeVars, noticeVars>>

RegisterCheck(u) ==
  /\ pc[u] = "registering"
  /\ pc' = [pc EXCEPT ![u] = "returned"]
  /\ UNCHANGED <<result, calling, connVars, timer, rpcVars, storeVars, noticeVars>>

(***************************************************************************)
(* The notify-unit handler, in the process the TM chose.                    *)
(***************************************************************************)
UnitActs(u) ==
  /\ unitMsg[u] = "sent"
  /\ Settle(TargetOf(u), decision)
  /\ unitMsg' = [unitMsg EXCEPT ![u] = "acted"]
  /\ UNCHANGED <<threadVars, wrote, cache, timer, create, join, notify, clean, storeVars,
                 noticeVars>>

\* variant: the delay task is left alone
StopNothing(u) ==
  /\ unitMsg[u] = "acted"
  /\ unitMsg' = [unitMsg EXCEPT ![u] = "stopped"]
  /\ UNCHANGED <<threadVars, connVars, timer, create, join, notify, clean, storeVars,
                 noticeVars>>

\* cancel(true): a waiting task is dropped, a task in await is interrupted and
\* goes on without an answer.  A task not yet in delayTasks is not found.
StopCheck(u) ==
  /\ unitMsg[u] = "acted"
  /\ IF TargetOf(u) = HostOf[u] /\ pc[u] = "returned"
     THEN timer' = [timer EXCEPT ![u] = CASE @ = "scheduled" -> "cancelled"
                                          [] @ = "asking" -> "reporting"
                                          [] OTHER -> @]
     ELSE UNCHANGED timer
  /\ unitMsg' = [unitMsg EXCEPT ![u] = "stopped"]
  /\ UNCHANGED <<threadVars, connVars, create, join, notify, clean, storeVars, noticeVars>>

UnitCleansCache(u) ==
  /\ unitMsg[u] = "stopped"
  /\ cache' = [cache EXCEPT ![TargetOf(u)] = Nobody]
  /\ unitMsg' = [unitMsg EXCEPT ![u] = "cleaned"]
  /\ UNCHANGED <<threadVars, wrote, conn, timer, create, join, notify, clean, storeVars,
                 noticeVars>>

UnitReplies(u) ==
  /\ unitMsg[u] = "cleaned"
  /\ unitMsg' = [unitMsg EXCEPT ![u] = "replied"]
  /\ \/ clean' = [clean EXCEPT ![u] = "sent"]
     \/ /\ Fault("channel")
        /\ UNCHANGED clean
  /\ UNCHANGED <<threadVars, connVars, timer, create, join, notify, storeVars, noticeVars>>

(***************************************************************************)
(* The delay task of a unit, dtxTime after it joined.                       *)
(***************************************************************************)
CheckFires(u) ==
  /\ timer[u] = "scheduled"
  /\ Fault("slow") \/ Over(u)
  /\ \/ timer' = [timer EXCEPT ![u] = "asking"]
     \/ /\ Fault("channel")
        /\ timer' = [timer EXCEPT ![u] = "reporting"]
  /\ UNCHANGED <<threadVars, connVars, rpcVars, storeVars, noticeVars>>

CheckUnanswered(u) ==
  /\ timer[u] = "asking"
  /\ Fault("rpcTimeout")
  /\ timer' = [timer EXCEPT ![u] = "reporting"]
  /\ UNCHANGED <<threadVars, connVars, rpcVars, storeVars, noticeVars>>

\* The answer to ask-transaction-state is 0 for a group vetoed and, by the
\* TM's default, for every other group: the task rolls back.  The report that
\* precedes a rollback without an answer may throw, and ends the task.
CheckActs(u) ==
  /\ \/ /\ timer[u] \in {"answered", "reporting"}
        /\ Settle(HostOf[u], "rollback")
        /\ timer' = [timer EXCEPT ![u] = "cleaning"]
     \/ /\ timer[u] = "reporting"
        /\ Fault("channel")
        /\ timer' = [timer EXCEPT ![u] = "done"]
        /\ UNCHANGED conn
  /\ UNCHANGED <<threadVars, wrote, cache, rpcVars, storeVars, noticeVars>>

CheckCleans(u) ==
  /\ timer[u] = "cleaning"
  /\ cache' = [cache EXCEPT ![HostOf[u]] = Nobody]
  /\ timer' = [timer EXCEPT ![u] = "done"]
  /\ UNCHANGED <<threadVars, wrote, conn, rpcVars, storeVars, noticeVars>>

(***************************************************************************)
(* What happens to a TC process: its cache drops an entry, or it crashes,    *)
(* the database rolls its open connections back, and it starts again empty.  *)
(***************************************************************************)
EvictConnection(i) ==
  /\ Fault("evict")
  /\ cache[i] # Nobody
  /\ cache' = [cache EXCEPT ![i] = Nobody]
  /\ UNCHANGED <<threadVars, wrote, conn, timer, rpcVars, storeVars, noticeVars>>

ClientCrashes(i) ==
  /\ Fault("tcCrash")
  /\ pc' = [p \in Parties |-> IF HostOf[p] = i /\ pc[p] # "idle" THEN "crashed" ELSE pc[p]]
  /\ calling' = IF HostOf[Initiator] = i THEN Nobody ELSE calling
  /\ conn' = [p \in Parties |-> IF HostOf[p] = i /\ conn[p] = "open"
                                THEN "rolledback" ELSE conn[p]]
  /\ cache' = [cache EXCEPT ![i] = Nobody]
  /\ timer' = [u \in Units |-> IF HostOf[u] = i /\ timer[u] # "none"
                               THEN "done" ELSE timer[u]]
  /\ unitMsg' = [u \in Units |-> IF TargetOf(u) = i /\ unitMsg[u] \notin {"none", "replied"}
                                 THEN "dead" ELSE unitMsg[u]]
  /\ UNCHANGED <<result, wrote, create, join, notify, clean, storeVars, noticeVars>>

ClientNext ==
  \/ BeginTransaction
  \/ GroupCreated
  \/ CreateFails
  \/ \E r \in {"ok", "exception", "error"} : EndInitiator(r)
  \/ NotifyAnswered
  \/ NotifyUnanswered
  \/ \E p \in Parties :
       \/ UseCachedConnection(p)
       \/ MissConnection(p)
       \/ OpenConnection(p)
  \/ \E u \in Units :
       \/ CallUnit(u)
       \/ CallReturns(u)
       \/ \E r \in {"ok", "exception", "error"} : EndUnit(u, r)
       \/ JoinRefused(u)
       \/ ScheduleCheck(u)
       \/ RegisterCheck(u)
       \/ UnitActs(u)
       \/ StopCheck(u)
       \/ UnitCleansCache(u)
       \/ UnitReplies(u)
       \/ CheckFires(u)
       \/ CheckUnanswered(u)
       \/ CheckActs(u)
       \/ CheckCleans(u)
  \/ \E i \in Instances :
       \/ EvictConnection(i)
       \/ ClientCrashes(i)
=============================================================================
