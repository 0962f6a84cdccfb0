----------------------------- MODULE TxManager -----------------------------
(***************************************************************************)
(* tx-tm: the handlers of the group messages.  Each runs on a pool thread    *)
(* and touches Redis one command at a time, so handlers of one group          *)
(* interleave between any two commands.  A client draws the TM for each call   *)
(* at random among its channels (RandomLoadBalance), and all TMs work on one   *)
(* Redis: the handlers of one group may run in as many processes.               *)
(***************************************************************************)
EXTENDS TxGroup

(***************************************************************************)
(* create-group: the hash is put first, its time to live is set after.       *)
(***************************************************************************)
PutGroup ==
  /\ create = "sent"
  /\ create' = "put"
  /\ group' = "immortal"
  /\ UNCHANGED <<threadVars, connVars, timer, join, notify, unitMsg, clean, members, vetoed,
                 noticeVars>>

\* variant: the time to live is left to the join-group handler
SetNoTtl ==
  /\ create = "put"
  /\ create' = "replied"
  /\ UNCHANGED <<threadVars, connVars, timer, join, notify, unitMsg, clean, storeVars,
                 noticeVars>>

SetGroupTtl ==
  /\ create = "put"
  /\ create' = "replied"
  /\ group' = IF group = "absent" THEN "absent" ELSE "mortal"
  /\ UNCHANGED <<threadVars, connVars, timer, join, notify, unitMsg, clean, members, vetoed,
                 noticeVars>>

(***************************************************************************)
(* join-group: a unit that failed sets the state key; then the unit is put    *)
(* into the hash if the hash exists.  Either way the answer is success.        *)
(***************************************************************************)
SaveVeto(u) ==
  /\ join[u] = "sent"
  /\ SysState(u) = "rollback"
  /\ vetoed' = TRUE
  /\ join' = [join EXCEPT ![u] = "saved"]
  /\ UNCHANGED <<threadVars, connVars, timer, create, notify, unitMsg, clean, group, members,
                 noticeVars>>

\* variant: the unit is registered whether or not its state has been saved
FindGroupFirst(u) ==
  /\ join[u] \in {"sent", "saved"}
  /\ join' = [join EXCEPT ![u] = IF group = "absent" THEN "replied" ELSE "checked"]
  /\ UNCHANGED <<threadVars, connVars, timer, create, notify, unitMsg, clean, storeVars,
                 noticeVars>>

FindGroup(u) ==
  /\ \/ join[u] = "saved"
     \/ /\ join[u] = "sent"
        /\ SysState(u) = "commit"
  /\ join' = [join EXCEPT ![u] = IF group = "absent" THEN "replied" ELSE "checked"]
  /\ UNCHANGED <<threadVars, connVars, timer, create, notify, unitMsg, clean, storeVars,
                 noticeVars>>

\* variant: the hash holds the last unit only
PutUnitAlone(u) ==
  /\ join[u] = "checked"
  /\ join' = [join EXCEPT ![u] = "replied"]
  /\ members' = {u}
  /\ group' = IF group = "absent" THEN "immortal" ELSE group
  /\ UNCHANGED <<threadVars, connVars, timer, create, notify, unitMsg, clean, vetoed,
                 noticeVars>>

PutUnit(u) ==
  /\ join[u] = "checked"
  /\ join' = [join EXCEPT ![u] = "replied"]
  /\ members' = members \cup {u}
  /\ group' = IF group = "absent" THEN "immortal" ELSE group
  /\ UNCHANGED <<threadVars, connVars, timer, create, notify, unitMsg, clean, vetoed,
                 noticeVars>>

(***************************************************************************)
(* notify-group: read the state key, read the units, notify them in turn,     *)
(* answer the initiator.  What a notification does is not looked at.          *)
(***************************************************************************)
\* variant: the initiator's state decides, the state key is not read
DecideAlone ==
  /\ notify = "sent"
  /\ notify' = "decided"
  /\ decision' = SysState(Initiator)
  /\ UNCHANGED <<threadVars, connVars, timer, create, join, unitMsg, clean, storeVars,
                 toNotify, waiting>>

\* variant: the reported state is taken for the decision as it is
DecideRaw ==
  /\ notify = "sent"
  /\ notify' = "decided"
  /\ decision' = IF vetoed THEN "rollback" ELSE result[Initiator]
  /\ UNCHANGED <<threadVars, connVars, timer, create, join, unitMsg, clean, storeVars,
                 toNotify, waiting>>

Decide ==
  /\ notify = "sent"
  /\ notify' = "decided"
  /\ decision' = IF vetoed THEN "rollback" ELSE SysState(Initiator)
  /\ UNCHANGED <<threadVars, connVars, timer, create, join, unitMsg, clean, storeVars,
                 toNotify, waiting>>

FindUnits ==
  /\ notify = "decided"
  /\ notify' = "looping"
  /\ toNotify' = members
  /\ UNCHANGED <<threadVars, connVars, timer, create, join, unitMsg, clean, storeVars,
                 decision, waiting>>

NotifyUnit(u) ==
  /\ notify = "looping"
  /\ waiting = Nobody
  /\ u \in toNotify
  /\ toNotify' = toNotify \ {u}
  /\ \/ /\ unitMsg' = [unitMsg EXCEPT ![u] = "sent"]
        /\ waiting' = u
     \/ /\ Fault("offline")
        /\ UNCHANGED <<unitMsg, waiting>>
  /\ UNCHANGED <<threadVars, connVars, timer, create, join, notify, clean, storeVars,
                 decision>>

UnitAnswered ==
  /\ waiting # Nobody
  /\ unitMsg[waiting] = "replied" \/ Unanswered(unitMsg[waiting])
  /\ waiting' = Nobody
  /\ UNCHANGED <<threadVars, connVars, timer, rpcVars, storeVars, decision, toNotify>>

\* variant: the answer does not wait for the units
ReplyAtOnce ==
  /\ notify = "looping"
  /\ notify' = "replied"
  /\ UNCHANGED <<threadVars, connVars, timer, create, join, unitMsg, clean, storeVars,
                 noticeVars>>

\* variant: only a commit is answered
ReplyCommit ==
  /\ notify = "looping"
  /\ waiting = Nobody
  /\ toNotify = {}
  /\ decision = "commit"
  /\ notify' = "replied"
  /\ UNCHANGED <<threadVars, connVars, timer, create, join, unitMsg, clean, storeVars,
                 noticeVars>>

ReplyDecision ==
  /\ notify = "looping"
  /\ waiting = Nobody
  /\ toNotify = {}
  /\ notify' = "replied"
  /\ UNCHANGED <<threadVars, connVars, timer, create, join, unitMsg, clean, storeVars,
                 noticeVars>>

(***************************************************************************)
(* clean-group and ask-transaction-state: one Redis command each.  A veto     *)
(* and no state key at all give the same answer, 0.                            *)
(***************************************************************************)
ClearGroup(u) ==
  /\ clean[u] = "sent"
  /\ clean' = [clean EXCEPT ![u] = "done"]
  /\ group' = "absent"
  /\ members' = {}
  /\ UNCHANGED <<threadVars, connVars, timer, create, join, notify, unitMsg, vetoed,
                 noticeVars>>

AnswerState(u) ==
  /\ timer[u] = "asking"
  /\ timer' = [timer EXCEPT ![u] = "answered"]
  /\ UNCHANGED <<threadVars, connVars, rpcVars, storeVars, noticeVars>>

(***************************************************************************)
(* A Redis command throws, before or after it took effect.  The handler       *)
(* answers with a failure.  create-group and join-group take any answer for    *)
(* consent; notify-group throws at the initiator, as if it had no answer; the   *)
(* delay task that asked goes on as without one; clean-group has no caller.     *)
(***************************************************************************)
RedisThrows(u) ==
  /\ Fault("redis")
  /\ \/ /\ create \in {"sent", "put"}
        /\ create' = "failed"
        /\ UNCHANGED <<timer, join, notify, clean>>
     \/ /\ join[u] \in {"sent", "saved", "checked"}
        /\ join' = [join EXCEPT ![u] = "replied"]
        /\ UNCHANGED <<timer, create, notify, clean>>
     \/ /\ notify \in {"sent", "decided"}
        /\ notify' = "dead"
        /\ UNCHANGED <<timer, create, join, clean>>
     \/ /\ clean[u] = "sent"
        /\ clean' = [clean EXCEPT ![u] = "done"]
        /\ UNCHANGED <<timer, create, join, notify>>
     \/ /\ timer[u] = "asking"
        /\ timer' = [timer EXCEPT ![u] = "reporting"]
        /\ UNCHANGED <<create, join, notify, clean>>
  /\ UNCHANGED <<threadVars, connVars, unitMsg, storeVars, noticeVars>>

(***************************************************************************)
(* A Redis key reaches its time to live; a TM stops in the middle of its      *)
(* handlers, some of those at work or all of them, and starts again without    *)
(* them.                                                                       *)
(***************************************************************************)
GroupExpires ==
  /\ Fault("expire")
  /\ group = "mortal"
  /\ group' = "absent"
  /\ members' = {}
  /\ UNCHANGED <<threadVars, connVars, timer, rpcVars, vetoed, noticeVars>>

StateExpires ==
  /\ Fault("expire")
  /\ vetoed
  /\ vetoed' = FALSE
  /\ UNCHANGED <<threadVars, connVars, timer, rpcVars, group, members, noticeVars>>

InHandler == {"sent", "put", "saved", "checked", "decided", "looping"}

ManagerCrashes ==
  /\ Fault("tmCrash")
  /\ create' \in {create} \cup {d \in {"dead"} : create \in InHandler}
  /\ \E lost \in SUBSET {u \in Units : join[u] \in InHandler} :
       join' = [u \in Units |-> IF u \in lost THEN "dead" ELSE join[u]]
  /\ \/ UNCHANGED <<notify, toNotify, waiting>>
     \/ /\ notify \in InHandler
        /\ notify' = "dead"
        /\ toNotify' = {}
        /\ waiting' = Nobody
  /\ UNCHANGED <<threadVars, connVars, timer, unitMsg, clean, storeVars, decision>>

ManagerNext ==
  \/ PutGroup
  \/ SetGroupTtl
  \/ Decide
  \/ FindUnits
  \/ UnitAnswered
  \/ ReplyDecision
  \/ GroupExpires
  \/ StateExpires
  \/ ManagerCrashes
  \/ \E u \in Units :
       \/ SaveVeto(u)
       \/ FindGroup(u)
       \/ PutUnit(u)
       \/ NotifyUnit(u)
       \/ ClearGroup(u)
       \/ AnswerState(u)
       \/ RedisThrows(u)
=============================================================================
