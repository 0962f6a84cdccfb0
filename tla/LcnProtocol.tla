---------------------------- MODULE LcnProtocol ----------------------------
(***************************************************************************)
(* One distributed transaction group from its creation to the last answer:   *)
(* the TC side and the TM side together, and what they achieve.               *)
(***************************************************************************)
EXTENDS TxClient, TxManager

Next == ClientNext \/ ManagerNext

Spec == Init /\ [][Next]_vars

(***************************************************************************)
(* Every thread that can go on does so: request threads, pool threads, the    *)
(* scheduler of the delay tasks.  Nothing is assumed of the faults, save that  *)
(* a wait for an answer, where it may end without one, ends.                   *)
(***************************************************************************)
InitiatorStep ==
  \/ BeginTransaction
  \/ GroupCreated
  \/ CreateFails
  \/ \E r \in {"ok", "exception", "error"} : EndInitiator(r)
  \/ NotifyAnswered
  \/ NotifyUnanswered
  \/ \E u \in Units : CallReturns(u)

ConnectionStep(p) == UseCachedConnection(p) \/ OpenConnection(p)

UnitStep(u) ==
  \/ \E r \in {"ok", "exception", "error"} : EndUnit(u, r)
  \/ JoinRefused(u)
  \/ ScheduleCheck(u)
  \/ RegisterCheck(u)

NotifiedStep(u) == UnitActs(u) \/ StopCheck(u) \/ UnitCleansCache(u) \/ UnitReplies(u)

CheckStep(u) ==
  CheckFires(u) \/ CheckUnanswered(u) \/ AnswerState(u) \/ CheckActs(u) \/ CheckCleans(u)

CreateHandler == PutGroup \/ SetGroupTtl

JoinHandler(u) == SaveVeto(u) \/ FindGroup(u) \/ PutUnit(u)

NotifyHandler ==
  \/ Decide
  \/ FindUnits
  \/ \E u \in Units : NotifyUnit(u)
  \/ UnitAnswered
  \/ ReplyDecision

Fairness ==
  /\ WF_vars(InitiatorStep)
  /\ WF_vars(CreateHandler)
  /\ WF_vars(NotifyHandler)
  /\ \A p \in Parties : WF_vars(ConnectionStep(p))
  /\ \A u \in Units : /\ WF_vars(UnitStep(u))
                      /\ WF_vars(JoinHandler(u))
                      /\ WF_vars(NotifiedStep(u))
                      /\ WF_vars(CheckStep(u))

FairSpec == Spec /\ Fairness

-----------------------------------------------------------------------------
(***************************************************************************)
(* Whatever fails, the group implements GroupOutcome: one decision, commits   *)
(* only after it and by it, final outcomes (ConnectionProxy.commit,            *)
(* NotifyGroupExecuteService.execute and the delay task of TransactionChecking  *)
(* together).                                                                  *)
(***************************************************************************)
Outcome == INSTANCE GroupOutcome
             WITH Connections <- Parties, verdict <- decision, outcome <- conn

ImplementsGroupOutcome == Outcome!Spec

(***************************************************************************)
(* All or nothing: no connection of the group is committed while another is   *)
(* rolled back, the delay tasks of TransactionChecking and the local           *)
(* rollback of TransactionJoinTransaction included.                            *)
(***************************************************************************)
Atomic ==
  \A p, q \in Parties : ~(conn[p] = "committed" /\ conn[q] = "rolledback")

(***************************************************************************)
(* A unit whose business threw an Exception stops the group from committing,   *)
(* also when its caller hides the failure: the state key its join-group saved   *)
(* is there when notify-group reads it.  Only a unit whose process stopped, so   *)
(* that its caller did not wait for the join, may come too late.                 *)
(***************************************************************************)
FailedUnitVetoes ==
  decision = "commit" => \A u \in Units : result[u] = "exception" => pc[u] = "crashed"

(***************************************************************************)
(* What commits is finished work: every party that wrote on a committed        *)
(* connection, its own or one it found in the cache of its process, ended its   *)
(* business normally.                                                          *)
(***************************************************************************)
CommittedWorkIsDone ==
  \A p \in Parties : (wrote[p] # Nobody /\ conn[wrote[p]] = "committed") => result[p] = "ok"

(***************************************************************************)
(* When runTransaction of the initiator ends after the answer to its            *)
(* notify-group, no execution of the group holds an open connection any more.   *)
(***************************************************************************)
EndedGroupHoldsNothing ==
  pc[Initiator] = "ended" => \A p \in Parties : conn[p] # "open"

(***************************************************************************)
(* Once the TM answers notify-group with commit, the work of every unit that    *)
(* joined and returned is committed ("notify the participating modules to       *)
(* commit", NotifyGroupExecuteService).                                        *)
(***************************************************************************)
DecisionReachesUnits ==
  (notify = "replied" /\ decision = "commit") =>
    \A u \in Units : (pc[u] = "returned" /\ wrote[u] # Nobody) => conn[wrote[u]] = "committed"

(***************************************************************************)
(* The delay task is never told to roll back a group the TM has decided to      *)
(* commit: askTransactionState documents the answers 0, 1 and -1.               *)
(***************************************************************************)
CheckConfirmsDecision ==
  [][\A u \in Units :
       (timer[u] = "asking" /\ timer'[u] = "answered") => decision # "commit"]_vars

(***************************************************************************)
(* The group's entry goes away by itself ("group info should clean by self",     *)
(* RedisStorage).  It can be without a time to live while create-group works on    *)
(* it or if that handler failed or stopped in between; or because a clean-group     *)
(* deleted it while a join-group that had found it was on its way to put its unit,   *)
(* and then only after the decision, with no unit in it that is or was told of it.    *)
(***************************************************************************)
GroupHasTtl ==
  group = "immortal" =>
    \/ create \in {"put", "dead", "failed"}
    \/ /\ decision # "none"
       /\ \A u \in members : unitMsg[u] = "none" /\ u \notin toNotify

(***************************************************************************)
(* A unit does not keep its database connection open for ever: its join fails    *)
(* and rolls it back, or a notification or its delay task settles it.            *)
(***************************************************************************)
UnitsSettle == \A u \in Units : conn[u] = "open" ~> conn[u] # "open"

(***************************************************************************)
(* The initiator, too, comes to the end of its transaction with its connection   *)
(* settled by the TM's answer.                                                  *)
(***************************************************************************)
InitiatorSettles == pc[Initiator] = "ending" ~> pc[Initiator] = "ended"
=============================================================================
