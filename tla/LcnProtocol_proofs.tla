------------------------ MODULE LcnProtocol_proofs ------------------------
(***************************************************************************)
(* Proofs about LcnProtocol, for any set of units, any deployment and any    *)
(* set of faults unless a theorem says otherwise.                             *)
(***************************************************************************)
EXTENDS LcnProtocol, TLAPS

(***************************************************************************)
(* Who is who: the facts about names that the assumptions of TxGroup give.   *)
(***************************************************************************)
LEMMA Names ==
  /\ Initiator \in Parties
  /\ Units \subseteq Parties
  /\ Initiator \notin Units
  /\ Nobody \notin Parties
  /\ Nobody \notin Units
  /\ \A p \in Parties : HostOf[p] \in Instances
  /\ \A u \in Units : TargetOf(u) \in Instances
BY PartiesAssumption, DeploymentAssumption DEF Parties, TargetOf

-----------------------------------------------------------------------------
(***************************************************************************)
(* Type correctness.                                                         *)
(***************************************************************************)
LEMMA ClientKeepsTypes == ASSUME TypeOK, ClientNext PROVE TypeOK'
<1>1. CASE BeginTransaction
  BY <1>1, Names
  DEF BeginTransaction, TypeOK, ThreadStep, CallStep, connVars, storeVars, noticeVars
<1>2. CASE GroupCreated
  BY <1>2, Names
  DEF GroupCreated, TypeOK, ThreadStep, connVars, rpcVars, storeVars, noticeVars
<1>3. CASE CreateFails
  BY <1>3, Names
  DEF CreateFails, NotifyEnd, TypeOK, ThreadStep, CallStep, connVars, storeVars,
      noticeVars
<1>4. ASSUME NEW r \in {"ok", "exception", "error"}, EndInitiator(r) PROVE TypeOK'
  BY <1>4, Names
  DEF EndInitiator, CallFailed, NotifyEnd, TypeOK, ThreadStep, CallStep, connVars,
      storeVars, noticeVars
<1>5. CASE NotifyAnswered
  BY <1>5, Names
  DEF NotifyAnswered, Settle, Outcomes, Live, TypeOK, ThreadStep, rpcVars, storeVars,
      noticeVars
<1>6. CASE NotifyUnanswered
  BY <1>6, Names
  DEF NotifyUnanswered, TypeOK, ThreadStep, connVars, rpcVars, storeVars, noticeVars
<1>7. ASSUME NEW p \in Parties, UseCachedConnection(p) PROVE TypeOK'
  BY <1>7, Names
  DEF UseCachedConnection, Write, Live, TypeOK, ThreadStep, rpcVars, storeVars, noticeVars
<1>8. ASSUME NEW p \in Parties, MissConnection(p) PROVE TypeOK'
  BY <1>8, Names
  DEF MissConnection, TypeOK, ThreadStep, connVars, rpcVars, storeVars, noticeVars
<1>9. ASSUME NEW p \in Parties, OpenConnection(p) PROVE TypeOK'
  BY <1>9, Names
  DEF OpenConnection, Write, TypeOK, ThreadStep, rpcVars, storeVars, noticeVars
<1>10. ASSUME NEW u \in Units, CallUnit(u) PROVE TypeOK'
  BY <1>10, Names
  DEF CallUnit, TypeOK, ThreadStep, connVars, rpcVars, storeVars, noticeVars
<1>11. ASSUME NEW u \in Units, CallReturns(u) PROVE TypeOK'
  BY <1>11, Names
  DEF CallReturns, CallFailed, TypeOK, connVars, rpcVars, storeVars, noticeVars
<1>12. ASSUME NEW u \in Units, NEW r \in {"ok", "exception", "error"}, EndUnit(u, r) PROVE TypeOK'
  BY <1>12, Names
  DEF EndUnit, TypeOK, ThreadStep, CallStep, connVars, storeVars, noticeVars
<1>13. ASSUME NEW u \in Units, JoinRefused(u) PROVE TypeOK'
  BY <1>13, Names
  DEF JoinRefused, SysState, Settle, Outcomes, Live, TypeOK, ThreadStep, rpcVars,
      storeVars, noticeVars
<1>14. ASSUME NEW u \in Units, ScheduleCheck(u) PROVE TypeOK'
  BY <1>14, Names
  DEF ScheduleCheck, SysState, TypeOK, ThreadStep, connVars, rpcVars, storeVars,
      noticeVars
<1>15. ASSUME NEW u \in Units, RegisterCheck(u) PROVE TypeOK'
  BY <1>15, Names
  DEF RegisterCheck, TypeOK, ThreadStep, connVars, rpcVars, storeVars, noticeVars
<1>16. ASSUME NEW u \in Units, UnitActs(u) PROVE TypeOK'
  BY <1>16, Names
  DEF UnitActs, Settle, Outcomes, Live, TypeOK, CallStep, threadVars, storeVars,
      noticeVars
<1>17. ASSUME NEW u \in Units, StopCheck(u) PROVE TypeOK'
  BY <1>17, Names
  DEF StopCheck, TypeOK, CallStep, threadVars, connVars, storeVars, noticeVars
<1>18. ASSUME NEW u \in Units, UnitCleansCache(u) PROVE TypeOK'
  BY <1>18, Names
  DEF UnitCleansCache, TypeOK, CallStep, threadVars, storeVars, noticeVars
<1>19. ASSUME NEW u \in Units, UnitReplies(u) PROVE TypeOK'
  BY <1>19, Names
  DEF UnitReplies, TypeOK, CallStep, threadVars, connVars, storeVars, noticeVars
<1>20. ASSUME NEW u \in Units, CheckFires(u) PROVE TypeOK'
  BY <1>20, Names
  DEF CheckFires, TypeOK, threadVars, connVars, rpcVars, storeVars, noticeVars
<1>21. ASSUME NEW u \in Units, CheckUnanswered(u) PROVE TypeOK'
  BY <1>21, Names
  DEF CheckUnanswered, TypeOK, threadVars, connVars, rpcVars, storeVars, noticeVars
<1>22. ASSUME NEW u \in Units, CheckActs(u) PROVE TypeOK'
  BY <1>22, Names
  DEF CheckActs, Settle, Outcomes, Live, TypeOK, threadVars, rpcVars, storeVars,
      noticeVars
<1>23. ASSUME NEW u \in Units, CheckCleans(u) PROVE TypeOK'
  BY <1>23, Names
  DEF CheckCleans, TypeOK, threadVars, rpcVars, storeVars, noticeVars
<1>24. ASSUME NEW i \in Instances, EvictConnection(i) PROVE TypeOK'
  BY <1>24, Names
  DEF EvictConnection, TypeOK, threadVars, rpcVars, storeVars, noticeVars
<1>25. ASSUME NEW i \in Instances, ClientCrashes(i) PROVE TypeOK'
  BY <1>25, Names
  DEF ClientCrashes, TypeOK, ThreadStep, CallStep, storeVars, noticeVars
<1>26. QED
  BY <1>1, <1>2, <1>3, <1>4, <1>5, <1>6, <1>7, <1>8, <1>9, <1>10, <1>11, <1>12, <1>13,
     <1>14, <1>15, <1>16, <1>17, <1>18, <1>19, <1>20, <1>21, <1>22, <1>23, <1>24, <1>25
  DEF ClientNext

LEMMA ManagerKeepsTypes == ASSUME TypeOK, ManagerNext PROVE TypeOK'
<1>1. CASE PutGroup
  BY <1>1, Names
  DEF PutGroup, TypeOK, CallStep, threadVars, connVars, noticeVars
<1>2. CASE SetGroupTtl
  BY <1>2, Names
  DEF SetGroupTtl, TypeOK, CallStep, threadVars, connVars, noticeVars
<1>3. CASE Decide
  BY <1>3, Names
  DEF Decide, SysState, TypeOK, CallStep, Decision, threadVars, connVars, storeVars
<1>4. CASE FindUnits
  BY <1>4, Names
  DEF FindUnits, TypeOK, CallStep, threadVars, connVars, storeVars
<1>5. CASE UnitAnswered
  BY <1>5, Names
  DEF UnitAnswered, TypeOK, threadVars, connVars, rpcVars, storeVars
<1>6. CASE ReplyDecision
  BY <1>6, Names
  DEF ReplyDecision, TypeOK, CallStep, threadVars, connVars, storeVars, noticeVars
<1>7. CASE GroupExpires
  BY <1>7, Names
  DEF GroupExpires, TypeOK, threadVars, connVars, rpcVars, noticeVars
<1>8. CASE StateExpires
  BY <1>8, Names
  DEF StateExpires, TypeOK, threadVars, connVars, rpcVars, noticeVars
<1>9. CASE ManagerCrashes
  BY <1>9, Names
  DEF ManagerCrashes, InHandler, TypeOK, CallStep, threadVars, connVars, storeVars
<1>10. ASSUME NEW u \in Units, SaveVeto(u) PROVE TypeOK'
  BY <1>10, Names
  DEF SaveVeto, SysState, TypeOK, CallStep, threadVars, connVars, noticeVars
<1>11. ASSUME NEW u \in Units, FindGroup(u) PROVE TypeOK'
  BY <1>11, Names
  DEF FindGroup, SysState, TypeOK, CallStep, threadVars, connVars, storeVars, noticeVars
<1>12. ASSUME NEW u \in Units, PutUnit(u) PROVE TypeOK'
  BY <1>12, Names
  DEF PutUnit, TypeOK, CallStep, threadVars, connVars, noticeVars
<1>13. ASSUME NEW u \in Units, NotifyUnit(u) PROVE TypeOK'
  BY <1>13, Names
  DEF NotifyUnit, TypeOK, CallStep, threadVars, connVars, storeVars
<1>14. ASSUME NEW u \in Units, ClearGroup(u) PROVE TypeOK'
  BY <1>14, Names
  DEF ClearGroup, TypeOK, threadVars, connVars, noticeVars
<1>15. ASSUME NEW u \in Units, AnswerState(u) PROVE TypeOK'
  BY <1>15, Names
  DEF AnswerState, TypeOK, threadVars, connVars, rpcVars, storeVars, noticeVars
<1>16. ASSUME NEW u \in Units, RedisThrows(u) PROVE TypeOK'
  BY <1>16, Names
  DEF RedisThrows, TypeOK, CallStep, threadVars, connVars, storeVars, noticeVars
<1>17. QED
  BY <1>1, <1>2, <1>3, <1>4, <1>5, <1>6, <1>7, <1>8, <1>9, <1>10, <1>11, <1>12, <1>13,
     <1>14, <1>15, <1>16
  DEF ManagerNext

\* The state of TxGroup keeps its types in every behaviour of the protocol.
THEOREM TypeCorrect == Spec => []TypeOK
<1>1. Init => TypeOK
  BY DEF Init, TypeOK, ThreadStep, CallStep, Decision
<1>2. TypeOK /\ [Next]_vars => TypeOK'
  <2>1. ASSUME TypeOK, UNCHANGED vars PROVE TypeOK'
    BY <2>1 DEF TypeOK, vars, threadVars, connVars, rpcVars, storeVars, noticeVars
  <2>2. QED
    BY <2>1, ClientKeepsTypes, ManagerKeepsTypes DEF Next
<1>3. QED
  BY <1>1, <1>2, PTL DEF Spec

-----------------------------------------------------------------------------
(***************************************************************************)
(* What the single decision rests on: the initiator notifies once, the TM's  *)
(* handler decides before it tells anybody, and no party opens a second       *)
(* connection.                                                               *)
(***************************************************************************)
NotifyOnce ==
  pc[Initiator] \in {"begin", "creating", "start", "opening", "worked"} => notify = "none"

DecidedByHandler ==
  /\ decision = "none" => /\ notify \in {"none", "sent", "dead"}
                          /\ \A u \in Units : unitMsg[u] = "none"
  /\ decision # "none" => notify \notin {"none", "sent"}

FreshConnection ==
  \A p \in Parties :
    pc[p] \in {"begin", "creating", "idle", "start", "opening"} => conn[p] = "none"

DecisionInv == NotifyOnce /\ DecidedByHandler /\ FreshConnection

LEMMA ClientKeepsDecision == ASSUME TypeOK, DecisionInv, ClientNext PROVE DecisionInv'
<1>1. CASE BeginTransaction
  BY <1>1, Names
  DEF BeginTransaction, DecisionInv, NotifyOnce, DecidedByHandler, FreshConnection,
      TypeOK, ThreadStep, CallStep, connVars, storeVars, noticeVars
<1>2. CASE GroupCreated
  BY <1>2, Names
  DEF GroupCreated, DecisionInv, NotifyOnce, DecidedByHandler, FreshConnection, TypeOK,
      ThreadStep, connVars, rpcVars, storeVars, noticeVars
<1>3. CASE CreateFails
  BY <1>3, Names
  DEF CreateFails, NotifyEnd, DecisionInv, NotifyOnce, DecidedByHandler, FreshConnection,
      TypeOK, ThreadStep, CallStep, connVars, storeVars, noticeVars
<1>4. ASSUME NEW r \in {"ok", "exception", "error"}, EndInitiator(r) PROVE DecisionInv'
  BY <1>4, Names
  DEF EndInitiator, CallFailed, NotifyEnd, DecisionInv, NotifyOnce, DecidedByHandler,
      FreshConnection, TypeOK, ThreadStep, CallStep, connVars, storeVars, noticeVars
<1>5. CASE NotifyAnswered
  BY <1>5, Names
  DEF NotifyAnswered, Settle, Outcomes, Live, DecisionInv, NotifyOnce, DecidedByHandler,
      FreshConnection, TypeOK, ThreadStep, rpcVars, storeVars, noticeVars
<1>6. CASE NotifyUnanswered
  BY <1>6, Names
  DEF NotifyUnanswered, DecisionInv, NotifyOnce, DecidedByHandler, FreshConnection,
      TypeOK, ThreadStep, connVars, rpcVars, storeVars, noticeVars
<1>7. ASSUME NEW p \in Parties, UseCachedConnection(p) PROVE DecisionInv'
  BY <1>7, Names
  DEF UseCachedConnection, Write, Live, DecisionInv, NotifyOnce, DecidedByHandler,
      FreshConnection, TypeOK, ThreadStep, rpcVars, storeVars, noticeVars
<1>8. ASSUME NEW p \in Parties, MissConnection(p) PROVE DecisionInv'
  BY <1>8, Names
  DEF MissConnection, DecisionInv, NotifyOnce, DecidedByHandler, FreshConnection, TypeOK,
      ThreadStep, connVars, rpcVars, storeVars, noticeVars
<1>9. ASSUME NEW p \in Parties, OpenConnection(p) PROVE DecisionInv'
  BY <1>9, Names
  DEF OpenConnection, Write, DecisionInv, NotifyOnce, DecidedByHandler, FreshConnection, TypeOK,
      ThreadStep, rpcVars, storeVars, noticeVars
<1>10. ASSUME NEW u \in Units, CallUnit(u) PROVE DecisionInv'
  BY <1>10, Names
  DEF CallUnit, DecisionInv, NotifyOnce, DecidedByHandler, FreshConnection, TypeOK,
      ThreadStep, connVars, rpcVars, storeVars, noticeVars
<1>11. ASSUME NEW u \in Units, CallReturns(u) PROVE DecisionInv'
  BY <1>11, Names
  DEF CallReturns, CallFailed, DecisionInv, NotifyOnce, DecidedByHandler, FreshConnection,
      TypeOK, connVars, rpcVars, storeVars, noticeVars
<1>12. ASSUME NEW u \in Units, NEW r \in {"ok", "exception", "error"}, EndUnit(u, r) PROVE DecisionInv'
  BY <1>12, Names
  DEF EndUnit, DecisionInv, NotifyOnce, DecidedByHandler, FreshConnection, TypeOK,
      ThreadStep, CallStep, connVars, storeVars, noticeVars
<1>13. ASSUME NEW u \in Units, JoinRefused(u) PROVE DecisionInv'
  BY <1>13, Names
  DEF JoinRefused, SysState, Settle, Outcomes, Live, DecisionInv, NotifyOnce,
      DecidedByHandler, FreshConnection, TypeOK, ThreadStep, rpcVars, storeVars,
      noticeVars
<1>14. ASSUME NEW u \in Units, ScheduleCheck(u) PROVE DecisionInv'
  BY <1>14, Names
  DEF ScheduleCheck, SysState, DecisionInv, NotifyOnce, DecidedByHandler, FreshConnection,
      TypeOK, ThreadStep, connVars, rpcVars, storeVars, noticeVars
<1>15. ASSUME NEW u \in Units, RegisterCheck(u) PROVE DecisionInv'
  BY <1>15, Names
  DEF RegisterCheck, DecisionInv, NotifyOnce, DecidedByHandler, FreshConnection, TypeOK,
      ThreadStep, connVars, rpcVars, storeVars, noticeVars
<1>16. ASSUME NEW u \in Units, UnitActs(u) PROVE DecisionInv'
  BY <1>16, Names
  DEF UnitActs, Settle, Outcomes, Live, DecisionInv, NotifyOnce, DecidedByHandler,
      FreshConnection, TypeOK, CallStep, threadVars, storeVars, noticeVars
<1>17. ASSUME NEW u \in Units, StopCheck(u) PROVE DecisionInv'
  BY <1>17, Names
  DEF StopCheck, DecisionInv, NotifyOnce, DecidedByHandler, FreshConnection, TypeOK,
      CallStep, threadVars, connVars, storeVars, noticeVars
<1>18. ASSUME NEW u \in Units, UnitCleansCache(u) PROVE DecisionInv'
  BY <1>18, Names
  DEF UnitCleansCache, DecisionInv, NotifyOnce, DecidedByHandler, FreshConnection, TypeOK,
      CallStep, threadVars, storeVars, noticeVars
<1>19. ASSUME NEW u \in Units, UnitReplies(u) PROVE DecisionInv'
  BY <1>19, Names
  DEF UnitReplies, DecisionInv, NotifyOnce, DecidedByHandler, FreshConnection, TypeOK,
      CallStep, threadVars, connVars, storeVars, noticeVars
<1>20. ASSUME NEW u \in Units, CheckFires(u) PROVE DecisionInv'
  BY <1>20, Names
  DEF CheckFires, DecisionInv, NotifyOnce, DecidedByHandler, FreshConnection, TypeOK,
      threadVars, connVars, rpcVars, storeVars, noticeVars
<1>21. ASSUME NEW u \in Units, CheckUnanswered(u) PROVE DecisionInv'
  BY <1>21, Names
  DEF CheckUnanswered, DecisionInv, NotifyOnce, DecidedByHandler, FreshConnection, TypeOK,
      threadVars, connVars, rpcVars, storeVars, noticeVars
<1>22. ASSUME NEW u \in Units, CheckActs(u) PROVE DecisionInv'
  BY <1>22, Names
  DEF CheckActs, Settle, Outcomes, Live, DecisionInv, NotifyOnce, DecidedByHandler,
      FreshConnection, TypeOK, threadVars, rpcVars, storeVars, noticeVars
<1>23. ASSUME NEW u \in Units, CheckCleans(u) PROVE DecisionInv'
  BY <1>23, Names
  DEF CheckCleans, DecisionInv, NotifyOnce, DecidedByHandler, FreshConnection, TypeOK,
      threadVars, rpcVars, storeVars, noticeVars
<1>24. ASSUME NEW i \in Instances, EvictConnection(i) PROVE DecisionInv'
  BY <1>24, Names
  DEF EvictConnection, DecisionInv, NotifyOnce, DecidedByHandler, FreshConnection, TypeOK,
      threadVars, rpcVars, storeVars, noticeVars
<1>25. ASSUME NEW i \in Instances, ClientCrashes(i) PROVE DecisionInv'
  BY <1>25, Names
  DEF ClientCrashes, DecisionInv, NotifyOnce, DecidedByHandler, FreshConnection, TypeOK,
      ThreadStep, CallStep, storeVars, noticeVars
<1>26. QED
  BY <1>1, <1>2, <1>3, <1>4, <1>5, <1>6, <1>7, <1>8, <1>9, <1>10, <1>11, <1>12, <1>13,
     <1>14, <1>15, <1>16, <1>17, <1>18, <1>19, <1>20, <1>21, <1>22, <1>23, <1>24, <1>25
  DEF ClientNext

LEMMA ManagerKeepsDecision == ASSUME TypeOK, DecisionInv, ManagerNext PROVE DecisionInv'
<1>1. CASE PutGroup
  BY <1>1, Names
  DEF PutGroup, DecisionInv, NotifyOnce, DecidedByHandler, FreshConnection, TypeOK,
      CallStep, threadVars, connVars, noticeVars
<1>2. CASE SetGroupTtl
  BY <1>2, Names
  DEF SetGroupTtl, DecisionInv, NotifyOnce, DecidedByHandler, FreshConnection, TypeOK,
      CallStep, threadVars, connVars, noticeVars
<1>3. CASE Decide
  BY <1>3, Names
  DEF Decide, SysState, DecisionInv, NotifyOnce, DecidedByHandler, FreshConnection,
      TypeOK, CallStep, Decision, threadVars, connVars, storeVars
<1>4. CASE FindUnits
  BY <1>4, Names
  DEF FindUnits, DecisionInv, NotifyOnce, DecidedByHandler, FreshConnection, TypeOK,
      CallStep, threadVars, connVars, storeVars
<1>5. CASE UnitAnswered
  BY <1>5, Names
  DEF UnitAnswered, DecisionInv, NotifyOnce, DecidedByHandler, FreshConnection, TypeOK,
      threadVars, connVars, rpcVars, storeVars
<1>6. CASE ReplyDecision
  BY <1>6, Names
  DEF ReplyDecision, DecisionInv, NotifyOnce, DecidedByHandler, FreshConnection, TypeOK,
      CallStep, threadVars, connVars, storeVars, noticeVars
<1>7. CASE GroupExpires
  BY <1>7, Names
  DEF GroupExpires, DecisionInv, NotifyOnce, DecidedByHandler, FreshConnection, TypeOK,
      threadVars, connVars, rpcVars, noticeVars
<1>8. CASE StateExpires
  BY <1>8, Names
  DEF StateExpires, DecisionInv, NotifyOnce, DecidedByHandler, FreshConnection, TypeOK,
      threadVars, connVars, rpcVars, noticeVars
<1>9. CASE ManagerCrashes
  BY <1>9, Names
  DEF ManagerCrashes, InHandler, DecisionInv, NotifyOnce, DecidedByHandler,
      FreshConnection, TypeOK, CallStep, threadVars, connVars, storeVars
<1>10. ASSUME NEW u \in Units, SaveVeto(u) PROVE DecisionInv'
  BY <1>10, Names
  DEF SaveVeto, SysState, DecisionInv, NotifyOnce, DecidedByHandler, FreshConnection,
      TypeOK, CallStep, threadVars, connVars, noticeVars
<1>11. ASSUME NEW u \in Units, FindGroup(u) PROVE DecisionInv'
  BY <1>11, Names
  DEF FindGroup, SysState, DecisionInv, NotifyOnce, DecidedByHandler, FreshConnection,
      TypeOK, CallStep, threadVars, connVars, storeVars, noticeVars
<1>12. ASSUME NEW u \in Units, PutUnit(u) PROVE DecisionInv'
  BY <1>12, Names
  DEF PutUnit, DecisionInv, NotifyOnce, DecidedByHandler, FreshConnection, TypeOK,
      CallStep, threadVars, connVars, noticeVars
<1>13. ASSUME NEW u \in Units, NotifyUnit(u) PROVE DecisionInv'
  BY <1>13, Names
  DEF NotifyUnit, DecisionInv, NotifyOnce, DecidedByHandler, FreshConnection, TypeOK,
      CallStep, threadVars, connVars, storeVars
<1>14. ASSUME NEW u \in Units, ClearGroup(u) PROVE DecisionInv'
  BY <1>14, Names
  DEF ClearGroup, DecisionInv, NotifyOnce, DecidedByHandler, FreshConnection, TypeOK,
      threadVars, connVars, noticeVars
<1>15. ASSUME NEW u \in Units, AnswerState(u) PROVE DecisionInv'
  BY <1>15, Names
  DEF AnswerState, DecisionInv, NotifyOnce, DecidedByHandler, FreshConnection, TypeOK,
      threadVars, connVars, rpcVars, storeVars, noticeVars
<1>16. ASSUME NEW u \in Units, RedisThrows(u) PROVE DecisionInv'
  BY <1>16, Names
  DEF RedisThrows, DecisionInv, NotifyOnce, DecidedByHandler, FreshConnection, TypeOK,
      CallStep, threadVars, connVars, storeVars, noticeVars
<1>17. QED
  BY <1>1, <1>2, <1>3, <1>4, <1>5, <1>6, <1>7, <1>8, <1>9, <1>10, <1>11, <1>12, <1>13,
     <1>14, <1>15, <1>16
  DEF ManagerNext

LEMMA DecisionInvariant == Spec => []DecisionInv
<1>1. Init => DecisionInv
  BY Names DEF Init, DecisionInv, NotifyOnce, DecidedByHandler, FreshConnection
<1>2. TypeOK /\ DecisionInv /\ [Next]_vars => DecisionInv'
  <2>1. ASSUME DecisionInv, UNCHANGED vars PROVE DecisionInv'
    BY <2>1 DEF DecisionInv, NotifyOnce, DecidedByHandler, FreshConnection, vars, threadVars,
                connVars, rpcVars, noticeVars
  <2>2. QED
    BY <2>1, ClientKeepsDecision, ManagerKeepsDecision DEF Next
<1>3. QED
  BY <1>1, <1>2, TypeCorrect, PTL DEF Spec

-----------------------------------------------------------------------------
(***************************************************************************)
(* Every step of the protocol is a step of GroupOutcome or leaves its state   *)
(* alone.                                                                     *)
(***************************************************************************)
LEMMA SettleImplements ==
  ASSUME TypeOK, NEW i \in Instances, NEW d \in {"commit", "rollback"},
         Settle(i, d), d = "commit" => decision = "commit", UNCHANGED decision
  PROVE  Outcome!Next \/ UNCHANGED <<decision, conn>>
<1>1. CASE UNCHANGED conn
  BY <1>1
<1>2. CASE Live(i) /\ \E x \in Outcomes(d) : conn' = [conn EXCEPT ![cache[i]] = x]
  <2>1. cache[i] \in Parties /\ conn[cache[i]] = "open"
    BY <1>2 DEF Live, TypeOK
  <2>2. PICK x \in Outcomes(d) : conn' = [conn EXCEPT ![cache[i]] = x]
    BY <1>2
  <2>3. CASE x = "rolledback"
    <3>1. conn' = [c \in Parties |-> IF c \in {cache[i]} THEN "rolledback" ELSE conn[c]]
      BY <2>1, <2>2, <2>3 DEF TypeOK
    <3>2. Outcome!RollBack({cache[i]})
      BY <2>1, <3>1 DEF Outcome!RollBack
    <3>3. {cache[i]} \in SUBSET Parties
      BY <2>1
    <3>4. QED
      BY <3>2, <3>3 DEF Outcome!Next
  <2>4. CASE x = "committed"
    <3>1. Outcome!Commit(cache[i])
      BY <2>1, <2>2, <2>4 DEF Outcome!Commit, Outcomes
    <3>2. QED
      BY <2>1, <3>1 DEF Outcome!Next
  <2>5. QED
    BY <2>2, <2>3, <2>4 DEF Outcomes
<1>3. QED
  BY <1>1, <1>2 DEF Settle

LEMMA CrashImplements ==
  ASSUME TypeOK, NEW i \in Instances, ClientCrashes(i)
  PROVE  Outcome!Next
<1> DEFINE S == {p \in Parties : HostOf[p] = i /\ conn[p] = "open"}
<1>1. conn' = [p \in Parties |-> IF p \in S THEN "rolledback" ELSE conn[p]]
  BY DEF ClientCrashes, TypeOK
<1>2. Outcome!RollBack(S)
  BY <1>1 DEF Outcome!RollBack, ClientCrashes, noticeVars
<1>3. QED
  BY <1>2 DEF Outcome!Next

LEMMA ClientImplements ==
  ASSUME TypeOK, DecisionInv, ClientNext
  PROVE  Outcome!Next \/ UNCHANGED <<decision, conn>>
<1>1. CASE BeginTransaction
  BY <1>1 DEF BeginTransaction, connVars, noticeVars
<1>2. CASE GroupCreated
  BY <1>2 DEF GroupCreated, connVars, noticeVars
<1>3. CASE CreateFails
  BY <1>3 DEF CreateFails, NotifyEnd, connVars, noticeVars
<1>4. ASSUME NEW r \in {"ok", "exception", "error"}, EndInitiator(r)
        PROVE  Outcome!Next \/ UNCHANGED <<decision, conn>>
  BY <1>4 DEF EndInitiator, NotifyEnd, connVars, noticeVars
<1>5. CASE NotifyAnswered
  BY <1>5, SettleImplements, Names DEF NotifyAnswered, DecisionInv, DecidedByHandler, TypeOK,
                  Decision, noticeVars
<1>6. CASE NotifyUnanswered
  BY <1>6 DEF NotifyUnanswered, connVars, noticeVars
<1>7. ASSUME NEW p \in Parties, UseCachedConnection(p)
        PROVE  Outcome!Next \/ UNCHANGED <<decision, conn>>
  BY <1>7 DEF UseCachedConnection, Write, noticeVars
<1>8. ASSUME NEW p \in Parties, MissConnection(p)
        PROVE  Outcome!Next \/ UNCHANGED <<decision, conn>>
  BY <1>8 DEF MissConnection, connVars, noticeVars
<1>9. ASSUME NEW p \in Parties, OpenConnection(p)
        PROVE  Outcome!Next \/ UNCHANGED <<decision, conn>>
  <2>1. Outcome!Open(p)
    BY <1>9 DEF OpenConnection, Write, Outcome!Open, DecisionInv, FreshConnection, noticeVars
  <2>2. QED
    BY <2>1 DEF Outcome!Next
<1>10. ASSUME NEW u \in Units, CallUnit(u)
        PROVE  Outcome!Next \/ UNCHANGED <<decision, conn>>
  BY <1>10 DEF CallUnit, connVars, noticeVars
<1>11. ASSUME NEW u \in Units, CallReturns(u)
        PROVE  Outcome!Next \/ UNCHANGED <<decision, conn>>
  BY <1>11 DEF CallReturns, connVars, noticeVars
<1>12. ASSUME NEW u \in Units, NEW r \in {"ok", "exception", "error"}, EndUnit(u, r)
        PROVE  Outcome!Next \/ UNCHANGED <<decision, conn>>
  BY <1>12 DEF EndUnit, connVars, noticeVars
<1>13. ASSUME NEW u \in Units, JoinRefused(u)
        PROVE  Outcome!Next \/ UNCHANGED <<decision, conn>>
  BY <1>13, SettleImplements, Names DEF JoinRefused, noticeVars
<1>14. ASSUME NEW u \in Units, ScheduleCheck(u)
        PROVE  Outcome!Next \/ UNCHANGED <<decision, conn>>
  BY <1>14 DEF ScheduleCheck, connVars, noticeVars
<1>15. ASSUME NEW u \in Units, RegisterCheck(u)
        PROVE  Outcome!Next \/ UNCHANGED <<decision, conn>>
  BY <1>15 DEF RegisterCheck, connVars, noticeVars
<1>16. ASSUME NEW u \in Units, UnitActs(u)
        PROVE  Outcome!Next \/ UNCHANGED <<decision, conn>>
  BY <1>16, SettleImplements, Names DEF UnitActs, DecisionInv, DecidedByHandler, TypeOK,
                   Decision, noticeVars
<1>17. ASSUME NEW u \in Units, StopCheck(u)
        PROVE  Outcome!Next \/ UNCHANGED <<decision, conn>>
  BY <1>17 DEF StopCheck, connVars, noticeVars
<1>18. ASSUME NEW u \in Units, UnitCleansCache(u)
        PROVE  Outcome!Next \/ UNCHANGED <<decision, conn>>
  BY <1>18 DEF UnitCleansCache, noticeVars
<1>19. ASSUME NEW u \in Units, UnitReplies(u)
        PROVE  Outcome!Next \/ UNCHANGED <<decision, conn>>
  BY <1>19 DEF UnitReplies, connVars, noticeVars
<1>20. ASSUME NEW u \in Units, CheckFires(u)
        PROVE  Outcome!Next \/ UNCHANGED <<decision, conn>>
  BY <1>20 DEF CheckFires, connVars, noticeVars
<1>21. ASSUME NEW u \in Units, CheckUnanswered(u)
        PROVE  Outcome!Next \/ UNCHANGED <<decision, conn>>
  BY <1>21 DEF CheckUnanswered, connVars, noticeVars
<1>22. ASSUME NEW u \in Units, CheckActs(u)
        PROVE  Outcome!Next \/ UNCHANGED <<decision, conn>>
  BY <1>22, SettleImplements, Names DEF CheckActs, noticeVars
<1>23. ASSUME NEW u \in Units, CheckCleans(u)
        PROVE  Outcome!Next \/ UNCHANGED <<decision, conn>>
  BY <1>23 DEF CheckCleans, noticeVars
<1>24. ASSUME NEW i \in Instances, EvictConnection(i)
        PROVE  Outcome!Next \/ UNCHANGED <<decision, conn>>
  BY <1>24 DEF EvictConnection, noticeVars
<1>25. ASSUME NEW i \in Instances, ClientCrashes(i)
        PROVE  Outcome!Next \/ UNCHANGED <<decision, conn>>
  BY <1>25, CrashImplements
<1>26. QED
  BY <1>1, <1>2, <1>3, <1>4, <1>5, <1>6, <1>7, <1>8, <1>9, <1>10, <1>11, <1>12, <1>13,
     <1>14, <1>15, <1>16, <1>17, <1>18, <1>19, <1>20, <1>21, <1>22, <1>23, <1>24, <1>25
  DEF ClientNext

LEMMA ManagerImplements ==
  ASSUME TypeOK, DecisionInv, ManagerNext
  PROVE  Outcome!Next \/ UNCHANGED <<decision, conn>>
<1>1. CASE PutGroup
  BY <1>1 DEF PutGroup, connVars, noticeVars
<1>2. CASE SetGroupTtl
  BY <1>2 DEF SetGroupTtl, connVars, noticeVars
<1>3. CASE Decide
  <2>1. decision = "none"
    BY <1>3 DEF Decide, DecisionInv, DecidedByHandler
  <2>2. PICK d \in {"commit", "rollback"} : decision' = d
    BY <1>3 DEF Decide, SysState
  <2>3. Outcome!Decide(d)
    BY <1>3, <2>1, <2>2 DEF Decide, Outcome!Decide, connVars
  <2>4. QED
    BY <2>3 DEF Outcome!Next
<1>4. CASE FindUnits
  BY <1>4 DEF FindUnits, connVars
<1>5. CASE UnitAnswered
  BY <1>5 DEF UnitAnswered, connVars
<1>6. CASE ReplyDecision
  BY <1>6 DEF ReplyDecision, connVars, noticeVars
<1>7. CASE GroupExpires
  BY <1>7 DEF GroupExpires, connVars, noticeVars
<1>8. CASE StateExpires
  BY <1>8 DEF StateExpires, connVars, noticeVars
<1>9. CASE ManagerCrashes
  BY <1>9 DEF ManagerCrashes, connVars
<1>10. ASSUME NEW u \in Units, SaveVeto(u)
        PROVE  Outcome!Next \/ UNCHANGED <<decision, conn>>
  BY <1>10 DEF SaveVeto, connVars, noticeVars
<1>11. ASSUME NEW u \in Units, FindGroup(u)
        PROVE  Outcome!Next \/ UNCHANGED <<decision, conn>>
  BY <1>11 DEF FindGroup, connVars, noticeVars
<1>12. ASSUME NEW u \in Units, PutUnit(u)
        PROVE  Outcome!Next \/ UNCHANGED <<decision, conn>>
  BY <1>12 DEF PutUnit, connVars, noticeVars
<1>13. ASSUME NEW u \in Units, NotifyUnit(u)
        PROVE  Outcome!Next \/ UNCHANGED <<decision, conn>>
  BY <1>13 DEF NotifyUnit, connVars
<1>14. ASSUME NEW u \in Units, ClearGroup(u)
        PROVE  Outcome!Next \/ UNCHANGED <<decision, conn>>
  BY <1>14 DEF ClearGroup, connVars, noticeVars
<1>15. ASSUME NEW u \in Units, AnswerState(u)
        PROVE  Outcome!Next \/ UNCHANGED <<decision, conn>>
  BY <1>15 DEF AnswerState, connVars, noticeVars
<1>16. ASSUME NEW u \in Units, RedisThrows(u)
        PROVE  Outcome!Next \/ UNCHANGED <<decision, conn>>
  BY <1>16 DEF RedisThrows, connVars, noticeVars
<1>17. QED
  BY <1>1, <1>2, <1>3, <1>4, <1>5, <1>6, <1>7, <1>8, <1>9, <1>10, <1>11, <1>12, <1>13,
     <1>14, <1>15, <1>16
  DEF ManagerNext

\* Whatever the deployment and the faults: one decision, commits only by it and
\* after it, and no outcome of a connection ever changes.
THEOREM Implementation == Spec => ImplementsGroupOutcome
<1>1. Init => Outcome!Init
  BY DEF Init, Outcome!Init
<1>2. TypeOK /\ DecisionInv /\ [Next]_vars => [Outcome!Next]_<<decision, conn>>
  <2>1. ASSUME UNCHANGED vars PROVE UNCHANGED <<decision, conn>>
    BY <2>1 DEF vars, connVars, noticeVars
  <2>2. QED
    BY <2>1, ClientImplements, ManagerImplements DEF Next
<1>3. QED
  BY <1>1, <1>2, TypeCorrect, DecisionInvariant, PTL
  DEF Spec, ImplementsGroupOutcome, Outcome!Spec

-----------------------------------------------------------------------------
(***************************************************************************)
(* The veto.  It holds while no join-group of a unit that runs can still be    *)
(* under way, or have been lost, when the initiator ends: the initiator calls    *)
(* one unit at a time and waits for it, and the unit waits for the TM.          *)
(***************************************************************************)
JoinsInTime ==
  Faults \cap {"httpTimeout", "rpcTimeout", "channel", "expire", "redis", "tmCrash"} = {}

RunningUnitIsCalled ==
  \A u \in Units :
    pc[u] \in {"start", "opening", "worked", "joining", "registering"} =>
      /\ notify = "none"
      /\ calling = u \/ pc[Initiator] = "crashed"

CallerWaits == calling # Nobody => pc[Initiator] \in {"start", "worked"}

FailedUnitJoins ==
  \A u \in Units : result[u] = "exception" => pc[u] \in {"joining", "threw", "crashed"}

JoinsSurvive == \A u \in Units : join[u] # "dead"

VetoIsSaved ==
  \A u \in Units :
    (result[u] = "exception" /\ (pc[u] = "threw" \/ join[u] \in {"saved", "checked", "replied"}))
      => vetoed

VetoInv == /\ RunningUnitIsCalled
           /\ CallerWaits
           /\ FailedUnitJoins
           /\ JoinsSurvive
           /\ VetoIsSaved
           /\ FailedUnitVetoes

LEMMA NoLateJoin ==
  ASSUME JoinsInTime
  PROVE  /\ ~Fault("httpTimeout")
         /\ ~Fault("rpcTimeout")
         /\ ~Fault("channel")
         /\ ~Fault("expire")
         /\ ~Fault("redis")
         /\ ~Fault("tmCrash")
BY DEF JoinsInTime, Fault

LEMMA ClientKeepsVeto ==
  ASSUME JoinsInTime, TypeOK, DecisionInv, VetoInv, ClientNext PROVE VetoInv'
<1>1. CASE BeginTransaction
  BY <1>1, NoLateJoin, Names
  DEF BeginTransaction, VetoInv, RunningUnitIsCalled, CallerWaits, FailedUnitJoins,
      JoinsSurvive, VetoIsSaved, FailedUnitVetoes, DecisionInv, NotifyOnce,
      DecidedByHandler, TypeOK, ThreadStep, CallStep, connVars, storeVars, noticeVars
<1>2. CASE GroupCreated
  BY <1>2, NoLateJoin, Names
  DEF GroupCreated, VetoInv, RunningUnitIsCalled, CallerWaits, FailedUnitJoins,
      JoinsSurvive, VetoIsSaved, FailedUnitVetoes, DecisionInv, NotifyOnce,
      DecidedByHandler, TypeOK, ThreadStep, connVars, rpcVars, storeVars, noticeVars
<1>3. CASE CreateFails
  BY <1>3, NoLateJoin, Names
  DEF CreateFails, Unanswered, NotifyEnd, VetoInv, RunningUnitIsCalled, CallerWaits,
      FailedUnitJoins, JoinsSurvive, VetoIsSaved, FailedUnitVetoes, DecisionInv,
      NotifyOnce, DecidedByHandler, TypeOK, ThreadStep, CallStep, connVars, storeVars,
      noticeVars
<1>4. ASSUME NEW r \in {"ok", "exception", "error"}, EndInitiator(r) PROVE VetoInv'
  BY <1>4, NoLateJoin, Names
  DEF EndInitiator, CallFailed, NotifyEnd, VetoInv, RunningUnitIsCalled, CallerWaits,
      FailedUnitJoins, JoinsSurvive, VetoIsSaved, FailedUnitVetoes, DecisionInv,
      NotifyOnce, DecidedByHandler, TypeOK, ThreadStep, CallStep, connVars, storeVars,
      noticeVars
<1>5. CASE NotifyAnswered
  BY <1>5, NoLateJoin, Names
  DEF NotifyAnswered, Settle, Outcomes, Live, VetoInv, RunningUnitIsCalled, CallerWaits,
      FailedUnitJoins, JoinsSurvive, VetoIsSaved, FailedUnitVetoes, DecisionInv,
      NotifyOnce, DecidedByHandler, TypeOK, ThreadStep, rpcVars, storeVars, noticeVars
<1>6. CASE NotifyUnanswered
  BY <1>6, NoLateJoin, Names
  DEF NotifyUnanswered, VetoInv, RunningUnitIsCalled, CallerWaits, FailedUnitJoins,
      JoinsSurvive, VetoIsSaved, FailedUnitVetoes, DecisionInv, NotifyOnce,
      DecidedByHandler, TypeOK, ThreadStep, connVars, rpcVars, storeVars, noticeVars
<1>7. ASSUME NEW p \in Parties, UseCachedConnection(p) PROVE VetoInv'
  BY <1>7, NoLateJoin, Names
  DEF UseCachedConnection, Write, Live, VetoInv, RunningUnitIsCalled, CallerWaits,
      FailedUnitJoins, JoinsSurvive, VetoIsSaved, FailedUnitVetoes, DecisionInv,
      NotifyOnce, DecidedByHandler, TypeOK, ThreadStep, rpcVars, storeVars, noticeVars
<1>8. ASSUME NEW p \in Parties, MissConnection(p) PROVE VetoInv'
  BY <1>8, NoLateJoin, Names
  DEF MissConnection, VetoInv, RunningUnitIsCalled, CallerWaits, FailedUnitJoins,
      JoinsSurvive, VetoIsSaved, FailedUnitVetoes, DecisionInv, NotifyOnce,
      DecidedByHandler, TypeOK, ThreadStep, connVars, rpcVars, storeVars, noticeVars
<1>9. ASSUME NEW p \in Parties, OpenConnection(p) PROVE VetoInv'
  BY <1>9, NoLateJoin, Names
  DEF OpenConnection, Write, VetoInv, RunningUnitIsCalled, CallerWaits, FailedUnitJoins,
      JoinsSurvive, VetoIsSaved, FailedUnitVetoes, DecisionInv, NotifyOnce,
      DecidedByHandler, TypeOK, ThreadStep, rpcVars, storeVars, noticeVars
<1>10. ASSUME NEW u \in Units, CallUnit(u) PROVE VetoInv'
  BY <1>10, NoLateJoin, Names
  DEF CallUnit, VetoInv, RunningUnitIsCalled, CallerWaits, FailedUnitJoins,
      JoinsSurvive, VetoIsSaved, FailedUnitVetoes, DecisionInv, NotifyOnce,
      DecidedByHandler, TypeOK, ThreadStep, connVars, rpcVars, storeVars, noticeVars
<1>11. ASSUME NEW u \in Units, CallReturns(u) PROVE VetoInv'
  BY <1>11, NoLateJoin, Names
  DEF CallReturns, CallFailed, VetoInv, RunningUnitIsCalled, CallerWaits,
      FailedUnitJoins, JoinsSurvive, VetoIsSaved, FailedUnitVetoes, DecisionInv,
      NotifyOnce, DecidedByHandler, TypeOK, connVars, rpcVars, storeVars, noticeVars
<1>12. ASSUME NEW u \in Units, NEW r \in {"ok", "exception", "error"}, EndUnit(u, r) PROVE VetoInv'
  BY <1>12, NoLateJoin, Names
  DEF EndUnit, VetoInv, RunningUnitIsCalled, CallerWaits, FailedUnitJoins, JoinsSurvive,
      VetoIsSaved, FailedUnitVetoes, DecisionInv, NotifyOnce, DecidedByHandler, TypeOK,
      ThreadStep, CallStep, connVars, storeVars, noticeVars
<1>13. ASSUME NEW u \in Units, JoinRefused(u) PROVE VetoInv'
  BY <1>13, NoLateJoin, Names
  DEF JoinRefused, Unanswered, SysState, Settle, Outcomes, Live, VetoInv,
      RunningUnitIsCalled, CallerWaits, FailedUnitJoins, JoinsSurvive, VetoIsSaved,
      FailedUnitVetoes, DecisionInv, NotifyOnce, DecidedByHandler, TypeOK, ThreadStep,
      rpcVars, storeVars, noticeVars
<1>14. ASSUME NEW u \in Units, ScheduleCheck(u) PROVE VetoInv'
  BY <1>14, NoLateJoin, Names
  DEF ScheduleCheck, SysState, VetoInv, RunningUnitIsCalled, CallerWaits,
      FailedUnitJoins, JoinsSurvive, VetoIsSaved, FailedUnitVetoes, DecisionInv,
      NotifyOnce, DecidedByHandler, TypeOK, ThreadStep, connVars, rpcVars, storeVars,
      noticeVars
<1>15. ASSUME NEW u \in Units, RegisterCheck(u) PROVE VetoInv'
  BY <1>15, NoLateJoin, Names
  DEF RegisterCheck, VetoInv, RunningUnitIsCalled, CallerWaits, FailedUnitJoins,
      JoinsSurvive, VetoIsSaved, FailedUnitVetoes, DecisionInv, NotifyOnce,
      DecidedByHandler, TypeOK, ThreadStep, connVars, rpcVars, storeVars, noticeVars
<1>16. ASSUME NEW u \in Units, UnitActs(u) PROVE VetoInv'
  BY <1>16, NoLateJoin, Names
  DEF UnitActs, Settle, Outcomes, Live, VetoInv, RunningUnitIsCalled, CallerWaits,
      FailedUnitJoins, JoinsSurvive, VetoIsSaved, FailedUnitVetoes, DecisionInv,
      NotifyOnce, DecidedByHandler, TypeOK, CallStep, threadVars, storeVars, noticeVars
<1>17. ASSUME NEW u \in Units, StopCheck(u) PROVE VetoInv'
  BY <1>17, NoLateJoin, Names
  DEF StopCheck, VetoInv, RunningUnitIsCalled, CallerWaits, FailedUnitJoins,
      JoinsSurvive, VetoIsSaved, FailedUnitVetoes, DecisionInv, NotifyOnce,
      DecidedByHandler, TypeOK, CallStep, threadVars, connVars, storeVars, noticeVars
<1>18. ASSUME NEW u \in Units, UnitCleansCache(u) PROVE VetoInv'
  BY <1>18, NoLateJoin, Names
  DEF UnitCleansCache, VetoInv, RunningUnitIsCalled, CallerWaits, FailedUnitJoins,
      JoinsSurvive, VetoIsSaved, FailedUnitVetoes, DecisionInv, NotifyOnce,
      DecidedByHandler, TypeOK, CallStep, threadVars, storeVars, noticeVars
<1>19. ASSUME NEW u \in Units, UnitReplies(u) PROVE VetoInv'
  BY <1>19, NoLateJoin, Names
  DEF UnitReplies, VetoInv, RunningUnitIsCalled, CallerWaits, FailedUnitJoins,
      JoinsSurvive, VetoIsSaved, FailedUnitVetoes, DecisionInv, NotifyOnce,
      DecidedByHandler, TypeOK, CallStep, threadVars, connVars, storeVars, noticeVars
<1>20. ASSUME NEW u \in Units, CheckFires(u) PROVE VetoInv'
  BY <1>20, NoLateJoin, Names
  DEF CheckFires, VetoInv, RunningUnitIsCalled, CallerWaits, FailedUnitJoins,
      JoinsSurvive, VetoIsSaved, FailedUnitVetoes, DecisionInv, NotifyOnce,
      DecidedByHandler, TypeOK, threadVars, connVars, rpcVars, storeVars, noticeVars
<1>21. ASSUME NEW u \in Units, CheckUnanswered(u) PROVE VetoInv'
  BY <1>21, NoLateJoin, Names
  DEF CheckUnanswered, VetoInv, RunningUnitIsCalled, CallerWaits, FailedUnitJoins,
      JoinsSurvive, VetoIsSaved, FailedUnitVetoes, DecisionInv, NotifyOnce,
      DecidedByHandler, TypeOK, threadVars, connVars, rpcVars, storeVars, noticeVars
<1>22. ASSUME NEW u \in Units, CheckActs(u) PROVE VetoInv'
  BY <1>22, NoLateJoin, Names
  DEF CheckActs, Settle, Outcomes, Live, VetoInv, RunningUnitIsCalled, CallerWaits,
      FailedUnitJoins, JoinsSurvive, VetoIsSaved, FailedUnitVetoes, DecisionInv,
      NotifyOnce, DecidedByHandler, TypeOK, threadVars, rpcVars, storeVars, noticeVars
<1>23. ASSUME NEW u \in Units, CheckCleans(u) PROVE VetoInv'
  BY <1>23, NoLateJoin, Names
  DEF CheckCleans, VetoInv, RunningUnitIsCalled, CallerWaits, FailedUnitJoins,
      JoinsSurvive, VetoIsSaved, FailedUnitVetoes, DecisionInv, NotifyOnce,
      DecidedByHandler, TypeOK, threadVars, rpcVars, storeVars, noticeVars
<1>24. ASSUME NEW i \in Instances, EvictConnection(i) PROVE VetoInv'
  BY <1>24, NoLateJoin, Names
  DEF EvictConnection, VetoInv, RunningUnitIsCalled, CallerWaits, FailedUnitJoins,
      JoinsSurvive, VetoIsSaved, FailedUnitVetoes, DecisionInv, NotifyOnce,
      DecidedByHandler, TypeOK, threadVars, rpcVars, storeVars, noticeVars
<1>25. ASSUME NEW i \in Instances, ClientCrashes(i) PROVE VetoInv'
  BY <1>25, NoLateJoin, Names
  DEF ClientCrashes, VetoInv, RunningUnitIsCalled, CallerWaits, FailedUnitJoins,
      JoinsSurvive, VetoIsSaved, FailedUnitVetoes, DecisionInv, NotifyOnce,
      DecidedByHandler, TypeOK, ThreadStep, CallStep, storeVars, noticeVars
<1>26. QED
  BY <1>1, <1>2, <1>3, <1>4, <1>5, <1>6, <1>7, <1>8, <1>9, <1>10, <1>11, <1>12, <1>13,
     <1>14, <1>15, <1>16, <1>17, <1>18, <1>19, <1>20, <1>21, <1>22, <1>23, <1>24, <1>25
  DEF ClientNext

LEMMA ManagerKeepsVeto ==
  ASSUME JoinsInTime, TypeOK, DecisionInv, VetoInv, ManagerNext PROVE VetoInv'
<1>1. CASE PutGroup
  BY <1>1, NoLateJoin, Names
  DEF PutGroup, VetoInv, RunningUnitIsCalled, CallerWaits, FailedUnitJoins,
      JoinsSurvive, VetoIsSaved, FailedUnitVetoes, DecisionInv, NotifyOnce,
      DecidedByHandler, TypeOK, CallStep, threadVars, connVars, noticeVars
<1>2. CASE SetGroupTtl
  BY <1>2, NoLateJoin, Names
  DEF SetGroupTtl, VetoInv, RunningUnitIsCalled, CallerWaits, FailedUnitJoins,
      JoinsSurvive, VetoIsSaved, FailedUnitVetoes, DecisionInv, NotifyOnce,
      DecidedByHandler, TypeOK, CallStep, threadVars, connVars, noticeVars
<1>3. CASE Decide
  BY <1>3, NoLateJoin, Names
  DEF Decide, SysState, VetoInv, RunningUnitIsCalled, CallerWaits, FailedUnitJoins,
      JoinsSurvive, VetoIsSaved, FailedUnitVetoes, DecisionInv, NotifyOnce,
      DecidedByHandler, TypeOK, CallStep, Decision, threadVars, connVars, storeVars
<1>4. CASE FindUnits
  BY <1>4, NoLateJoin, Names
  DEF FindUnits, VetoInv, RunningUnitIsCalled, CallerWaits, FailedUnitJoins,
      JoinsSurvive, VetoIsSaved, FailedUnitVetoes, DecisionInv, NotifyOnce,
      DecidedByHandler, TypeOK, CallStep, threadVars, connVars, storeVars
<1>5. CASE UnitAnswered
  BY <1>5, NoLateJoin, Names
  DEF UnitAnswered, VetoInv, RunningUnitIsCalled, CallerWaits, FailedUnitJoins,
      JoinsSurvive, VetoIsSaved, FailedUnitVetoes, DecisionInv, NotifyOnce,
      DecidedByHandler, TypeOK, threadVars, connVars, rpcVars, storeVars
<1>6. CASE ReplyDecision
  BY <1>6, NoLateJoin, Names
  DEF ReplyDecision, VetoInv, RunningUnitIsCalled, CallerWaits, FailedUnitJoins,
      JoinsSurvive, VetoIsSaved, FailedUnitVetoes, DecisionInv, NotifyOnce,
      DecidedByHandler, TypeOK, CallStep, threadVars, connVars, storeVars, noticeVars
<1>7. CASE GroupExpires
  BY <1>7, NoLateJoin, Names
  DEF GroupExpires, VetoInv, RunningUnitIsCalled, CallerWaits, FailedUnitJoins,
      JoinsSurvive, VetoIsSaved, FailedUnitVetoes, DecisionInv, NotifyOnce,
      DecidedByHandler, TypeOK, threadVars, connVars, rpcVars, noticeVars
<1>8. CASE StateExpires
  BY <1>8, NoLateJoin, Names
  DEF StateExpires, VetoInv, RunningUnitIsCalled, CallerWaits, FailedUnitJoins,
      JoinsSurvive, VetoIsSaved, FailedUnitVetoes, DecisionInv, NotifyOnce,
      DecidedByHandler, TypeOK, threadVars, connVars, rpcVars, noticeVars
<1>9. CASE ManagerCrashes
  BY <1>9, NoLateJoin, Names
  DEF ManagerCrashes, InHandler, VetoInv, RunningUnitIsCalled, CallerWaits,
      FailedUnitJoins, JoinsSurvive, VetoIsSaved, FailedUnitVetoes, DecisionInv,
      NotifyOnce, DecidedByHandler, TypeOK, CallStep, threadVars, connVars, storeVars
<1>10. ASSUME NEW u \in Units, SaveVeto(u) PROVE VetoInv'
  BY <1>10, NoLateJoin, Names
  DEF SaveVeto, SysState, VetoInv, RunningUnitIsCalled, CallerWaits, FailedUnitJoins,
      JoinsSurvive, VetoIsSaved, FailedUnitVetoes, DecisionInv, NotifyOnce,
      DecidedByHandler, TypeOK, CallStep, threadVars, connVars, noticeVars
<1>11. ASSUME NEW u \in Units, FindGroup(u) PROVE VetoInv'
  BY <1>11, NoLateJoin, Names
  DEF FindGroup, SysState, VetoInv, RunningUnitIsCalled, CallerWaits, FailedUnitJoins,
      JoinsSurvive, VetoIsSaved, FailedUnitVetoes, DecisionInv, NotifyOnce,
      DecidedByHandler, TypeOK, CallStep, threadVars, connVars, storeVars, noticeVars
<1>12. ASSUME NEW u \in Units, PutUnit(u) PROVE VetoInv'
  BY <1>12, NoLateJoin, Names
  DEF PutUnit, VetoInv, RunningUnitIsCalled, CallerWaits, FailedUnitJoins, JoinsSurvive,
      VetoIsSaved, FailedUnitVetoes, DecisionInv, NotifyOnce, DecidedByHandler, TypeOK,
      CallStep, threadVars, connVars, noticeVars
<1>13. ASSUME NEW u \in Units, NotifyUnit(u) PROVE VetoInv'
  BY <1>13, NoLateJoin, Names
  DEF NotifyUnit, VetoInv, RunningUnitIsCalled, CallerWaits, FailedUnitJoins,
      JoinsSurvive, VetoIsSaved, FailedUnitVetoes, DecisionInv, NotifyOnce,
      DecidedByHandler, TypeOK, CallStep, threadVars, connVars, storeVars
<1>14. ASSUME NEW u \in Units, ClearGroup(u) PROVE VetoInv'
  BY <1>14, NoLateJoin, Names
  DEF ClearGroup, VetoInv, RunningUnitIsCalled, CallerWaits, FailedUnitJoins,
      JoinsSurvive, VetoIsSaved, FailedUnitVetoes, DecisionInv, NotifyOnce,
      DecidedByHandler, TypeOK, threadVars, connVars, noticeVars
<1>15. ASSUME NEW u \in Units, AnswerState(u) PROVE VetoInv'
  BY <1>15, NoLateJoin, Names
  DEF AnswerState, VetoInv, RunningUnitIsCalled, CallerWaits, FailedUnitJoins,
      JoinsSurvive, VetoIsSaved, FailedUnitVetoes, DecisionInv, NotifyOnce,
      DecidedByHandler, TypeOK, threadVars, connVars, rpcVars, storeVars, noticeVars
<1>16. ASSUME NEW u \in Units, RedisThrows(u) PROVE VetoInv'
  BY <1>16, NoLateJoin, Names DEF RedisThrows
<1>17. QED
  BY <1>1, <1>2, <1>3, <1>4, <1>5, <1>6, <1>7, <1>8, <1>9, <1>10, <1>11, <1>12, <1>13,
     <1>14, <1>15, <1>16
  DEF ManagerNext

\* A unit that failed stops the commit, even if its caller hides the failure.
THEOREM VetoHolds == ASSUME JoinsInTime PROVE Spec => []FailedUnitVetoes
<1>1. Init => VetoInv
  BY Names DEF Init, VetoInv, RunningUnitIsCalled, CallerWaits, FailedUnitJoins, JoinsSurvive,
               VetoIsSaved, FailedUnitVetoes
<1>2. TypeOK /\ DecisionInv /\ VetoInv /\ [Next]_vars => VetoInv'
  <2>1. ASSUME VetoInv, UNCHANGED vars PROVE VetoInv'
    BY <2>1 DEF VetoInv, RunningUnitIsCalled, CallerWaits, FailedUnitJoins, JoinsSurvive,
                VetoIsSaved, FailedUnitVetoes, vars, threadVars, rpcVars, storeVars, noticeVars
  <2>2. QED
    BY <2>1, ClientKeepsVeto, ManagerKeepsVeto DEF Next
<1>3. VetoInv => FailedUnitVetoes
  BY DEF VetoInv
<1>4. QED
  BY <1>1, <1>2, <1>3, TypeCorrect, DecisionInvariant, PTL DEF Spec
=============================================================================
