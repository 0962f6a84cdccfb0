-------------------------- MODULE LcnGroup_proofs --------------------------
(***************************************************************************)
(* Proofs of what the parties of a group achieve together, for any set of     *)
(* units: each theorem names the faults and the deployments under which it     *)
(* holds, those of the README's table of faults.                               *)
(***************************************************************************)
EXTENDS LcnProtocol_proofs

-----------------------------------------------------------------------------
(***************************************************************************)
(* Who takes a step, and what the steps of each actor leave alone.            *)
(***************************************************************************)
ThreadTakesStep ==
  \/ InitiatorStep
  \/ \E p \in Parties : ConnectionStep(p) \/ MissConnection(p)
  \/ \E u \in Units : CallUnit(u) \/ UnitStep(u)

StoreTakesStep ==
  \/ CreateHandler
  \/ \E u \in Units : JoinHandler(u) \/ ClearGroup(u)
  \/ GroupExpires
  \/ StateExpires

LEMMA Actors ==
  ASSUME [Next]_vars
  PROVE  \/ UNCHANGED vars
         \/ ThreadTakesStep
         \/ \E u \in Units : NotifiedStep(u) \/ CheckStep(u)
         \/ \E i \in Instances : EvictConnection(i) \/ ClientCrashes(i)
         \/ StoreTakesStep
         \/ NotifyHandler
         \/ \E u \in Units : RedisThrows(u)
         \/ ManagerCrashes
<1>1. ClientNext => \/ ThreadTakesStep
                    \/ \E u \in Units : NotifiedStep(u) \/ CheckStep(u)
                    \/ \E i \in Instances : EvictConnection(i) \/ ClientCrashes(i)
  BY DEF ClientNext, ThreadTakesStep, InitiatorStep, ConnectionStep, UnitStep, NotifiedStep,
         CheckStep
<1>2. ManagerNext => \/ \E u \in Units : CheckStep(u)
                     \/ StoreTakesStep
                     \/ NotifyHandler
                     \/ \E u \in Units : RedisThrows(u)
                     \/ ManagerCrashes
  BY DEF ManagerNext, CheckStep, StoreTakesStep, CreateHandler, JoinHandler, NotifyHandler
<1>3. QED
  BY <1>1, <1>2 DEF Next

LEMMA ThreadLeaves ==
  ASSUME ThreadTakesStep
  PROVE  UNCHANGED <<unitMsg, clean, storeVars, noticeVars>>
<1>1. InitiatorStep => UNCHANGED <<unitMsg, clean, storeVars, noticeVars>>
  BY DEF InitiatorStep, BeginTransaction, GroupCreated, CreateFails, EndInitiator, NotifyEnd,
         NotifyAnswered, NotifyUnanswered, CallReturns, rpcVars
<1>2. ASSUME NEW p \in Parties, ConnectionStep(p) \/ MissConnection(p)
      PROVE  UNCHANGED <<unitMsg, clean, storeVars, noticeVars>>
  BY <1>2 DEF ConnectionStep, UseCachedConnection, MissConnection, OpenConnection, rpcVars
<1>3. ASSUME NEW u \in Units, CallUnit(u) \/ UnitStep(u)
      PROVE  UNCHANGED <<unitMsg, clean, storeVars, noticeVars>>
  BY <1>3 DEF CallUnit, UnitStep, EndUnit, JoinRefused, ScheduleCheck, RegisterCheck, rpcVars
<1>4. QED
  BY <1>1, <1>2, <1>3 DEF ThreadTakesStep

LEMMA InitiatorLeaves ==
  ASSUME TypeOK, DecisionInv, InitiatorStep
  PROVE  /\ UNCHANGED <<join, unitMsg, clean, storeVars, noticeVars>>
         /\ \A u \in Units : pc'[u] = pc[u]
         /\ create' # create => (pc[Initiator] = "begin" /\ create' = "sent")
<1>1. UNCHANGED <<join, unitMsg, clean, storeVars, noticeVars>>
  BY DEF InitiatorStep, BeginTransaction, GroupCreated, CreateFails, EndInitiator, NotifyEnd,
         NotifyAnswered, NotifyUnanswered, CallReturns, rpcVars
<1>2. pc' = pc \/ \E s \in ThreadStep : pc' = [pc EXCEPT ![Initiator] = s]
  BY DEF InitiatorStep, BeginTransaction, GroupCreated, CreateFails, EndInitiator, NotifyEnd,
         NotifyAnswered, NotifyUnanswered, CallReturns, ThreadStep
<1>3. create' # create => (pc[Initiator] = "begin" /\ create' = "sent")
  BY DEF InitiatorStep, BeginTransaction, GroupCreated, CreateFails, EndInitiator, NotifyEnd,
         NotifyAnswered, NotifyUnanswered, CallReturns, rpcVars
<1>4. QED
  BY <1>1, <1>2, <1>3, Names DEF TypeOK

LEMMA NotifiedLeaves ==
  ASSUME NEW u \in Units, NotifiedStep(u)
  PROVE  UNCHANGED <<threadVars, wrote, create, join, notify, storeVars, noticeVars>>
BY DEF NotifiedStep, UnitActs, StopCheck, UnitCleansCache, UnitReplies, connVars

LEMMA CheckLeaves ==
  ASSUME NEW u \in Units, CheckStep(u)
  PROVE  UNCHANGED <<threadVars, wrote, rpcVars, storeVars, noticeVars>>
BY DEF CheckStep, CheckFires, CheckUnanswered, AnswerState, CheckActs, CheckCleans, connVars

LEMMA StoreLeaves ==
  ASSUME StoreTakesStep
  PROVE  UNCHANGED <<threadVars, connVars, timer, notify, unitMsg, noticeVars>>
BY DEF StoreTakesStep, CreateHandler, PutGroup, SetGroupTtl, JoinHandler, SaveVeto, FindGroup,
       PutUnit, ClearGroup, GroupExpires, StateExpires, rpcVars

LEMMA NotifyLeaves ==
  ASSUME NotifyHandler
  PROVE  UNCHANGED <<threadVars, connVars, timer, create, join, clean, storeVars>>
BY DEF NotifyHandler, Decide, FindUnits, NotifyUnit, UnitAnswered, ReplyDecision, rpcVars

-----------------------------------------------------------------------------
(***************************************************************************)
(* One business at a time.  While callers wait for the units they call, a     *)
(* unit runs only when the initiator waits for it or is gone, and nothing has   *)
(* been notified yet.                                                          *)
(***************************************************************************)
Running == {"start", "opening", "worked", "joining", "registering"}

RunsAlone ==
  \A u \in Units :
    pc[u] \in Running => /\ notify = "none"
                         /\ calling = u \/ pc[Initiator] = "crashed"

AloneInv == CallerWaits /\ RunsAlone

LEMMA NextKeepsAlone ==
  ASSUME ~Fault("httpTimeout"), TypeOK, DecisionInv, AloneInv, [Next]_vars
  PROVE  AloneInv'
<1> USE Names DEF AloneInv, CallerWaits, RunsAlone, Running
<1>1. CASE InitiatorStep
  <2>1. CASE BeginTransaction
    BY <2>1 DEF BeginTransaction, TypeOK, DecisionInv, NotifyOnce
  <2>2. CASE GroupCreated
    BY <2>2 DEF GroupCreated, TypeOK, rpcVars
  <2>3. CASE CreateFails
    BY <2>3 DEF CreateFails, NotifyEnd, TypeOK
  <2>4. ASSUME NEW r \in {"ok", "exception", "error"}, EndInitiator(r) PROVE AloneInv'
    BY <2>4 DEF EndInitiator, CallFailed, NotifyEnd, TypeOK
  <2>5. CASE NotifyAnswered \/ NotifyUnanswered
    BY <2>5 DEF NotifyAnswered, NotifyUnanswered, TypeOK, rpcVars
  <2>6. ASSUME NEW u \in Units, CallReturns(u) PROVE AloneInv'
    BY <2>6 DEF CallReturns, CallFailed, TypeOK, rpcVars
  <2>7. QED
    BY <1>1, <2>1, <2>2, <2>3, <2>4, <2>5, <2>6 DEF InitiatorStep
<1>2. ASSUME NEW p \in Parties, ConnectionStep(p) \/ MissConnection(p) PROVE AloneInv'
  BY <1>2 DEF ConnectionStep, UseCachedConnection, MissConnection, OpenConnection, TypeOK, rpcVars
<1>3. ASSUME NEW u \in Units, CallUnit(u) PROVE AloneInv'
  BY <1>3 DEF CallUnit, TypeOK, DecisionInv, NotifyOnce, rpcVars
<1>4. ASSUME NEW u \in Units, UnitStep(u) PROVE AloneInv'
  BY <1>4 DEF UnitStep, EndUnit, JoinRefused, ScheduleCheck, RegisterCheck, TypeOK, rpcVars
<1>5. ASSUME NEW i \in Instances, ClientCrashes(i) PROVE AloneInv'
  BY <1>5 DEF ClientCrashes, TypeOK
<1>6. CASE NotifyHandler
  BY <1>6, NotifyLeaves
  DEF NotifyHandler, Decide, FindUnits, NotifyUnit, UnitAnswered, ReplyDecision, DecisionInv,
      DecidedByHandler, threadVars, rpcVars, TypeOK
<1>7. ASSUME NEW u \in Units, RedisThrows(u) PROVE AloneInv'
  BY <1>7 DEF RedisThrows, threadVars
<1>8. CASE ManagerCrashes
  BY <1>8 DEF ManagerCrashes, InHandler, threadVars
<1>9. ASSUME UNCHANGED <<threadVars, notify>> PROVE AloneInv'
  BY <1>9 DEF threadVars
<1>10. QED
  BY <1>1, <1>2, <1>3, <1>4, <1>5, <1>6, <1>7, <1>8, <1>9, Actors, NotifiedLeaves,
     CheckLeaves, StoreLeaves
  DEF ThreadTakesStep, EvictConnection, rpcVars, vars

LEMMA AloneInvariant == ASSUME ~Fault("httpTimeout") PROVE Spec => []AloneInv
<1>1. Init => AloneInv
  BY Names DEF Init, AloneInv, CallerWaits, RunsAlone, Running
<1>2. QED
  BY <1>1, NextKeepsAlone, TypeCorrect, DecisionInvariant, PTL DEF Spec

-----------------------------------------------------------------------------
(***************************************************************************)
(* The time to live of the group's entry, whatever fails but the time to live *)
(* itself.  An entry is deleted by a clean-group only, after a unit has been     *)
(* told of the decision; and a unit that has been told is one whose join had      *)
(* been answered when the units were read.  So a join-group that brings a         *)
(* deleted entry back does so after the decision, and puts a unit into it that     *)
(* is not told any more.                                                          *)
(***************************************************************************)
Told(u) == u \in toNotify \/ unitMsg[u] # "none"

CleanedAfterNotice == \A u \in Units : clean[u] # "none" => unitMsg[u] # "none"

CreatesOnce == pc[Initiator] = "begin" => create = "none"

ToldInOrder ==
  /\ notify \in {"none", "sent", "decided"} => \A u \in Units : ~Told(u)
  /\ \A u \in Units : Told(u) => decision # "none" /\ join[u] = "replied"

CreatedFirst ==
  /\ CreatesOnce
  /\ pc[Initiator] \in {"start", "opening", "worked"} => create \in {"replied", "failed"}
  /\ \A u \in Units : pc[u] # "idle" => create \in {"replied", "failed"}

JoinsOnce ==
  \A u \in Units : pc[u] \in {"idle", "start", "opening", "worked"} => join[u] = "none"

MembersJoined ==
  /\ \A u \in members : join[u] = "replied"
  /\ group = "absent" => members = {}

EntryLives ==
  /\ create \in {"none", "sent"} => group = "absent"
  /\ create = "put" => group = "immortal"
  /\ (create = "replied" /\ group = "absent") => \E v \in Units : clean[v] # "none"

LeftForEver ==
  (create = "replied" /\ group = "immortal") => /\ \E v \in Units : unitMsg[v] # "none"
                                                /\ \A u \in members : ~Told(u)

EntryInv == /\ CleanedAfterNotice
            /\ ToldInOrder
            /\ CreatedFirst
            /\ JoinsOnce
            /\ MembersJoined
            /\ EntryLives
            /\ LeftForEver

\* A step that tells nobody and leaves the entry alone.
LEMMA EntryUndisturbed ==
  ASSUME EntryInv, CreatedFirst', JoinsOnce',
         UNCHANGED <<group, members, toNotify, decision>>,
         \A u \in Units : /\ unitMsg'[u] = "none" <=> unitMsg[u] = "none"
                          /\ clean[u] # "none" => clean'[u] # "none"
                          /\ clean'[u] # "none" => unitMsg'[u] # "none"
                          /\ join[u] = "replied" => join'[u] = "replied",
         members \subseteq Units,
         notify' \in {"none", "sent", "decided"} => notify \in {"none", "sent", "decided"},
         \/ create' = create
         \/ create = "none" /\ create' = "sent"
         \/ create' \in {"dead", "failed"}
  PROVE  EntryInv'
<1> USE DEF EntryInv
<1>1. \A u \in Units : Told(u)' <=> Told(u)
  BY DEF Told
<1>2. CleanedAfterNotice'
  BY DEF CleanedAfterNotice
<1>3. ToldInOrder'
  BY <1>1 DEF ToldInOrder
<1>4. MembersJoined'
  BY DEF MembersJoined
<1>5. EntryLives'
  BY DEF EntryLives
<1>6. LeftForEver'
  BY <1>1 DEF LeftForEver
<1>7. QED
  BY <1>2, <1>3, <1>4, <1>5, <1>6

LEMMA NextKeepsEntry ==
  ASSUME ~Fault("expire"), TypeOK, DecisionInv, EntryInv, [Next]_vars
  PROVE  EntryInv'
<1> USE Names
<1>1. members \subseteq Units
  BY DEF TypeOK
<1>2. CASE InitiatorStep
  <2>1. UNCHANGED <<join, unitMsg, clean, group, members, decision, toNotify>>
    BY <1>2, InitiatorLeaves DEF storeVars, noticeVars
  <2>2. /\ pc'[Initiator] # "begin" \/ (pc'[Initiator] = pc[Initiator] /\ create' = create)
        /\ pc'[Initiator] \in {"start", "opening", "worked"} =>
             \/ pc[Initiator] \in {"start", "opening", "worked"} /\ create' = create
             \/ create' \in {"replied", "failed"}
    BY <1>2
    DEF InitiatorStep, BeginTransaction, GroupCreated, CreateFails, EndInitiator, NotifyEnd,
        NotifyAnswered, NotifyUnanswered, CallReturns, TypeOK, rpcVars
  <2>3. notify' = notify \/ (notify = "none" /\ notify' = "sent")
    BY <1>2
    DEF InitiatorStep, BeginTransaction, GroupCreated, CreateFails, EndInitiator, NotifyEnd,
        NotifyAnswered, NotifyUnanswered, CallReturns, TypeOK, rpcVars, DecisionInv, NotifyOnce
  <2>4. /\ \A u \in Units : pc'[u] = pc[u]
        /\ create' = create \/ (create = "none" /\ create' = "sent")
    BY <1>2, InitiatorLeaves DEF EntryInv, CreatedFirst, CreatesOnce
  <2>5. CreatedFirst'
    BY <2>2, <2>4 DEF EntryInv, CreatedFirst, CreatesOnce
  <2>6. JoinsOnce'
    BY <2>1, <2>4 DEF EntryInv, JoinsOnce
  <2>7. QED
    BY <1>1, <2>1, <2>3, <2>4, <2>5, <2>6, EntryUndisturbed DEF EntryInv, CleanedAfterNotice
<1>3. ASSUME NEW p \in Parties, ConnectionStep(p) \/ MissConnection(p) PROVE EntryInv'
  <2>1. /\ pc[p] = "start" \/ pc[p] = "opening"
        /\ \E s \in {"opening", "worked"} : pc' = [pc EXCEPT ![p] = s]
        /\ UNCHANGED <<rpcVars, storeVars, noticeVars>>
    BY <1>3 DEF ConnectionStep, UseCachedConnection, MissConnection, OpenConnection
  <2>2. CreatedFirst' /\ JoinsOnce'
    BY <2>1 DEF EntryInv, CreatedFirst, CreatesOnce, JoinsOnce, TypeOK, rpcVars
  <2>3. QED
    BY <1>1, <2>1, <2>2, EntryUndisturbed
    DEF rpcVars, storeVars, noticeVars, EntryInv, CleanedAfterNotice
<1>4. ASSUME NEW u \in Units, CallUnit(u) PROVE EntryInv'
  <2>1. CreatedFirst' /\ JoinsOnce'
    BY <1>4 DEF CallUnit, EntryInv, CreatedFirst, CreatesOnce, JoinsOnce, TypeOK, rpcVars
  <2>2. QED
    BY <1>1, <1>4, <2>1, EntryUndisturbed
    DEF CallUnit, rpcVars, storeVars, noticeVars, EntryInv, CleanedAfterNotice
<1>5. ASSUME NEW u \in Units, UnitStep(u) PROVE EntryInv'
  <2>1. UNCHANGED <<create, notify, unitMsg, clean, storeVars, noticeVars>>
    BY <1>5 DEF UnitStep, EndUnit, JoinRefused, ScheduleCheck, RegisterCheck, rpcVars
  <2>2. /\ pc'[Initiator] = pc[Initiator] /\ pc[u] # "idle"
        /\ \A v \in Units : pc'[v] = pc[v] \/ (v = u /\ pc'[v] \notin {"idle", "start", "opening", "worked"})
    BY <1>5 DEF UnitStep, EndUnit, JoinRefused, ScheduleCheck, RegisterCheck, TypeOK
  <2>3. \A v \in Units : \/ join'[v] = join[v]
                         \/ v = u /\ pc[u] \in {"start", "worked"} /\ pc'[u] = "joining"
    BY <1>5
    DEF UnitStep, EndUnit, JoinRefused, ScheduleCheck, RegisterCheck, TypeOK, rpcVars
  <2>4. \A v \in Units : join[v] = "replied" => join'[v] = "replied"
    BY <2>3 DEF EntryInv, JoinsOnce
  <2>5. CreatedFirst' /\ JoinsOnce'
    BY <2>1, <2>2, <2>3 DEF EntryInv, CreatedFirst, CreatesOnce, JoinsOnce
  <2>6. QED
    BY <1>1, <2>1, <2>4, <2>5, EntryUndisturbed
    DEF storeVars, noticeVars, EntryInv, CleanedAfterNotice
<1>6. ASSUME NEW u \in Units, NotifiedStep(u) PROVE EntryInv'
  <2>1. \A v \in Units : unitMsg'[v] = "none" <=> unitMsg[v] = "none"
    BY <1>6 DEF NotifiedStep, UnitActs, StopCheck, UnitCleansCache, UnitReplies, TypeOK
  <2>2. \A v \in Units : clean'[v] = clean[v] \/ (clean'[v] # "none" /\ unitMsg[v] # "none")
    BY <1>6 DEF NotifiedStep, UnitActs, StopCheck, UnitCleansCache, UnitReplies, TypeOK
  <2>3. CreatedFirst' /\ JoinsOnce'
    BY <1>6, NotifiedLeaves DEF EntryInv, CreatedFirst, CreatesOnce, JoinsOnce, threadVars
  <2>4. QED
    BY <1>1, <1>6, <2>1, <2>2, <2>3, NotifiedLeaves, EntryUndisturbed
    DEF storeVars, noticeVars, EntryInv, CleanedAfterNotice
<1>7. ASSUME NEW i \in Instances, ClientCrashes(i) PROVE EntryInv'
  <2>1. \A v \in Units : unitMsg'[v] = "none" <=> unitMsg[v] = "none"
    BY <1>7 DEF ClientCrashes, TypeOK
  <2>2. CreatedFirst' /\ JoinsOnce'
    BY <1>7 DEF ClientCrashes, EntryInv, CreatedFirst, CreatesOnce, JoinsOnce, TypeOK
  <2>3. QED
    BY <1>1, <1>7, <2>1, <2>2, EntryUndisturbed
    DEF ClientCrashes, storeVars, noticeVars, EntryInv, CleanedAfterNotice
<1>8. CASE CreateHandler
  <2>1. /\ create \in {"sent", "put"}
        /\ \A u \in Units : pc[u] = "idle" /\ join[u] = "none" /\ unitMsg[u] = "none"
    BY <1>8
    DEF CreateHandler, PutGroup, SetGroupTtl, EntryInv, CreatedFirst, JoinsOnce, ToldInOrder, Told
  <2>2. UNCHANGED <<threadVars, join, notify, unitMsg, clean, members, noticeVars>>
    BY <1>8 DEF CreateHandler, PutGroup, SetGroupTtl
  <2>3. \/ create' = "put" /\ group' = "immortal"
        \/ create' = "replied" /\ group' = "mortal"
    BY <1>8 DEF CreateHandler, PutGroup, SetGroupTtl, EntryInv, EntryLives
  <2>4. QED
    BY <2>1, <2>2, <2>3
    DEF EntryInv, CleanedAfterNotice, ToldInOrder, Told, CreatedFirst, CreatesOnce, JoinsOnce,
        MembersJoined, EntryLives, LeftForEver, threadVars, noticeVars
<1>9. ASSUME NEW u \in Units, SaveVeto(u) \/ FindGroup(u) PROVE EntryInv'
  <2>1. /\ UNCHANGED <<threadVars, create, notify, unitMsg, clean, group, members, noticeVars>>
        /\ join[u] \in {"sent", "saved"}
        /\ \A v \in Units \ {u} : join'[v] = join[v]
    BY <1>9 DEF SaveVeto, FindGroup, TypeOK, storeVars
  <2>2. CreatedFirst' /\ JoinsOnce'
    BY <2>1 DEF EntryInv, CreatedFirst, CreatesOnce, JoinsOnce, threadVars
  <2>3. QED
    BY <1>1, <2>1, <2>2, EntryUndisturbed DEF noticeVars, EntryInv, CleanedAfterNotice
<1>10. ASSUME NEW u \in Units, PutUnit(u) PROVE EntryInv'
  <2>1. /\ join[u] = "checked" /\ join'[u] = "replied"
        /\ \A v \in Units \ {u} : join'[v] = join[v]
        /\ members' = members \cup {u}
        /\ group' = IF group = "absent" THEN "immortal" ELSE group
        /\ UNCHANGED <<threadVars, create, notify, unitMsg, clean, noticeVars>>
    BY <1>10 DEF PutUnit, TypeOK
  <2>2. ~Told(u) /\ pc[u] # "idle" /\ create \in {"replied", "failed"}
    BY <2>1 DEF EntryInv, ToldInOrder, JoinsOnce, CreatedFirst
  <2>3. \A v \in Units : Told(v)' <=> Told(v)
    BY <2>1 DEF Told, noticeVars
  <2>4. CleanedAfterNotice' /\ CreatedFirst' /\ JoinsOnce' /\ EntryLives'
    BY <2>1, <2>2
    DEF EntryInv, CleanedAfterNotice, CreatedFirst, CreatesOnce, JoinsOnce, EntryLives, threadVars
  <2>5. ToldInOrder' /\ MembersJoined'
    BY <1>1, <2>1, <2>3 DEF EntryInv, ToldInOrder, MembersJoined, noticeVars
  <2>6. LeftForEver'
    <3>1. CASE group = "absent"
      <4>1. members' = {u} /\ ~Told(u)'
        BY <2>1, <2>2, <2>3, <3>1 DEF EntryInv, MembersJoined
      <4>2. create = "replied" => \E v \in Units : unitMsg[v] # "none"
        BY <3>1 DEF EntryInv, EntryLives, CleanedAfterNotice
      <4>3. QED
        BY <2>1, <4>1, <4>2 DEF LeftForEver
    <3>2. CASE group # "absent"
      <4>1. /\ group' = group
            /\ \A v \in members' : v \in members \/ v = u
            /\ ~Told(u)'
            /\ \A v \in members : ~Told(v) => ~Told(v)'
        BY <1>1, <2>1, <2>2, <2>3, <3>2
      <4>2. LeftForEver
        BY DEF EntryInv
      <4>3. QED
        BY <2>1, <4>1, <4>2 DEF LeftForEver
    <3>3. QED
      BY <3>1, <3>2
  <2>7. QED
    BY <2>4, <2>5, <2>6 DEF EntryInv
<1>11. ASSUME NEW u \in Units, ClearGroup(u) PROVE EntryInv'
  <2>1. /\ clean[u] # "none" /\ \A v \in Units : clean'[v] = "none" <=> clean[v] = "none"
        /\ group' = "absent" /\ members' = {}
        /\ UNCHANGED <<threadVars, create, join, notify, unitMsg, noticeVars>>
    BY <1>11 DEF ClearGroup, TypeOK
  <2>2. create \in {"replied", "failed"}
    BY <2>1
    DEF EntryInv, CleanedAfterNotice, ToldInOrder, Told, JoinsOnce, CreatedFirst
  <2>3. QED
    BY <2>1, <2>2
    DEF EntryInv, CleanedAfterNotice, ToldInOrder, Told, CreatedFirst, CreatesOnce, JoinsOnce,
        MembersJoined, EntryLives, LeftForEver, threadVars, noticeVars
<1>12. CASE NotifyHandler
  <2>1. UNCHANGED <<threadVars, create, join, clean, storeVars>>
    BY <1>12, NotifyLeaves
  <2>2. CleanedAfterNotice' /\ CreatedFirst' /\ JoinsOnce' /\ MembersJoined' /\ EntryLives'
    <3>1. \A v \in Units : unitMsg[v] # "none" => unitMsg'[v] # "none"
      BY <1>12
      DEF NotifyHandler, Decide, FindUnits, NotifyUnit, UnitAnswered, ReplyDecision, TypeOK,
          rpcVars
    <3>2. QED
      BY <2>1, <3>1
      DEF EntryInv, CleanedAfterNotice, CreatedFirst, CreatesOnce, JoinsOnce, MembersJoined,
          EntryLives, threadVars, storeVars
  <2>3. CASE Decide
    BY <2>1, <2>2, <2>3
    DEF Decide, EntryInv, ToldInOrder, Told, LeftForEver, storeVars
  <2>4. CASE FindUnits
    <3>1. /\ toNotify' = members /\ notify' = "looping"
          /\ UNCHANGED <<unitMsg, decision>>
          /\ \A v \in Units : unitMsg[v] = "none"
          /\ decision # "none"
      BY <2>4
      DEF FindUnits, EntryInv, ToldInOrder, Told, DecisionInv, DecidedByHandler
    <3>2. QED
      BY <2>1, <2>2, <3>1
      DEF EntryInv, ToldInOrder, Told, LeftForEver, MembersJoined, storeVars
  <2>5. ASSUME NEW u \in Units, NotifyUnit(u) PROVE EntryInv'
    <3>1. /\ notify' = "looping" /\ u \in toNotify /\ UNCHANGED decision
          /\ \A v \in Units : Told(v)' => Told(v)
          /\ \A v \in Units : unitMsg[v] # "none" => unitMsg'[v] # "none"
      BY <2>5 DEF NotifyUnit, Told, TypeOK
    <3>2. QED
      BY <1>1, <2>1, <2>2, <3>1 DEF EntryInv, ToldInOrder, LeftForEver, storeVars
  <2>6. CASE UnitAnswered \/ ReplyDecision
    <3>1. /\ UNCHANGED <<unitMsg, decision, toNotify>>
          /\ notify' = notify \/ notify' = "replied"
      BY <2>6 DEF UnitAnswered, ReplyDecision, rpcVars, noticeVars
    <3>2. QED
      BY <2>1, <2>2, <3>1 DEF EntryInv, ToldInOrder, Told, LeftForEver, storeVars
  <2>7. QED
    BY <1>12, <2>3, <2>4, <2>5, <2>6 DEF NotifyHandler
<1>13. ASSUME NEW u \in Units, RedisThrows(u) PROVE EntryInv'
  <2>1. /\ UNCHANGED <<threadVars, unitMsg, storeVars, noticeVars>>
        /\ create' = create \/ (create \in {"sent", "put"} /\ create' = "failed")
        /\ \A v \in Units : join'[v] = join[v] \/ join[v] \in {"sent", "saved", "checked"}
        /\ notify' \in {notify, "dead"}
        /\ \A v \in Units : clean'[v] = "none" <=> clean[v] = "none"
    BY <1>13 DEF RedisThrows, TypeOK
  <2>2. CreatedFirst' /\ JoinsOnce'
    BY <2>1 DEF EntryInv, CreatedFirst, CreatesOnce, JoinsOnce, threadVars
  <2>3. QED
    BY <1>1, <2>1, <2>2, EntryUndisturbed DEF storeVars, noticeVars, EntryInv, CleanedAfterNotice
<1>14. CASE ManagerCrashes
  <2>1. /\ UNCHANGED <<threadVars, unitMsg, clean, storeVars, decision>>
        /\ create' = create \/ (create \in {"sent", "put"} /\ create' = "dead")
        /\ \A v \in Units : \/ join'[v] = join[v]
                            \/ join[v] \notin {"none", "replied"} /\ join'[v] = "dead"
        /\ \/ UNCHANGED <<notify, toNotify>>
           \/ notify' = "dead" /\ toNotify' = {}
    BY <1>14 DEF ManagerCrashes, InHandler, TypeOK, CallStep
  <2>2. \A v \in Units : Told(v)' => Told(v)
    BY <2>1 DEF Told
  <2>3. CleanedAfterNotice' /\ CreatedFirst' /\ JoinsOnce' /\ MembersJoined' /\ EntryLives'
    BY <1>1, <2>1
    DEF EntryInv, CleanedAfterNotice, CreatedFirst, CreatesOnce, JoinsOnce, MembersJoined,
        EntryLives, threadVars, storeVars
  <2>4. ToldInOrder' /\ LeftForEver'
    BY <1>1, <2>1, <2>2 DEF EntryInv, ToldInOrder, LeftForEver, storeVars
  <2>5. QED
    BY <2>3, <2>4 DEF EntryInv
<1>15. ASSUME UNCHANGED <<threadVars, rpcVars, group, members, noticeVars>> PROVE EntryInv'
  BY <1>15
  DEF EntryInv, CleanedAfterNotice, ToldInOrder, Told, CreatedFirst, CreatesOnce, JoinsOnce,
      MembersJoined, EntryLives, LeftForEver, threadVars, rpcVars, noticeVars
<1>16. QED
  BY <1>2, <1>3, <1>4, <1>5, <1>6, <1>7, <1>8, <1>9, <1>10, <1>11, <1>12, <1>13, <1>14,
     <1>15, Actors, CheckLeaves
  DEF ThreadTakesStep, StoreTakesStep, JoinHandler, GroupExpires, StateExpires,
      EvictConnection, storeVars, vars

\* Whatever fails, an entry that is left for ever is one whose create-group did not
\* finish, or one that a late join brought back after the decision.
THEOREM EntryExpires == ASSUME ~Fault("expire") PROVE Spec => []GroupHasTtl
<1>1. Init => EntryInv
  BY Names DEF Init, EntryInv, CleanedAfterNotice, ToldInOrder, Told, CreatedFirst, CreatesOnce,
               JoinsOnce, MembersJoined, EntryLives, LeftForEver
<1>2. TypeOK /\ EntryInv => GroupHasTtl
  <2>1. SUFFICES ASSUME TypeOK, EntryInv, group = "immortal", create \notin {"put", "dead", "failed"}
                 PROVE  decision # "none" /\ \A u \in members : ~Told(u)
    BY DEF GroupHasTtl, Told
  <2>2. create = "replied"
    BY <2>1 DEF TypeOK, CallStep, EntryInv, EntryLives
  <2>3. QED
    BY <2>1, <2>2 DEF EntryInv, LeftForEver, ToldInOrder, Told
<1>3. QED
  BY <1>1, <1>2, NextKeepsEntry, TypeCorrect, DecisionInvariant, PTL DEF Spec

-----------------------------------------------------------------------------
(***************************************************************************)
(* What ConnectionProxy.commit does to the connections: it settles the one in  *)
(* the cache of the process, if that is open, and no other.                     *)
(***************************************************************************)
LEMMA SettleEffect ==
  ASSUME TypeOK, NEW i \in Instances, NEW d \in {"commit", "rollback"}, Settle(i, d)
  PROVE  \A c \in Parties :
           /\ conn'[c] # conn[c] => /\ conn[c] = "open"
                                    /\ cache[i] = c
                                    /\ conn'[c] \in Outcomes(d)
           /\ cache[i] = c => conn'[c] # "open"
           /\ (cache[i] = c /\ conn[c] = "open") => conn'[c] \in Outcomes(d)
<1>1. Outcomes(d) \subseteq {"committed", "rolledback"}
  BY DEF Outcomes
<1>2. CASE Live(i)
  <2>1. PICK o \in Outcomes(d) : conn' = [conn EXCEPT ![cache[i]] = o]
    BY <1>2 DEF Settle
  <2>2. cache[i] \in Parties /\ conn[cache[i]] = "open"
    BY <1>2 DEF Live, TypeOK
  <2>3. conn'[cache[i]] = o /\ \A c \in Parties : c # cache[i] => conn'[c] = conn[c]
    BY <2>1, <2>2 DEF TypeOK
  <2>4. QED
    BY <1>1, <2>2, <2>3
<1>3. CASE ~Live(i)
  BY <1>3, Names DEF Settle, Live
<1>4. QED
  BY <1>2, <1>3

-----------------------------------------------------------------------------
(***************************************************************************)
(* A party writes on connections of its own process only, and the cache of a   *)
(* process holds only such connections.                                         *)
(***************************************************************************)
WritesInProcess ==
  /\ \A p \in Parties :
       wrote[p] # Nobody => /\ conn[wrote[p]] # "none"
                            /\ HostOf[wrote[p]] = HostOf[p]
                            /\ pc[p] # "idle"
  /\ \A i \in Instances :
       cache[i] # Nobody => HostOf[cache[i]] = i /\ conn[cache[i]] # "none"

LEMMA NextKeepsWrites ==
  ASSUME TypeOK, DecisionInv, WritesInProcess, [Next]_vars
  PROVE  WritesInProcess'
<1> USE Names
<1>1. ASSUME UNCHANGED wrote,
             \A p \in Parties : pc'[p] = "idle" => pc[p] = "idle",
             \A c \in Parties : conn'[c] = "none" => conn[c] = "none",
             \A i \in Instances : cache'[i] \in {cache[i], Nobody}
      PROVE  WritesInProcess'
  BY <1>1 DEF WritesInProcess, TypeOK
<1>2. ASSUME NEW i \in Instances, NEW d \in {"commit", "rollback"}, Settle(i, d)
      PROVE  \A c \in Parties : conn'[c] = "none" => conn[c] = "none"
  BY <1>2, SettleEffect DEF Outcomes
<1>3. CASE InitiatorStep
  <2>1. UNCHANGED <<wrote, cache>> /\ \A p \in Parties : pc'[p] = "idle" => pc[p] = "idle"
    BY <1>3
    DEF InitiatorStep, BeginTransaction, GroupCreated, CreateFails, EndInitiator, NotifyEnd,
        NotifyAnswered, NotifyUnanswered, CallReturns, TypeOK, connVars
  <2>2. CASE NotifyAnswered
    BY <1>1, <1>2, <2>1, <2>2
    DEF NotifyAnswered, DecisionInv, DecidedByHandler, TypeOK, Decision
  <2>3. CASE ~NotifyAnswered
    BY <1>1, <1>3, <2>1, <2>3
    DEF InitiatorStep, BeginTransaction, GroupCreated, CreateFails, EndInitiator, NotifyEnd,
        NotifyUnanswered, CallReturns, connVars
  <2>4. QED
    BY <2>2, <2>3
<1>4. ASSUME NEW p \in Parties, ConnectionStep(p) \/ MissConnection(p) PROVE WritesInProcess'
  <2>1. OpenConnection(p) => conn[p] = "none"
    BY DEF OpenConnection, DecisionInv, FreshConnection
  <2>2. QED
    BY <1>4, <2>1
    DEF ConnectionStep, UseCachedConnection, MissConnection, OpenConnection, Write, Live,
        WritesInProcess, TypeOK, connVars
<1>5. ASSUME NEW u \in Units, CallUnit(u) PROVE WritesInProcess'
  BY <1>1, <1>5 DEF CallUnit, TypeOK, connVars
<1>6. ASSUME NEW u \in Units, UnitStep(u) PROVE WritesInProcess'
  <2>1. UNCHANGED <<wrote, cache>> /\ \A p \in Parties : pc'[p] = "idle" => pc[p] = "idle"
    BY <1>6 DEF UnitStep, EndUnit, JoinRefused, ScheduleCheck, RegisterCheck, TypeOK, connVars
  <2>2. JoinRefused(u) => \A c \in Parties : conn'[c] = "none" => conn[c] = "none"
    BY <1>2 DEF JoinRefused
  <2>3. ~JoinRefused(u) => UNCHANGED conn
    BY <1>6 DEF UnitStep, EndUnit, ScheduleCheck, RegisterCheck, connVars
  <2>4. QED
    BY <1>1, <2>1, <2>2, <2>3
<1>7. ASSUME NEW u \in Units, NotifiedStep(u) PROVE WritesInProcess'
  <2>1. UNCHANGED <<pc, wrote>>
    BY <1>7, NotifiedLeaves DEF threadVars
  <2>2. CASE UnitActs(u)
    BY <1>1, <1>2, <2>1, <2>2 DEF UnitActs, DecisionInv, DecidedByHandler, TypeOK, Decision
  <2>3. CASE ~UnitActs(u)
    BY <1>1, <1>7, <2>1, <2>3
    DEF NotifiedStep, StopCheck, UnitCleansCache, UnitReplies, TypeOK, connVars
  <2>4. QED
    BY <2>2, <2>3
<1>8. ASSUME NEW u \in Units, CheckStep(u) PROVE WritesInProcess'
  <2>1. UNCHANGED <<pc, wrote>>
    BY <1>8, CheckLeaves DEF threadVars
  <2>2. \A c \in Parties : conn'[c] = "none" => conn[c] = "none"
    BY <1>2, <1>8
    DEF CheckStep, CheckFires, CheckUnanswered, AnswerState, CheckActs, CheckCleans, connVars
  <2>3. \A i \in Instances : cache'[i] \in {cache[i], Nobody}
    BY <1>8
    DEF CheckStep, CheckFires, CheckUnanswered, AnswerState, CheckActs, CheckCleans, TypeOK,
        connVars
  <2>4. QED
    BY <1>1, <2>1, <2>2, <2>3
<1>9. ASSUME NEW i \in Instances, EvictConnection(i) \/ ClientCrashes(i)
      PROVE  WritesInProcess'
  BY <1>1, <1>9 DEF EvictConnection, ClientCrashes, TypeOK, threadVars
<1>10. ASSUME UNCHANGED <<threadVars, connVars>> PROVE WritesInProcess'
  BY <1>10 DEF WritesInProcess, threadVars, connVars
<1>11. QED
  BY <1>3, <1>4, <1>5, <1>6, <1>7, <1>8, <1>9, <1>10, Actors, StoreLeaves, NotifyLeaves
  DEF ThreadTakesStep, RedisThrows, ManagerCrashes, vars

LEMMA WritesInvariant == Spec => []WritesInProcess
<1>1. Init => WritesInProcess
  BY Names DEF Init, WritesInProcess
<1>2. QED
  BY <1>1, NextKeepsWrites, TypeCorrect, DecisionInvariant, PTL DEF Spec

-----------------------------------------------------------------------------
(***************************************************************************)
(* Committed work is finished work.  A connection is committed only when the   *)
(* initiator ended well, and then no business runs; what a business that failed  *)
(* had written was rolled back by its own process, or lies on a connection the    *)
(* cache no longer holds, which nobody commits.                                 *)
(***************************************************************************)

\* A failed business is seen to have failed, and a join-group is sent and waited for.
EndsAreReported == Faults \cap {"error", "httpTimeout", "channel"} = {}

EndsAreKnown ==
  /\ \A p \in Parties : result[p] # "error"
  /\ \A u \in Units : /\ pc[u] \notin {"begin", "creating", "ending", "ended"}
                      /\ pc[u] \in {"joining", "threw"} => result[u] # "none"
                      /\ pc[u] \in {"registering", "returned"} => result[u] = "ok"
  /\ notify # "none" => result[Initiator] # "none"
  /\ decision = "commit" => result[Initiator] = "ok"

FailedWorkIsUndone ==
  /\ \A p \in Parties : (pc[p] = "crashed" /\ wrote[p] # Nobody) => conn[wrote[p]] # "open"
  /\ \A u \in Units :
       (/\ pc[u] = "threw"
        /\ result[u] = "exception"
        /\ wrote[u] # Nobody
        /\ conn[wrote[u]] = "open") => cache[HostOf[u]] # wrote[u]

CommitsAreDecided == \A p \in Parties : conn[p] = "committed" => decision = "commit"

WorkInv == /\ EndsAreKnown
           /\ FailedWorkIsUndone
           /\ CommitsAreDecided
           /\ CommittedWorkIsDone

LEMMA SettledWork ==
  ASSUME TypeOK, AloneInv, DecisionInv, WritesInProcess, WorkInv,
         NEW i \in Instances, NEW d \in {"rollback", decision}, d # "none", Settle(i, d),
         UNCHANGED <<wrote, cache, result, decision>>
  PROVE  /\ \A c \in Parties : conn'[c] = "none" <=> conn[c] = "none"
         /\ \A c \in Parties : conn'[c] = "open" => conn[c] = "open"
         /\ \A c \in Parties : conn'[c] = "open" => cache[i] # c
         /\ CommitsAreDecided'
         /\ CommittedWorkIsDone'
<1> USE Names
<1>1. d \in {"commit", "rollback"}
  BY DEF TypeOK, Decision
<1>2. \A c \in Parties : conn'[c] # conn[c] => /\ conn[c] = "open"
                                               /\ cache[i] = c
                                               /\ conn'[c] \in Outcomes(d)
  BY <1>1, SettleEffect
<1>3. \A c \in Parties : cache[i] = c => conn'[c] # "open"
  BY <1>1, SettleEffect
<1>4. ASSUME NEW c \in Parties, conn'[c] # conn[c], conn'[c] = "committed"
      PROVE  decision = "commit" /\ conn[c] = "open" /\ cache[i] = c
  BY <1>2, <1>4 DEF Outcomes
<1>5. ASSUME NEW p \in Parties, wrote[p] # Nobody, conn'[wrote[p]] = "committed"
      PROVE  result[p] = "ok"
  <2>1. wrote[p] \in Parties
    BY <1>5 DEF TypeOK
  <2>2. CASE conn[wrote[p]] = "committed"
    BY <1>5, <2>2 DEF WorkInv, CommittedWorkIsDone
  <2>3. CASE conn[wrote[p]] # "committed"
    <3>1. decision = "commit" /\ conn[wrote[p]] = "open" /\ cache[i] = wrote[p]
      BY <1>4, <1>5, <2>1, <2>3
    <3>2. HostOf[p] = i
      BY <1>5, <2>1, <3>1 DEF WorkInv, WritesInProcess
    <3>3. CASE p \in Units
      <4>1. pc[p] \in {"returned", "threw", "crashed"}
        BY <1>5, <3>1, <3>3
        DEF TypeOK, ThreadStep, AloneInv, RunsAlone, Running, DecisionInv, DecidedByHandler,
            WorkInv, WritesInProcess, EndsAreKnown
      <4>2. pc[p] # "crashed"
        BY <1>5, <3>1 DEF WorkInv, FailedWorkIsUndone
      <4>3. ~(pc[p] = "threw" /\ result[p] = "exception")
        BY <1>5, <3>1, <3>2, <3>3 DEF WorkInv, FailedWorkIsUndone
      <4>4. QED
        BY <3>3, <4>1, <4>2, <4>3 DEF TypeOK, WorkInv, EndsAreKnown
    <3>4. CASE p = Initiator
      BY <3>1, <3>4 DEF WorkInv, EndsAreKnown
    <3>5. QED
      BY <3>3, <3>4 DEF Parties
  <2>4. QED
    BY <2>2, <2>3
<1>6. CommittedWorkIsDone'
  BY <1>5 DEF CommittedWorkIsDone
<1>7. CommitsAreDecided'
  BY <1>4 DEF WorkInv, CommitsAreDecided
<1>8. \A c \in Parties : /\ conn'[c] = "none" <=> conn[c] = "none"
                         /\ conn'[c] = "open" => conn[c] = "open"
  BY <1>2 DEF Outcomes
<1>9. QED
  BY <1>3, <1>6, <1>7, <1>8

LEMMA NextKeepsWork ==
  ASSUME EndsAreReported, TypeOK, DecisionInv, AloneInv, WritesInProcess, WorkInv, [Next]_vars
  PROVE  WorkInv'
<1> USE Names
<1>1. ~Fault("error") /\ ~Fault("channel") /\ ~Fault("httpTimeout")
  BY DEF EndsAreReported, Fault
<1>2. CASE InitiatorStep
  <2>1. ASSUME UNCHANGED <<connVars, result, notify, noticeVars>>,
               NEW s \in {"creating", "start", "threw"},
               pc' = [pc EXCEPT ![Initiator] = s] \/ pc' = pc
        PROVE  WorkInv'
    BY <2>1
    DEF WorkInv, EndsAreKnown, FailedWorkIsUndone, CommitsAreDecided,
        CommittedWorkIsDone, TypeOK, connVars, noticeVars
  <2>2. CASE BeginTransaction \/ GroupCreated \/ NotifyUnanswered
    BY <2>1, <2>2 DEF BeginTransaction, GroupCreated, NotifyUnanswered, rpcVars
  <2>3. ASSUME NEW u \in Units, CallReturns(u) PROVE WorkInv'
    BY <2>1, <2>3 DEF CallReturns, rpcVars
  <2>4. ASSUME NEW r \in {"ok", "exception"}, NotifyEnd(r), decision = "none" PROVE WorkInv'
    BY <1>1, <2>4
    DEF NotifyEnd, WorkInv, EndsAreKnown, FailedWorkIsUndone,
        CommitsAreDecided, CommittedWorkIsDone, TypeOK, connVars, noticeVars
  <2>5. CASE CreateFails \/ \E r \in {"ok", "exception", "error"} : EndInitiator(r)
    BY <1>1, <2>4, <2>5
    DEF CreateFails, EndInitiator, DecisionInv, NotifyOnce, DecidedByHandler
  <2>6. CASE NotifyAnswered
    <3>1. decision # "none" /\ HostOf[Initiator] \in Instances
      BY <2>6 DEF NotifyAnswered, DecisionInv, DecidedByHandler
    <3>2. /\ UNCHANGED <<wrote, cache, result, notify, decision>>
          /\ Settle(HostOf[Initiator], decision)
      BY <2>6 DEF NotifyAnswered, noticeVars, rpcVars
    <3>3. /\ \A c \in Parties : conn'[c] = "none" <=> conn[c] = "none"
          /\ \A c \in Parties : conn'[c] = "open" => conn[c] = "open"
          /\ CommitsAreDecided'
          /\ CommittedWorkIsDone'
      BY <3>1, <3>2, SettledWork
    <3>4. QED
      BY <2>6, <3>2, <3>3
      DEF NotifyAnswered, WorkInv, EndsAreKnown, FailedWorkIsUndone, TypeOK
  <2>7. QED
    BY <1>2, <2>2, <2>3, <2>5, <2>6 DEF InitiatorStep
<1>3. ASSUME NEW p \in Parties, ConnectionStep(p) \/ MissConnection(p) PROVE WorkInv'
  <2>1. CASE UseCachedConnection(p)
    BY <2>1
    DEF UseCachedConnection, Write, Live, WorkInv, WritesInProcess, EndsAreKnown,
        FailedWorkIsUndone, CommitsAreDecided, CommittedWorkIsDone, TypeOK, rpcVars, noticeVars
  <2>2. CASE MissConnection(p)
    BY <2>2
    DEF MissConnection, WorkInv, EndsAreKnown, FailedWorkIsUndone,
        CommitsAreDecided, CommittedWorkIsDone, TypeOK, connVars, rpcVars, noticeVars
  <2>3. CASE OpenConnection(p)
    <3>1. conn[p] = "none"
      BY <2>3 DEF OpenConnection, DecisionInv, FreshConnection
    <3>2. QED
      BY <2>3, <3>1
      DEF OpenConnection, Write, WritesInProcess, WorkInv, EndsAreKnown, FailedWorkIsUndone,
          CommitsAreDecided, CommittedWorkIsDone, TypeOK, rpcVars, noticeVars
  <2>4. QED
    BY <1>3, <2>1, <2>2, <2>3 DEF ConnectionStep
<1>4. ASSUME NEW u \in Units, CallUnit(u) PROVE WorkInv'
  BY <1>4
  DEF CallUnit, WorkInv, EndsAreKnown, FailedWorkIsUndone, CommitsAreDecided,
      CommittedWorkIsDone, TypeOK, connVars, rpcVars, noticeVars
<1>5. ASSUME NEW u \in Units, UnitStep(u) PROVE WorkInv'
  <2>1. ASSUME NEW r \in {"ok", "exception", "error"}, EndUnit(u, r) PROVE WorkInv'
    <3>1. decision = "none"
      BY <2>1 DEF EndUnit, AloneInv, RunsAlone, Running, DecisionInv, DecidedByHandler
    <3>2. QED
      BY <1>1, <2>1, <3>1
      DEF EndUnit, WorkInv, EndsAreKnown, FailedWorkIsUndone,
          CommitsAreDecided, CommittedWorkIsDone, TypeOK, connVars, noticeVars
  <2>2. CASE JoinRefused(u)
    <3>1. UNCHANGED <<wrote, cache, result, notify, decision>> /\ Settle(HostOf[u], "rollback")
      BY <2>2 DEF JoinRefused, noticeVars, rpcVars
    <3>2. /\ \A c \in Parties : conn'[c] = "none" <=> conn[c] = "none"
          /\ \A c \in Parties : conn'[c] = "open" => conn[c] = "open" /\ cache[HostOf[u]] # c
          /\ CommitsAreDecided'
          /\ CommittedWorkIsDone'
      BY <3>1, SettledWork
    <3>3. QED
      BY <2>2, <3>1, <3>2
      DEF JoinRefused, WorkInv, EndsAreKnown, FailedWorkIsUndone, TypeOK
  <2>3. CASE ScheduleCheck(u) \/ RegisterCheck(u)
    BY <2>3
    DEF ScheduleCheck, RegisterCheck, SysState, WorkInv, WritesInProcess, EndsAreKnown,
        FailedWorkIsUndone, CommitsAreDecided, CommittedWorkIsDone, TypeOK, connVars, rpcVars,
        noticeVars
  <2>4. QED
    BY <1>5, <2>1, <2>2, <2>3 DEF UnitStep
<1>6. ASSUME NEW i \in Instances, NEW d \in {"rollback", decision}, d # "none", Settle(i, d),
             UNCHANGED <<threadVars, wrote, cache, notify, noticeVars>>
      PROVE  WorkInv'
  <2>1. UNCHANGED <<result, decision>>
    BY <1>6 DEF threadVars, noticeVars
  <2>2. /\ \A c \in Parties : conn'[c] = "none" <=> conn[c] = "none"
        /\ \A c \in Parties : conn'[c] = "open" => conn[c] = "open"
        /\ CommitsAreDecided'
        /\ CommittedWorkIsDone'
    BY <1>6, <2>1, SettledWork
  <2>3. QED
    BY <1>6, <2>1, <2>2
    DEF WorkInv, EndsAreKnown, FailedWorkIsUndone, TypeOK, threadVars
<1>7. ASSUME NEW i \in Instances,
             cache' = [cache EXCEPT ![i] = Nobody] \/ UNCHANGED cache,
             UNCHANGED <<threadVars, wrote, conn, notify, noticeVars>>
      PROVE  WorkInv'
  BY <1>7
  DEF WorkInv, EndsAreKnown, FailedWorkIsUndone, CommitsAreDecided,
      CommittedWorkIsDone, TypeOK, threadVars, noticeVars
<1>8. ASSUME NEW u \in Units, NotifiedStep(u) PROVE WorkInv'
  <2>1. CASE UnitActs(u)
    <3>1. decision # "none"
      BY <2>1 DEF UnitActs, DecisionInv, DecidedByHandler
    <3>2. QED
      BY <1>6, <2>1, <3>1 DEF UnitActs
  <2>2. CASE StopCheck(u) \/ UnitCleansCache(u) \/ UnitReplies(u)
    BY <1>7, <2>2 DEF StopCheck, UnitCleansCache, UnitReplies, connVars
  <2>3. QED
    BY <1>8, <2>1, <2>2 DEF NotifiedStep
<1>9. ASSUME NEW u \in Units, CheckStep(u) PROVE WorkInv'
  <2>1. CASE CheckActs(u)
    BY <1>6, <1>7, <2>1 DEF CheckActs, rpcVars
  <2>2. CASE CheckFires(u) \/ CheckUnanswered(u) \/ AnswerState(u) \/ CheckCleans(u)
    BY <1>7, <2>2 DEF CheckFires, CheckUnanswered, AnswerState, CheckCleans, connVars, rpcVars
  <2>3. QED
    BY <1>9, <2>1, <2>2 DEF CheckStep
<1>10. ASSUME NEW i \in Instances, EvictConnection(i) PROVE WorkInv'
  BY <1>7, <1>10 DEF EvictConnection, rpcVars
<1>11. ASSUME NEW i \in Instances, ClientCrashes(i) PROVE WorkInv'
  BY <1>11
  DEF ClientCrashes, WritesInProcess, WorkInv, EndsAreKnown, FailedWorkIsUndone,
      CommitsAreDecided, CommittedWorkIsDone, TypeOK, noticeVars
<1>12. ASSUME UNCHANGED <<threadVars, connVars, decision>>, notify' # notify => notify # "none"
       PROVE  WorkInv'
  BY <1>12
  DEF WorkInv, EndsAreKnown, FailedWorkIsUndone, CommitsAreDecided,
      CommittedWorkIsDone, threadVars, connVars
<1>13. CASE NotifyHandler
  <2>1. CASE Decide
    BY <2>1
    DEF Decide, SysState, WorkInv, EndsAreKnown, FailedWorkIsUndone,
        CommitsAreDecided, CommittedWorkIsDone, DecisionInv, DecidedByHandler, TypeOK,
        threadVars, connVars
  <2>2. CASE ~Decide
    BY <1>12, <1>13, <2>2, NotifyLeaves
    DEF NotifyHandler, FindUnits, NotifyUnit, UnitAnswered, ReplyDecision, rpcVars, noticeVars
  <2>3. QED
    BY <2>1, <2>2
<1>14. ASSUME NEW u \in Units, RedisThrows(u) PROVE WorkInv'
  BY <1>12, <1>14 DEF RedisThrows, noticeVars
<1>15. CASE ManagerCrashes
  BY <1>12, <1>15 DEF ManagerCrashes, InHandler
<1>16. CASE StoreTakesStep \/ UNCHANGED vars
  BY <1>12, <1>16, StoreLeaves DEF noticeVars, rpcVars, vars
<1>17. QED
  BY <1>2, <1>3, <1>4, <1>5, <1>8, <1>9, <1>10, <1>11, <1>13, <1>14, <1>15, <1>16, Actors
  DEF ThreadTakesStep

\* Work of a business that failed, or never ended, is not committed.
THEOREM WorkIsDone == ASSUME EndsAreReported PROVE Spec => []CommittedWorkIsDone
<1>1. Init => WorkInv
  BY Names
  DEF Init, WorkInv, EndsAreKnown, FailedWorkIsUndone, CommitsAreDecided, CommittedWorkIsDone
<1>2. ~Fault("httpTimeout")
  BY DEF EndsAreReported, Fault
<1>3. WorkInv => CommittedWorkIsDone
  BY DEF WorkInv
<1>4. QED
  BY <1>1, <1>2, <1>3, NextKeepsWork, WritesInvariant, AloneInvariant, TypeCorrect,
     DecisionInvariant, PTL
  DEF Spec

-----------------------------------------------------------------------------
(***************************************************************************)
(* Who gets a notification.  With every answer waited for, every module on     *)
(* line and Redis in order, a unit that returned is in the group's entry when    *)
(* the units to notify are read from it.                                        *)
(***************************************************************************)

\* Every answer is waited for, every module is on line, and Redis is in order.
CallsAreAnswered ==
  Faults \subseteq {"swallow", "error", "channel", "dbFail", "evict", "tcCrash", "tmCrash"}

EntryIsThere ==
  /\ CreatesOnce
  /\ pc[Initiator] \in {"start", "opening", "worked"} => create = "replied"
  /\ \A u \in Units : pc[u] # "idle" => create = "replied"
  /\ create # "failed"
  /\ (create \in {"put", "replied"} /\ \A u \in Units : clean[u] = "none") => group # "absent"

NoticeOrder ==
  /\ pc[Initiator] = "ended" => notify = "replied"
  /\ CleanedAfterNotice
  /\ notify \in {"none", "sent", "decided"} => \A u \in Units : unitMsg[u] = "none"

JoinOrder ==
  \A u \in Units :
    /\ (join[u] = "replied" /\ \A v \in Units : clean[v] = "none") => u \in members
    /\ join[u] # "none" => pc[u] \in {"joining", "threw", "registering", "returned", "crashed"}
    /\ pc[u] \in {"registering", "returned"} => join[u] = "replied"

RegisterInv == EntryIsThere /\ NoticeOrder /\ JoinOrder

LEMMA NoLateAnswer ==
  ASSUME CallsAreAnswered
  PROVE  /\ ~Fault("httpTimeout")
         /\ ~Fault("rpcTimeout")
         /\ ~Fault("slow")
         /\ ~Fault("offline")
         /\ ~Fault("expire")
         /\ ~Fault("redis")
BY DEF CallsAreAnswered, Fault

LEMMA NextKeepsRegister ==
  ASSUME CallsAreAnswered, TypeOK, DecisionInv, AloneInv, RegisterInv, [Next]_vars
  PROVE  RegisterInv'
<1> USE Names, NoLateAnswer DEF RegisterInv, EntryIsThere, NoticeOrder, JoinOrder,
                                CleanedAfterNotice, CreatesOnce
<1>1. CASE InitiatorStep
  <2>1. UNCHANGED <<join, unitMsg, clean, group, members>>
    BY <1>1, InitiatorLeaves DEF storeVars
  <2>2. /\ pc'[Initiator] # "begin"
        /\ pc'[Initiator] \in {"start", "opening", "worked"} => create' = "replied"
    BY <1>1
    DEF InitiatorStep, BeginTransaction, GroupCreated, CreateFails, EndInitiator, NotifyEnd,
        NotifyAnswered, NotifyUnanswered, CallReturns, TypeOK, AloneInv, CallerWaits, rpcVars
  <2>3. /\ pc'[Initiator] = "ended" => notify' = "replied"
        /\ notify' = notify \/ (notify = "none" /\ notify' = "sent")
    BY <1>1
    DEF InitiatorStep, BeginTransaction, GroupCreated, CreateFails, EndInitiator, NotifyEnd,
        NotifyAnswered, NotifyUnanswered, CallReturns, TypeOK, AloneInv, CallerWaits, rpcVars,
        DecisionInv, NotifyOnce
  <2>4. QED
    BY <1>1, <2>1, <2>2, <2>3, InitiatorLeaves
<1>2. ASSUME NEW p \in Parties, ConnectionStep(p) \/ MissConnection(p) PROVE RegisterInv'
  BY <1>2
  DEF ConnectionStep, UseCachedConnection, MissConnection, OpenConnection, TypeOK, rpcVars,
      storeVars
<1>3. ASSUME NEW u \in Units, CallUnit(u) PROVE RegisterInv'
  BY <1>3 DEF CallUnit, TypeOK, rpcVars, storeVars
<1>4. ASSUME NEW u \in Units, UnitStep(u) PROVE RegisterInv'
  <2>1. ASSUME NEW r \in {"ok", "exception", "error"}, EndUnit(u, r) PROVE RegisterInv'
    BY <2>1 DEF EndUnit, TypeOK, storeVars
  <2>2. CASE JoinRefused(u) \/ ScheduleCheck(u) \/ RegisterCheck(u)
    BY <2>2 DEF JoinRefused, ScheduleCheck, RegisterCheck, TypeOK, rpcVars, storeVars
  <2>3. QED
    BY <1>4, <2>1, <2>2 DEF UnitStep
<1>5. ASSUME NEW u \in Units, NotifiedStep(u) PROVE RegisterInv'
  <2>1. \A v \in Units : unitMsg'[v] = "none" <=> unitMsg[v] = "none"
    BY <1>5 DEF NotifiedStep, UnitActs, StopCheck, UnitCleansCache, UnitReplies, TypeOK
  <2>2. \A v \in Units : clean'[v] = clean[v] \/ (clean'[v] # "none" /\ unitMsg[v] # "none")
    BY <1>5 DEF NotifiedStep, UnitActs, StopCheck, UnitCleansCache, UnitReplies, TypeOK
  <2>3. QED
    BY <1>5, <2>1, <2>2, NotifiedLeaves DEF threadVars, storeVars
<1>6. ASSUME NEW i \in Instances, ClientCrashes(i) PROVE RegisterInv'
  BY <1>6 DEF ClientCrashes, TypeOK, storeVars
<1>7. CASE CreateHandler
  BY <1>7 DEF CreateHandler, PutGroup, SetGroupTtl, threadVars
<1>8. ASSUME NEW u \in Units, JoinHandler(u) PROVE RegisterInv'
  <2>1. CASE SaveVeto(u)
    BY <2>1 DEF SaveVeto, TypeOK, threadVars
  <2>2. CASE FindGroup(u)
    BY <2>2 DEF FindGroup, TypeOK, threadVars, storeVars
  <2>3. CASE PutUnit(u)
    BY <2>3 DEF PutUnit, TypeOK, threadVars
  <2>4. QED
    BY <1>8, <2>1, <2>2, <2>3 DEF JoinHandler
<1>9. ASSUME NEW u \in Units, ClearGroup(u) PROVE RegisterInv'
  BY <1>9 DEF ClearGroup, TypeOK, threadVars
<1>10. CASE NotifyHandler
  BY <1>10, NotifyLeaves
  DEF NotifyHandler, Decide, FindUnits, NotifyUnit, UnitAnswered, ReplyDecision, TypeOK,
      threadVars, storeVars, rpcVars
<1>11. CASE ManagerCrashes
  BY <1>11 DEF ManagerCrashes, InHandler, threadVars, storeVars
<1>12. ASSUME UNCHANGED <<threadVars, rpcVars, storeVars>> PROVE RegisterInv'
  BY <1>12 DEF threadVars, rpcVars, storeVars
<1>13. QED
  BY <1>1, <1>2, <1>3, <1>4, <1>5, <1>6, <1>7, <1>8, <1>9, <1>10, <1>11, <1>12, Actors,
     CheckLeaves
  DEF ThreadTakesStep, StoreTakesStep, GroupExpires, StateExpires, EvictConnection,
      RedisThrows, vars

LEMMA RegisterInvariant == ASSUME CallsAreAnswered PROVE Spec => []RegisterInv
<1>1. Init => RegisterInv
  BY Names DEF Init, RegisterInv, EntryIsThere, NoticeOrder, JoinOrder, CleanedAfterNotice,
               CreatesOnce
<1>2. QED
  BY <1>1, NextKeepsRegister, NoLateAnswer, AloneInvariant, TypeCorrect, DecisionInvariant, PTL
  DEF Spec

-----------------------------------------------------------------------------
(***************************************************************************)
(* The delay tasks.  A unit whose task still waits is on its way to be told    *)
(* the decision, unless the group is abandoned: nothing will be notified, or     *)
(* the handler that did so is gone.  Only the tasks of an abandoned group fire.  *)
(***************************************************************************)

\* A unit's notification goes to the process that runs the unit: no replicas.
NotifiedAtHome == \A u \in Units : TargetOf(u) = HostOf[u]

Abandoned == \/ notify = "dead"
             \/ notify = "none" /\ pc[Initiator] \in {"threw", "crashed"}

ToTell(u) == \/ notify = "decided" /\ u \in members
             \/ notify = "looping" /\ u \in toNotify
             \/ notify = "looping" /\ waiting = u /\ unitMsg[u] = "sent"

CallsSurvive ==
  ~Fault("tmCrash") => notify # "dead" /\ \A u \in Units : join[u] # "dead"

CheckOrder ==
  \A u \in Units :
    /\ timer[u] = "scheduled" => pc[u] \in {"registering", "returned"}
    /\ timer[u] \in {"asking", "answered", "reporting", "cleaning"} => Abandoned
    /\ (timer[u] = "scheduled" /\ decision # "none" /\ ~Abandoned) =>
          \/ ToTell(u)
          \/ notify = "looping" /\ waiting = u /\ unitMsg[u] = "acted"

CheckInv == CallsSurvive /\ CheckOrder

LEMMA NextKeepsCheck ==
  ASSUME CallsAreAnswered, NotifiedAtHome, TypeOK, DecisionInv, AloneInv, RegisterInv, CheckInv,
         [Next]_vars
  PROVE  CheckInv'
<1> USE Names, NoLateAnswer DEF CheckInv, CallsSurvive, CheckOrder, Abandoned, ToTell
<1>1. /\ notify # "none" => \A u \in Units : pc[u] \notin Running
      /\ decision # "none" => notify # "none"
      /\ \A u \in Units : unitMsg[u] # "none" => decision # "none"
      /\ notify = "replied" => decision # "none"
      /\ pc[Initiator] = "ended" => notify = "replied"
      /\ notify \in {"sent", "decided"} => \A u \in Units : clean[u] = "none"
      /\ notify \in {"sent", "decided"} => \A u \in Units : pc[u] = "returned" => u \in members
  BY DEF DecisionInv, DecidedByHandler, AloneInv, RunsAlone, RegisterInv, NoticeOrder,
         CleanedAfterNotice, JoinOrder
<1>2. CASE InitiatorStep
  <2>1. UNCHANGED <<timer, join, unitMsg, members, noticeVars>>
    BY <1>2, InitiatorLeaves
    DEF InitiatorStep, BeginTransaction, GroupCreated, CreateFails, EndInitiator, NotifyEnd,
        NotifyAnswered, NotifyUnanswered, CallReturns, storeVars
  <2>2. notify' = notify \/ (notify = "none" /\ notify' = "sent")
    BY <1>2
    DEF InitiatorStep, BeginTransaction, GroupCreated, CreateFails, EndInitiator, NotifyEnd,
        NotifyAnswered, NotifyUnanswered, CallReturns, DecisionInv, NotifyOnce, rpcVars
  <2>3. pc[Initiator] \in {"threw", "crashed"} => UNCHANGED <<pc, notify>>
    BY <1>2
    DEF InitiatorStep, BeginTransaction, GroupCreated, CreateFails, EndInitiator, NotifyEnd,
        NotifyAnswered, NotifyUnanswered, CallReturns, rpcVars
  <2>4. QED
    BY <1>1, <1>2, <2>1, <2>2, <2>3, InitiatorLeaves DEF noticeVars
<1>3. ASSUME NEW p \in Parties, ConnectionStep(p) \/ MissConnection(p) PROVE CheckInv'
  BY <1>3
  DEF ConnectionStep, UseCachedConnection, MissConnection, OpenConnection, TypeOK, rpcVars,
      storeVars, noticeVars
<1>4. ASSUME NEW u \in Units, CallUnit(u) PROVE CheckInv'
  BY <1>4 DEF CallUnit, TypeOK, rpcVars, storeVars, noticeVars
<1>5. ASSUME NEW u \in Units, UnitStep(u) PROVE CheckInv'
  <2>1. pc[u] \in Running
    BY <1>5 DEF UnitStep, EndUnit, JoinRefused, ScheduleCheck, RegisterCheck, Running
  <2>2. notify = "none" /\ decision = "none"
    BY <1>1, <2>1
  <2>3. CASE JoinRefused(u)
    BY <1>5, <2>2, <2>3 DEF JoinRefused, TypeOK, rpcVars, storeVars, noticeVars
  <2>4. CASE ~JoinRefused(u)
    BY <1>5, <2>2, <2>4
    DEF UnitStep, EndUnit, ScheduleCheck, RegisterCheck, TypeOK, rpcVars, storeVars, noticeVars
  <2>5. QED
    BY <2>3, <2>4
<1>6. ASSUME NEW u \in Units, NotifiedStep(u) PROVE CheckInv'
  <2>1. UNCHANGED <<pc, notify, join, members, decision, toNotify, waiting>>
    BY <1>6, NotifiedLeaves DEF threadVars, storeVars, noticeVars
  <2>2. CASE UnitActs(u)
    BY <2>1, <2>2 DEF UnitActs, TypeOK
  <2>3. CASE StopCheck(u)
    <3>1. pc[u] # "registering" /\ TargetOf(u) = HostOf[u]
      BY <1>1, <2>3 DEF StopCheck, Running, NotifiedAtHome
    <3>2. /\ \A v \in Units : v # u => timer'[v] = timer[v] /\ unitMsg'[v] = unitMsg[v]
          /\ timer'[u] # "scheduled"
          /\ timer'[u] \in {"asking", "answered", "reporting", "cleaning"}
               => timer[u] \in {"asking", "answered", "reporting", "cleaning"}
      <4>1. CASE pc[u] = "returned"
        <5>1. timer' = [timer EXCEPT ![u] = CASE timer[u] = "scheduled" -> "cancelled"
                                              [] timer[u] = "asking" -> "reporting"
                                              [] OTHER -> timer[u]]
          BY <2>3, <3>1, <4>1 DEF StopCheck
        <5>2. timer'[u] = CASE timer[u] = "scheduled" -> "cancelled"
                            [] timer[u] = "asking" -> "reporting"
                            [] OTHER -> timer[u]
          BY <5>1 DEF TypeOK
        <5>3. \/ timer[u] = "scheduled" /\ timer'[u] = "cancelled"
              \/ timer[u] = "asking" /\ timer'[u] = "reporting"
              \/ timer[u] # "scheduled" /\ timer[u] # "asking" /\ timer'[u] = timer[u]
          BY <5>2
        <5>4. \A v \in Units : v # u => timer'[v] = timer[v]
          BY <5>1 DEF TypeOK
        <5>5. QED
          BY <2>3, <5>3, <5>4 DEF StopCheck, TypeOK
      <4>2. CASE pc[u] # "returned"
        BY <2>3, <3>1, <4>2 DEF StopCheck, TypeOK
      <4>3. QED
        BY <4>1, <4>2
    <3>3. QED
      BY <2>1, <3>2
  <2>4. CASE UnitCleansCache(u) \/ UnitReplies(u)
    BY <2>1, <2>4 DEF UnitCleansCache, UnitReplies, TypeOK
  <2>5. QED
    BY <1>6, <2>2, <2>3, <2>4 DEF NotifiedStep
<1>7. ASSUME NEW u \in Units, CheckStep(u) PROVE CheckInv'
  <2>1. UNCHANGED <<pc, notify, join, unitMsg, members, decision, toNotify, waiting>>
    BY <1>7, CheckLeaves DEF threadVars, rpcVars, storeVars, noticeVars
  <2>2. CASE CheckFires(u)
    <3>1. Abandoned
      BY <1>1, <2>2 DEF CheckFires, Over
    <3>2. QED
      BY <2>1, <2>2, <3>1 DEF CheckFires, TypeOK
  <2>3. CASE ~CheckFires(u)
    BY <1>7, <2>1, <2>3 DEF CheckStep, CheckUnanswered, AnswerState, CheckActs, CheckCleans, TypeOK
  <2>4. QED
    BY <2>2, <2>3
<1>8. ASSUME NEW i \in Instances, ClientCrashes(i) PROVE CheckInv'
  <2>1. UNCHANGED <<notify, join, members, decision, toNotify, waiting>>
    BY <1>8 DEF ClientCrashes, storeVars, noticeVars
  <2>2. \A u \in Units : timer'[u] = "scheduled" => /\ timer[u] = "scheduled"
                                                   /\ pc'[u] = pc[u]
                                                   /\ unitMsg'[u] = unitMsg[u]
    BY <1>8 DEF ClientCrashes, NotifiedAtHome, TypeOK
  <2>3. \A u \in Units : timer'[u] \notin {"none", "done"} => timer'[u] = timer[u]
    BY <1>8 DEF ClientCrashes
  <2>4. pc'[Initiator] = pc[Initiator] \/ pc'[Initiator] = "crashed"
    BY <1>8 DEF ClientCrashes
  <2>5. QED
    BY <2>1, <2>2, <2>3, <2>4
<1>9. CASE StoreTakesStep
  <2>1. UNCHANGED <<pc, timer, notify, unitMsg, decision, toNotify, waiting>>
    BY <1>9, StoreLeaves DEF threadVars, noticeVars
  <2>2. notify = "decided" => members \subseteq members'
    BY <1>1, <1>9
    DEF StoreTakesStep, CreateHandler, PutGroup, SetGroupTtl, JoinHandler, SaveVeto, FindGroup,
        PutUnit, ClearGroup, GroupExpires, StateExpires, storeVars
  <2>3. \A u \in Units : join'[u] = "dead" => join[u] = "dead"
    BY <1>9
    DEF StoreTakesStep, CreateHandler, PutGroup, SetGroupTtl, JoinHandler, SaveVeto, FindGroup,
        PutUnit, ClearGroup, GroupExpires, StateExpires, rpcVars, TypeOK
  <2>4. QED
    BY <2>1, <2>2, <2>3
<1>10. CASE NotifyHandler
  <2>1. UNCHANGED <<pc, timer, join, members>>
    BY <1>10, NotifyLeaves DEF threadVars, storeVars
  <2>2. CASE Decide
    BY <1>1, <2>1, <2>2 DEF Decide, Running
  <2>3. CASE FindUnits \/ ReplyDecision
    BY <2>1, <2>3 DEF FindUnits, ReplyDecision, noticeVars
  <2>4. ASSUME NEW u \in Units, NotifyUnit(u) PROVE CheckInv'
    BY <2>1, <2>4 DEF NotifyUnit, TypeOK
  <2>5. CASE UnitAnswered
    BY <2>1, <2>5 DEF UnitAnswered, Unanswered, rpcVars
  <2>6. QED
    BY <1>10, <2>2, <2>3, <2>4, <2>5 DEF NotifyHandler
<1>11. CASE ManagerCrashes
  BY <1>11 DEF ManagerCrashes, threadVars, storeVars
<1>12. ASSUME UNCHANGED <<threadVars, timer, rpcVars, storeVars, noticeVars>> PROVE CheckInv'
  BY <1>12 DEF threadVars, rpcVars, storeVars, noticeVars
<1>13. QED
  BY <1>2, <1>3, <1>4, <1>5, <1>6, <1>7, <1>8, <1>9, <1>10, <1>11, <1>12, Actors
  DEF ThreadTakesStep, EvictConnection, RedisThrows, vars

LEMMA CheckInvariant ==
  ASSUME CallsAreAnswered, NotifiedAtHome PROVE Spec => []CheckInv
<1>1. Init => CheckInv
  BY Names DEF Init, CheckInv, CallsSurvive, CheckOrder, Abandoned, ToTell
<1>2. QED
  BY <1>1, NextKeepsCheck, NoLateAnswer, RegisterInvariant, AloneInvariant, TypeCorrect,
     DecisionInvariant, PTL
  DEF Spec

\* No delay task is told to roll back what the TM decided to commit, as long as the
\* TM lives and no answer is late.
THEOREM CheckIsRight ==
  ASSUME CallsAreAnswered, NotifiedAtHome, ~Fault("tmCrash") PROVE Spec => CheckConfirmsDecision
<1>1. DecisionInv /\ CheckInv =>
        \A u \in Units : (timer[u] = "asking" /\ timer'[u] = "answered") => decision # "commit"
  BY DEF DecisionInv, DecidedByHandler, CheckInv, CallsSurvive, CheckOrder, Abandoned
<1>2. QED
  BY <1>1, CheckInvariant, DecisionInvariant, PTL DEF Spec, CheckConfirmsDecision

-----------------------------------------------------------------------------
(***************************************************************************)
(* All or nothing.  A rollback before the decision is that of a unit whose     *)
(* veto is saved, so the TM will decide the same, or that of an abandoned group,  *)
(* for which nothing will be decided.                                           *)
(***************************************************************************)
SavedVeto ==
  \A u \in Units :
    (result[u] = "exception" /\ join[u] \in {"saved", "checked", "replied"}) => vetoed

LEMMA NextKeepsSavedVeto ==
  ASSUME CallsAreAnswered, TypeOK, RegisterInv, SavedVeto, [Next]_vars
  PROVE  SavedVeto'
<1> USE Names, NoLateAnswer DEF SavedVeto
<1>1. CASE InitiatorStep
  <2>1. \A u \in Units : result'[u] = result[u]
    BY <1>1
    DEF InitiatorStep, BeginTransaction, GroupCreated, CreateFails, EndInitiator, NotifyEnd,
        NotifyAnswered, NotifyUnanswered, CallReturns, TypeOK
  <2>2. UNCHANGED <<join, vetoed>>
    BY <1>1
    DEF InitiatorStep, BeginTransaction, GroupCreated, CreateFails, EndInitiator, NotifyEnd,
        NotifyAnswered, NotifyUnanswered, CallReturns, rpcVars, storeVars
  <2>3. QED
    BY <2>1, <2>2
<1>2. ASSUME NEW u \in Units, UnitStep(u) PROVE SavedVeto'
  BY <1>2
  DEF UnitStep, EndUnit, JoinRefused, ScheduleCheck, RegisterCheck, TypeOK, RegisterInv,
      JoinOrder, rpcVars, storeVars
<1>3. ASSUME NEW u \in Units, JoinHandler(u) PROVE SavedVeto'
  BY <1>3 DEF JoinHandler, SaveVeto, FindGroup, PutUnit, SysState, TypeOK, threadVars, storeVars
<1>4. CASE ManagerCrashes
  BY <1>4 DEF ManagerCrashes, threadVars, storeVars
<1>5. ASSUME UNCHANGED <<result, join, vetoed>> PROVE SavedVeto'
  BY <1>5
<1>6. ASSUME NEW p \in Parties, ConnectionStep(p) \/ MissConnection(p) PROVE SavedVeto'
  BY <1>5, <1>6
  DEF ConnectionStep, UseCachedConnection, MissConnection, OpenConnection, rpcVars, storeVars
<1>7. ASSUME NEW u \in Units, CallUnit(u) PROVE SavedVeto'
  BY <1>5, <1>7 DEF CallUnit, rpcVars, storeVars
<1>8. ASSUME NEW u \in Units, NotifiedStep(u) \/ CheckStep(u) PROVE SavedVeto'
  BY <1>5, <1>8, NotifiedLeaves, CheckLeaves DEF threadVars, rpcVars, storeVars
<1>9. ASSUME NEW i \in Instances, EvictConnection(i) \/ ClientCrashes(i) PROVE SavedVeto'
  BY <1>5, <1>9 DEF EvictConnection, ClientCrashes, threadVars, rpcVars, storeVars
<1>10. CASE CreateHandler \/ \E u \in Units : ClearGroup(u)
  BY <1>5, <1>10 DEF CreateHandler, PutGroup, SetGroupTtl, ClearGroup, threadVars
<1>11. CASE NotifyHandler \/ UNCHANGED vars
  BY <1>5, <1>11, NotifyLeaves DEF threadVars, rpcVars, storeVars, vars
<1>12. QED
  BY <1>1, <1>2, <1>3, <1>4, <1>6, <1>7, <1>8, <1>9, <1>10, <1>11, Actors
  DEF ThreadTakesStep, StoreTakesStep, GroupExpires, StateExpires, RedisThrows

LEMMA SavedVetoInvariant == ASSUME CallsAreAnswered PROVE Spec => []SavedVeto
<1>1. Init => SavedVeto
  BY Names DEF Init, SavedVeto
<1>2. QED
  BY <1>1, NextKeepsSavedVeto, RegisterInvariant, TypeCorrect, PTL DEF Spec

\* Business code may fail and the cache drop a connection; a join may not be sent.
NothingBreaks == Faults \subseteq {"swallow", "error", "channel", "evict"}

RollbacksAreDecided ==
  \A p \in Parties : conn[p] = "rolledback" =>
    \/ decision = "rollback"
    \/ decision = "none" /\ (vetoed \/ Abandoned)

AtomicInv == CommitsAreDecided /\ RollbacksAreDecided

LEMMA NoBreak ==
  ASSUME NothingBreaks
  PROVE  /\ CallsAreAnswered
         /\ ~Fault("dbFail")
         /\ ~Fault("tcCrash")
         /\ ~Fault("tmCrash")
BY DEF NothingBreaks, CallsAreAnswered, Fault

LEMMA NextKeepsAtomic ==
  ASSUME NothingBreaks, TypeOK, DecisionInv, AloneInv, RegisterInv, CheckInv, SavedVeto,
         AtomicInv, [Next]_vars
  PROVE  AtomicInv'
<1> USE Names, NoBreak, NoLateAnswer DEF AtomicInv, CommitsAreDecided, RollbacksAreDecided
<1>1. /\ notify # "dead"
      /\ notify \in {"none", "sent"} <=> decision = "none"
      /\ \A u \in Units : unitMsg[u] # "none" => decision # "none"
      /\ \A u \in Units : pc[u] \in Running => decision = "none"
  BY DEF CheckInv, CallsSurvive, DecisionInv, DecidedByHandler, AloneInv, RunsAlone
<1>2. ASSUME UNCHANGED <<conn, vetoed, decision>>, Abandoned /\ decision = "none" => Abandoned'
      PROVE  AtomicInv'
  BY <1>2
<1>3. ASSUME UNCHANGED <<conn, vetoed, decision, pc, notify>> PROVE AtomicInv'
  BY <1>2, <1>3 DEF Abandoned
<1>4. ASSUME NEW i \in Instances, NEW d \in {"commit", "rollback"}, Settle(i, d),
             UNCHANGED <<vetoed, decision, notify>>,
             Abandoned => Abandoned',
             \/ decision = d
             \/ d = "rollback" /\ decision = "none" /\ (vetoed \/ Abandoned)
      PROVE  AtomicInv'
  <2>1. \A c \in Parties : conn'[c] # conn[c] => conn'[c] \in Outcomes(d)
    BY <1>4, SettleEffect
  <2>2. Outcomes(d) = IF d = "commit" THEN {"committed"} ELSE {"rolledback"}
    BY DEF Outcomes
  <2>3. QED
    BY <1>4, <2>1, <2>2
<1>5. CASE InitiatorStep
  <2>1. pc[Initiator] \in {"threw", "crashed"} => UNCHANGED <<pc, notify>>
    BY <1>5
    DEF InitiatorStep, BeginTransaction, GroupCreated, CreateFails, EndInitiator, NotifyEnd,
        NotifyAnswered, NotifyUnanswered, CallReturns, rpcVars
  <2>2. Abandoned => Abandoned'
    BY <1>1, <2>1 DEF Abandoned
  <2>3. UNCHANGED <<vetoed, decision>>
    BY <1>5, InitiatorLeaves DEF storeVars, noticeVars
  <2>4. CASE NotifyAnswered
    BY <1>1, <1>4, <2>2, <2>3, <2>4 DEF NotifyAnswered, TypeOK, Decision, rpcVars
  <2>5. CASE ~NotifyAnswered
    <3>1. UNCHANGED conn
      BY <1>5, <2>5
      DEF InitiatorStep, BeginTransaction, GroupCreated, CreateFails, EndInitiator, NotifyEnd,
          NotifyUnanswered, CallReturns, connVars
    <3>2. QED
      BY <1>2, <2>2, <2>3, <3>1
  <2>6. QED
    BY <2>4, <2>5
<1>6. ASSUME NEW p \in Parties, ConnectionStep(p) \/ MissConnection(p) PROVE AtomicInv'
  BY <1>6
  DEF ConnectionStep, UseCachedConnection, MissConnection, OpenConnection, Abandoned, TypeOK,
      connVars, rpcVars, storeVars, noticeVars
<1>7. ASSUME NEW u \in Units, CallUnit(u) PROVE AtomicInv'
  BY <1>2, <1>7 DEF CallUnit, Abandoned, TypeOK, connVars, rpcVars, storeVars, noticeVars
<1>8. ASSUME NEW u \in Units, UnitStep(u) PROVE AtomicInv'
  <2>1. UNCHANGED <<vetoed, decision, notify>> /\ pc'[Initiator] = pc[Initiator]
    BY <1>8
    DEF UnitStep, EndUnit, JoinRefused, ScheduleCheck, RegisterCheck, TypeOK, rpcVars, storeVars,
        noticeVars
  <2>2. CASE JoinRefused(u)
    <3>1. result[u] = "exception" /\ join[u] = "replied"
      BY <2>2 DEF JoinRefused, Unanswered, SysState, CheckInv, CallsSurvive
    <3>2. vetoed /\ decision = "none"
      BY <1>1, <2>2, <3>1 DEF JoinRefused, SavedVeto, Running
    <3>3. QED
      BY <1>4, <2>1, <2>2, <3>2 DEF JoinRefused, Abandoned
  <2>3. CASE ~JoinRefused(u)
    BY <1>2, <1>8, <2>1, <2>3
    DEF UnitStep, EndUnit, ScheduleCheck, RegisterCheck, Abandoned, connVars
  <2>4. QED
    BY <2>2, <2>3
<1>9. ASSUME NEW u \in Units, NotifiedStep(u) PROVE AtomicInv'
  <2>1. UNCHANGED <<pc, vetoed, decision, notify>>
    BY <1>9, NotifiedLeaves DEF threadVars, storeVars, noticeVars
  <2>2. CASE UnitActs(u)
    BY <1>1, <1>4, <2>1, <2>2 DEF UnitActs, Abandoned, TypeOK, Decision
  <2>3. CASE ~UnitActs(u)
    BY <1>3, <1>9, <2>1, <2>3
    DEF NotifiedStep, StopCheck, UnitCleansCache, UnitReplies, connVars
  <2>4. QED
    BY <2>2, <2>3
<1>10. ASSUME NEW u \in Units, CheckStep(u) PROVE AtomicInv'
  <2>1. UNCHANGED <<pc, vetoed, decision, notify>>
    BY <1>10, CheckLeaves DEF threadVars, rpcVars, storeVars, noticeVars
  <2>2. CASE timer[u] \in {"answered", "reporting"} /\ Settle(HostOf[u], "rollback")
    <3>1. Abandoned /\ decision = "none"
      BY <1>1, <2>2 DEF CheckInv, CheckOrder, Abandoned
    <3>2. QED
      BY <1>4, <2>1, <2>2, <3>1 DEF Abandoned
  <2>3. CASE UNCHANGED conn
    BY <1>3, <2>1, <2>3
  <2>4. QED
    BY <1>10, <2>2, <2>3
    DEF CheckStep, CheckFires, CheckUnanswered, AnswerState, CheckActs, CheckCleans, connVars
<1>11. CASE StoreTakesStep
  <2>1. UNCHANGED <<conn, decision, pc, notify>>
    BY <1>11, StoreLeaves DEF threadVars, connVars, noticeVars
  <2>2. vetoed => vetoed'
    BY <1>11
    DEF StoreTakesStep, CreateHandler, PutGroup, SetGroupTtl, JoinHandler, SaveVeto, FindGroup,
        PutUnit, ClearGroup, GroupExpires, StateExpires, storeVars
  <2>3. QED
    BY <2>1, <2>2 DEF Abandoned
<1>12. CASE NotifyHandler
  <2>1. UNCHANGED <<pc, conn, vetoed>>
    BY <1>12, NotifyLeaves DEF threadVars, connVars, storeVars
  <2>2. CASE Decide
    BY <1>1, <2>1, <2>2 DEF Decide, Abandoned
  <2>3. CASE ~Decide
    BY <1>1, <1>2, <1>12, <2>1, <2>3
    DEF NotifyHandler, FindUnits, NotifyUnit, UnitAnswered, ReplyDecision, Abandoned, noticeVars,
        rpcVars
  <2>4. QED
    BY <2>2, <2>3
<1>13. ASSUME NEW i \in Instances, EvictConnection(i) PROVE AtomicInv'
  BY <1>3, <1>13 DEF EvictConnection, threadVars, rpcVars, storeVars, noticeVars
<1>14. CASE UNCHANGED vars
  BY <1>3, <1>14 DEF vars, threadVars, connVars, rpcVars, storeVars, noticeVars
<1>15. QED
  BY <1>5, <1>6, <1>7, <1>8, <1>9, <1>10, <1>11, <1>12, <1>13, <1>14, Actors
  DEF ThreadTakesStep, ClientCrashes, RedisThrows, ManagerCrashes

\* No connection of a group is committed while another is rolled back.
THEOREM AllOrNothing ==
  ASSUME NothingBreaks, NotifiedAtHome PROVE Spec => []Atomic
<1>1. Init => AtomicInv
  BY Names DEF Init, AtomicInv, CommitsAreDecided, RollbacksAreDecided
<1>2. AtomicInv => Atomic
  BY DEF AtomicInv, CommitsAreDecided, RollbacksAreDecided, Atomic
<1>3. CallsAreAnswered /\ ~Fault("httpTimeout")
  BY NoBreak, NoLateAnswer
<1>4. QED
  BY <1>1, <1>2, <1>3, NextKeepsAtomic, SavedVetoInvariant, CheckInvariant, RegisterInvariant,
     AloneInvariant, TypeCorrect, DecisionInvariant, PTL
  DEF Spec

-----------------------------------------------------------------------------
(***************************************************************************)
(* What lasts: an abandoned group stays abandoned, and a unit on the list of   *)
(* those to tell stays there until it acts, its process stops or the handler     *)
(* does.                                                                       *)
(***************************************************************************)
LEMMA AbandonedForGood ==
  ASSUME CallsAreAnswered, TypeOK, DecisionInv, [Next]_vars, Abandoned
  PROVE  Abandoned'
<1> USE Names, NoLateAnswer DEF Abandoned
<1>1. CASE InitiatorStep
  BY <1>1
  DEF InitiatorStep, BeginTransaction, GroupCreated, CreateFails, EndInitiator, NotifyEnd,
      NotifyAnswered, NotifyUnanswered, CallReturns, DecisionInv, NotifyOnce, TypeOK, rpcVars
<1>2. ASSUME NEW p \in Parties, ConnectionStep(p) \/ MissConnection(p) PROVE Abandoned'
  BY <1>2
  DEF ConnectionStep, UseCachedConnection, MissConnection, OpenConnection, TypeOK, rpcVars
<1>3. ASSUME NEW u \in Units, CallUnit(u) \/ UnitStep(u) PROVE Abandoned'
  BY <1>3
  DEF CallUnit, UnitStep, EndUnit, JoinRefused, ScheduleCheck, RegisterCheck, TypeOK, rpcVars
<1>4. ASSUME NEW i \in Instances, ClientCrashes(i) PROVE Abandoned'
  BY <1>4 DEF ClientCrashes
<1>5. CASE NotifyHandler
  BY <1>5, NotifyLeaves
  DEF NotifyHandler, Decide, FindUnits, NotifyUnit, UnitAnswered, ReplyDecision, threadVars,
      rpcVars
<1>6. CASE ManagerCrashes
  BY <1>6 DEF ManagerCrashes, InHandler, threadVars
<1>7. ASSUME UNCHANGED <<pc, notify>> PROVE Abandoned'
  BY <1>7
<1>8. QED
  BY <1>1, <1>2, <1>3, <1>4, <1>5, <1>6, <1>7, Actors, NotifiedLeaves, CheckLeaves, StoreLeaves
  DEF ThreadTakesStep, EvictConnection, RedisThrows, threadVars, rpcVars, vars

LEMMA ToldLater ==
  ASSUME CallsAreAnswered, TypeOK, DecisionInv, AloneInv, RegisterInv, [Next]_vars,
         NEW u \in Units, ToTell(u)
  PROVE  \/ ToTell(u)'
         \/ notify' = "dead"
         \/ UnitActs(u)
         \/ ClientCrashes(TargetOf(u))
<1> USE Names, NoLateAnswer DEF ToTell
<1>1. ASSUME UNCHANGED <<notify, toNotify, waiting>>, members \subseteq members',
             unitMsg[u] = "sent" => unitMsg'[u] = "sent"
      PROVE  ToTell(u)'
  BY <1>1
<1>2. notify \notin {"none", "sent"}
  OBVIOUS
<1>3. notify = "decided" => \A v \in Units : clean[v] = "none"
  BY DEF RegisterInv, NoticeOrder, CleanedAfterNotice
<1>4. CASE InitiatorStep
  <2>1. UNCHANGED notify
    BY <1>2, <1>4
    DEF InitiatorStep, BeginTransaction, GroupCreated, CreateFails, EndInitiator, NotifyEnd,
        NotifyAnswered, NotifyUnanswered, CallReturns, DecisionInv, NotifyOnce, rpcVars
  <2>2. QED
    BY <1>1, <1>4, <2>1, InitiatorLeaves DEF storeVars, noticeVars
<1>5. ASSUME NEW p \in Parties, ConnectionStep(p) \/ MissConnection(p) PROVE ToTell(u)'
  BY <1>1, <1>5
  DEF ConnectionStep, UseCachedConnection, MissConnection, OpenConnection, rpcVars, storeVars,
      noticeVars
<1>6. ASSUME NEW v \in Units, CallUnit(v) \/ UnitStep(v) PROVE ToTell(u)'
  BY <1>1, <1>6
  DEF CallUnit, UnitStep, EndUnit, JoinRefused, ScheduleCheck, RegisterCheck, rpcVars,
      storeVars, noticeVars
<1>7. ASSUME NEW v \in Units, NotifiedStep(v), ~UnitActs(u) PROVE ToTell(u)'
  <2>1. unitMsg[u] = "sent" => unitMsg'[u] = "sent"
    BY <1>7 DEF NotifiedStep, UnitActs, StopCheck, UnitCleansCache, UnitReplies, TypeOK
  <2>2. QED
    BY <1>1, <1>7, <2>1, NotifiedLeaves DEF storeVars, noticeVars
<1>8. ASSUME NEW i \in Instances, ClientCrashes(i), i # TargetOf(u) PROVE ToTell(u)'
  BY <1>1, <1>8 DEF ClientCrashes, storeVars, noticeVars
<1>9. CASE StoreTakesStep
  <2>1. notify = "decided" => members \subseteq members'
    BY <1>3, <1>9
    DEF StoreTakesStep, CreateHandler, PutGroup, SetGroupTtl, JoinHandler, SaveVeto, FindGroup,
        PutUnit, ClearGroup, GroupExpires, StateExpires, storeVars
  <2>2. QED
    BY <1>9, <2>1, StoreLeaves DEF noticeVars
<1>10. CASE NotifyHandler
  <2>1. UNCHANGED members
    BY <1>10, NotifyLeaves DEF storeVars
  <2>2. CASE Decide \/ FindUnits \/ ReplyDecision
    BY <2>1, <2>2 DEF Decide, FindUnits, ReplyDecision
  <2>3. ASSUME NEW v \in Units, NotifyUnit(v) PROVE ToTell(u)'
    BY <2>1, <2>3 DEF NotifyUnit, TypeOK
  <2>4. CASE UnitAnswered
    BY <2>1, <2>4 DEF UnitAnswered, Unanswered, rpcVars
  <2>5. QED
    BY <1>10, <2>2, <2>3, <2>4 DEF NotifyHandler
<1>11. CASE ManagerCrashes
  BY <1>1, <1>11 DEF ManagerCrashes, storeVars
<1>12. ASSUME UNCHANGED <<rpcVars, storeVars, noticeVars>> PROVE ToTell(u)'
  BY <1>1, <1>12 DEF rpcVars, storeVars, noticeVars
<1>13. QED
  BY <1>4, <1>5, <1>6, <1>7, <1>8, <1>9, <1>10, <1>11, <1>12, Actors, CheckLeaves
  DEF ThreadTakesStep, EvictConnection, RedisThrows, vars

-----------------------------------------------------------------------------
(***************************************************************************)
(* The cache and the open connections.  Unless the group is abandoned, a       *)
(* connection that is open is the one its process has in the cache, and a        *)
(* process that has carried out its notification has none open.                  *)
(***************************************************************************)
OpenIsCached == \A p \in Parties : conn[p] = "open" => cache[HostOf[p]] = p

OpensOnMiss == \A p \in Parties : pc[p] = "opening" => cache[HostOf[p]] = Nobody

NotifiedIsSettled ==
  \A u \in Units : unitMsg[u] \notin {"none", "sent"} =>
    \A p \in Parties : HostOf[p] = HostOf[u] => conn[p] # "open"

ConnInv == ~Abandoned => OpenIsCached /\ OpensOnMiss /\ NotifiedIsSettled

LEMMA NextKeepsConn ==
  ASSUME CallsAreAnswered, ~Fault("evict"), NotifiedAtHome, TypeOK, DecisionInv, AloneInv,
         CheckInv, ConnInv, [Next]_vars
  PROVE  ConnInv'
<1> SUFFICES ASSUME ~Abandoned' PROVE (OpenIsCached /\ OpensOnMiss /\ NotifiedIsSettled)'
  BY DEF ConnInv
<1> USE Names, NoLateAnswer DEF OpenIsCached, OpensOnMiss, NotifiedIsSettled
<1>1. ~Abandoned /\ OpenIsCached /\ OpensOnMiss /\ NotifiedIsSettled
  BY AbandonedForGood DEF ConnInv
<1>2. \A p, q \in Parties : pc[p] = "opening" /\ pc[q] = "opening" => p = q
  BY <1>1 DEF AloneInv, CallerWaits, RunsAlone, Running, Abandoned, Parties
<1>3. \A u \in Units : unitMsg[u] # "none" => \A p \in Parties : pc[p] # "opening"
  BY DEF DecisionInv, DecidedByHandler, NotifyOnce, AloneInv, RunsAlone, Running, Parties
<1>4. ASSUME \A p \in Parties : conn'[p] = "open" => conn[p] = "open",
             \A p \in Parties : pc'[p] = "opening" => pc[p] = "opening",
             \A u \in Units :
               unitMsg'[u] \notin {"none", "sent"} => unitMsg[u] \notin {"none", "sent"},
             UNCHANGED cache
      PROVE  (OpenIsCached /\ OpensOnMiss /\ NotifiedIsSettled)'
  BY <1>1, <1>4
<1>5. ASSUME NEW i \in Instances, NEW d \in {"commit", "rollback"}, Settle(i, d)
      PROVE  \A p \in Parties : /\ conn'[p] = "open" => conn[p] = "open"
                                /\ HostOf[p] = i => conn'[p] # "open"
  BY <1>1, <1>5, SettleEffect
<1>6. CASE InitiatorStep
  <2>1. UNCHANGED <<cache, unitMsg>> /\ pc'[Initiator] # "opening"
    BY <1>6
    DEF InitiatorStep, BeginTransaction, GroupCreated, CreateFails, EndInitiator, NotifyEnd,
        NotifyAnswered, NotifyUnanswered, CallReturns, TypeOK, AloneInv, CallerWaits, connVars,
        rpcVars
  <2>2. \A p \in Parties : pc'[p] = "opening" => pc[p] = "opening"
    BY <1>6, <2>1, InitiatorLeaves DEF Parties
  <2>3. NotifyAnswered => \A p \in Parties : conn'[p] = "open" => conn[p] = "open"
    BY <1>5 DEF NotifyAnswered, DecisionInv, DecidedByHandler, TypeOK, Decision
  <2>4. ~NotifyAnswered => UNCHANGED conn
    BY <1>6
    DEF InitiatorStep, BeginTransaction, GroupCreated, CreateFails, EndInitiator, NotifyEnd,
        NotifyUnanswered, CallReturns, connVars
  <2>5. QED
    BY <1>4, <2>1, <2>2, <2>3, <2>4
<1>7. ASSUME NEW p \in Parties, ConnectionStep(p) \/ MissConnection(p)
      PROVE  (OpenIsCached /\ OpensOnMiss /\ NotifiedIsSettled)'
  <2>1. UNCHANGED unitMsg
    BY <1>7 DEF ConnectionStep, UseCachedConnection, MissConnection, OpenConnection, rpcVars
  <2>2. CASE UseCachedConnection(p)
    BY <1>4, <2>1, <2>2 DEF UseCachedConnection, TypeOK
  <2>3. CASE MissConnection(p)
    BY <1>1, <2>1, <2>3 DEF MissConnection, TypeOK, connVars
  <2>4. CASE OpenConnection(p)
    <3>1. cache[HostOf[p]] = Nobody /\ \A q \in Parties : pc'[q] # "opening"
      BY <1>1, <1>2, <2>4 DEF OpenConnection, TypeOK
    <3>2. \A u \in Units : unitMsg'[u] = "none"
      BY <1>3, <2>1, <2>4 DEF OpenConnection
    <3>3. /\ \A q \in Parties : q # p => conn'[q] = conn[q]
          /\ \A i \in Instances : i # HostOf[p] => cache'[i] = cache[i]
          /\ cache'[HostOf[p]] = p
      BY <2>4 DEF OpenConnection, TypeOK
    <3>4. QED
      BY <1>1, <3>1, <3>2, <3>3
  <2>5. QED
    BY <1>7, <2>2, <2>3, <2>4 DEF ConnectionStep
<1>8. ASSUME NEW u \in Units, CallUnit(u)
      PROVE  (OpenIsCached /\ OpensOnMiss /\ NotifiedIsSettled)'
  BY <1>4, <1>8 DEF CallUnit, TypeOK, connVars, rpcVars
<1>9. ASSUME NEW u \in Units, UnitStep(u)
      PROVE  (OpenIsCached /\ OpensOnMiss /\ NotifiedIsSettled)'
  <2>1. UNCHANGED <<cache, unitMsg>> /\ \A p \in Parties : pc'[p] = "opening" => pc[p] = "opening"
    BY <1>9
    DEF UnitStep, EndUnit, JoinRefused, ScheduleCheck, RegisterCheck, TypeOK, connVars, rpcVars
  <2>2. JoinRefused(u) => \A p \in Parties : conn'[p] = "open" => conn[p] = "open"
    BY <1>5 DEF JoinRefused
  <2>3. ~JoinRefused(u) => UNCHANGED conn
    BY <1>9 DEF UnitStep, EndUnit, ScheduleCheck, RegisterCheck, connVars
  <2>4. QED
    BY <1>4, <2>1, <2>2, <2>3
<1>10. ASSUME NEW u \in Units, NotifiedStep(u)
       PROVE  (OpenIsCached /\ OpensOnMiss /\ NotifiedIsSettled)'
  <2>1. UNCHANGED pc /\ TargetOf(u) = HostOf[u]
    BY <1>10, NotifiedLeaves DEF NotifiedAtHome, threadVars
  <2>2. CASE UnitActs(u)
    <3>1. Settle(HostOf[u], decision) /\ decision \in {"commit", "rollback"}
      BY <2>1, <2>2 DEF UnitActs, DecisionInv, DecidedByHandler, TypeOK, Decision
    <3>2. \A p \in Parties : /\ conn'[p] = "open" => conn[p] = "open"
                             /\ HostOf[p] = HostOf[u] => conn'[p] # "open"
      BY <1>5, <3>1
    <3>3. QED
      BY <1>1, <2>1, <2>2, <3>2 DEF UnitActs, TypeOK
  <2>3. CASE StopCheck(u) \/ UnitReplies(u)
    BY <1>4, <2>1, <2>3 DEF StopCheck, UnitReplies, TypeOK, connVars
  <2>4. CASE UnitCleansCache(u)
    BY <1>1, <2>1, <2>4 DEF UnitCleansCache, TypeOK
  <2>5. QED
    BY <1>10, <2>2, <2>3, <2>4 DEF NotifiedStep
<1>11. ASSUME NEW u \in Units, CheckStep(u)
       PROVE  (OpenIsCached /\ OpensOnMiss /\ NotifiedIsSettled)'
  <2>1. UNCHANGED <<pc, unitMsg>>
    BY <1>11, CheckLeaves DEF threadVars, rpcVars
  <2>2. UNCHANGED <<conn, cache>>
    BY <1>1, <1>11
    DEF CheckInv, CheckOrder, CheckStep, CheckFires, CheckUnanswered, AnswerState, CheckActs,
        CheckCleans, connVars
  <2>3. QED
    BY <1>4, <2>1, <2>2
<1>12. ASSUME NEW i \in Instances, ClientCrashes(i)
       PROVE  (OpenIsCached /\ OpensOnMiss /\ NotifiedIsSettled)'
  <2>1. /\ \A p \in Parties : conn'[p] = "open" => conn[p] = "open" /\ HostOf[p] # i
        /\ \A p \in Parties : pc'[p] = "opening" => pc[p] = "opening"
        /\ \A j \in Instances : cache'[j] = IF j = i THEN Nobody ELSE cache[j]
    BY <1>12 DEF ClientCrashes, TypeOK
  <2>2. \A u \in Units : unitMsg'[u] # unitMsg[u] => HostOf[u] = i
    BY <1>12 DEF ClientCrashes, NotifiedAtHome, TypeOK
  <2>3. QED
    BY <1>1, <2>1, <2>2
<1>13. CASE NotifyHandler
  <2>1. \A u \in Units : unitMsg'[u] = unitMsg[u] \/ unitMsg'[u] = "sent"
    BY <1>13
    DEF NotifyHandler, Decide, FindUnits, NotifyUnit, UnitAnswered, ReplyDecision, TypeOK, rpcVars
  <2>2. QED
    BY <1>4, <1>13, <2>1, NotifyLeaves DEF threadVars, connVars
<1>14. ASSUME UNCHANGED <<pc, conn, cache, unitMsg>>
       PROVE  (OpenIsCached /\ OpensOnMiss /\ NotifiedIsSettled)'
  BY <1>4, <1>14
<1>15. QED
  BY <1>6, <1>7, <1>8, <1>9, <1>10, <1>11, <1>12, <1>13, <1>14, Actors, StoreLeaves
  DEF ThreadTakesStep, EvictConnection, RedisThrows, ManagerCrashes, threadVars, connVars,
      rpcVars, vars

LEMMA ConnInvariant ==
  ASSUME CallsAreAnswered, ~Fault("evict"), NotifiedAtHome PROVE Spec => []ConnInv
<1>1. Init => ConnInv
  BY Names DEF Init, ConnInv, OpenIsCached, OpensOnMiss, NotifiedIsSettled
<1>2. ~Fault("httpTimeout")
  BY NoLateAnswer
<1>3. QED
  BY <1>1, <1>2, NextKeepsConn, CheckInvariant, AloneInvariant, TypeCorrect,
     DecisionInvariant, PTL
  DEF Spec

-----------------------------------------------------------------------------
(***************************************************************************)
(* Nothing is left open.  Once the TM has decided, a unit's connection that    *)
(* is still open is that of a unit still to be told.                            *)
(***************************************************************************)

\* Processes and databases may fail, but a join is sent and the cache keeps a connection.
JoinsReachTheTM == Faults \subseteq {"swallow", "error", "dbFail", "tcCrash", "tmCrash"}

OpenIsInUse ==
  \A u \in Units :
    conn[u] = "open" => pc[u] \in {"worked", "joining", "registering", "returned"}

OpenIsToTell == \A u \in Units : (conn[u] = "open" /\ decision # "none") => ToTell(u)

EndInv == ~Abandoned => OpenIsInUse /\ OpenIsToTell /\ EndedGroupHoldsNothing

LEMMA JoinsReach ==
  ASSUME JoinsReachTheTM
  PROVE  /\ CallsAreAnswered
         /\ ~Fault("evict")
         /\ ~Fault("channel")
BY DEF JoinsReachTheTM, CallsAreAnswered, Fault

LEMMA NextKeepsEnd ==
  ASSUME JoinsReachTheTM, NotifiedAtHome, TypeOK, DecisionInv, AloneInv, RegisterInv, CheckInv,
         ConnInv, EndInv, [Next]_vars
  PROVE  EndInv'
<1> SUFFICES ASSUME ~Abandoned'
             PROVE  (OpenIsInUse /\ OpenIsToTell /\ EndedGroupHoldsNothing)'
  BY DEF EndInv
<1> USE Names, NoLateAnswer, JoinsReach DEF OpenIsInUse, OpenIsToTell, EndedGroupHoldsNothing
<1>1. /\ ~Abandoned
      /\ OpenIsInUse /\ OpenIsToTell /\ EndedGroupHoldsNothing
      /\ OpenIsCached
  BY AbandonedForGood DEF EndInv, ConnInv
<1>2. \A u \in Units : ToTell(u) => ToTell(u)' \/ UnitActs(u) \/ ClientCrashes(HostOf[u])
  BY ToldLater DEF Abandoned, NotifiedAtHome
<1>3. ASSUME NEW i \in Instances, NEW d \in {"commit", "rollback"}, Settle(i, d)
      PROVE  \A p \in Parties : /\ conn'[p] = "open" => conn[p] = "open"
                                /\ HostOf[p] = i => conn'[p] # "open"
  BY <1>1, <1>3, SettleEffect DEF OpenIsCached
<1>4. \A u \in Units : pc[u] \in Running => notify = "none" /\ decision = "none"
  BY DEF DecisionInv, DecidedByHandler, AloneInv, RunsAlone
<1>5. ASSUME \A p \in Parties : conn'[p] = "open" => conn[p] = "open",
             \A u \in Units : conn'[u] = "open" =>
               /\ pc'[u] \in {"worked", "joining", "registering", "returned"}
               /\ ~UnitActs(u)
               /\ ~ClientCrashes(HostOf[u]),
             UNCHANGED decision,
             pc'[Initiator] = "ended" => pc[Initiator] = "ended"
      PROVE  (OpenIsInUse /\ OpenIsToTell /\ EndedGroupHoldsNothing)'
  BY <1>1, <1>2, <1>5
<1>6. \A u \in Units : UnitActs(u) => conn'[u] # "open"
  <2>1. \A u \in Units :
          UnitActs(u) => Settle(HostOf[u], decision) /\ decision \in {"commit", "rollback"}
    BY DEF UnitActs, NotifiedAtHome, DecisionInv, DecidedByHandler, TypeOK, Decision
  <2>2. QED
    BY <1>3, <2>1
<1>7. \A u \in Units : ClientCrashes(HostOf[u]) => conn'[u] # "open"
  BY DEF ClientCrashes
<1>8. ASSUME UNCHANGED <<conn, decision>>,
             \A u \in Units : pc[u] \in {"worked", "joining", "registering", "returned"} =>
               pc'[u] \in {"worked", "joining", "registering", "returned"},
             pc'[Initiator] = "ended" => pc[Initiator] = "ended"
      PROVE  (OpenIsInUse /\ OpenIsToTell /\ EndedGroupHoldsNothing)'
  BY <1>1, <1>5, <1>6, <1>7, <1>8
<1>9. CASE InitiatorStep
  <2>1. UNCHANGED decision /\ \A u \in Units : pc'[u] = pc[u]
    BY <1>9, InitiatorLeaves DEF noticeVars
  <2>2. CASE NotifyAnswered
    <3>1. Settle(HostOf[Initiator], decision) /\ notify = "replied" /\ UNCHANGED notify
      BY <2>2 DEF NotifyAnswered, rpcVars
    <3>2. decision \in {"commit", "rollback"}
      BY <3>1 DEF DecisionInv, DecidedByHandler, TypeOK, Decision
    <3>3. \A u \in Units : conn[u] # "open"
      BY <1>1, <3>1, <3>2 DEF ToTell
    <3>4. \A p \in Parties : conn'[p] # "open"
      BY <1>3, <3>1, <3>2, <3>3 DEF Parties
    <3>5. QED
      BY <3>4
  <2>3. CASE ~NotifyAnswered
    <3>1. UNCHANGED conn /\ (pc'[Initiator] = "ended" => pc[Initiator] = "ended")
      BY <1>9, <2>3
      DEF InitiatorStep, BeginTransaction, GroupCreated, CreateFails, EndInitiator, NotifyEnd,
          NotifyUnanswered, CallReturns, TypeOK, connVars
    <3>2. QED
      BY <1>8, <2>1, <3>1
  <2>4. QED
    BY <2>2, <2>3
<1>10. ASSUME NEW p \in Parties, ConnectionStep(p) \/ MissConnection(p)
       PROVE  (OpenIsInUse /\ OpenIsToTell /\ EndedGroupHoldsNothing)'
  <2>1. UNCHANGED decision
    BY <1>10 DEF ConnectionStep, UseCachedConnection, MissConnection, OpenConnection, noticeVars
  <2>2. CASE UseCachedConnection(p)
    BY <1>8, <2>1, <2>2 DEF UseCachedConnection, TypeOK
  <2>3. CASE MissConnection(p)
    BY <1>8, <2>1, <2>3 DEF MissConnection, TypeOK, connVars
  <2>4. CASE OpenConnection(p)
    <3>1. decision = "none" /\ pc[Initiator] # "ended" /\ pc'[Initiator] # "ended"
      BY <1>4, <2>4
      DEF OpenConnection, DecisionInv, NotifyOnce, DecidedByHandler, RegisterInv, NoticeOrder,
          Running, Parties, TypeOK
    <3>2. \A u \in Units : u = p \/ (conn'[u] = conn[u] /\ pc'[u] = pc[u])
      BY <2>4 DEF OpenConnection, TypeOK
    <3>3. p \in Units => pc'[p] = "worked"
      BY <2>4 DEF OpenConnection, TypeOK
    <3>4. QED
      BY <1>1, <2>1, <3>1, <3>2, <3>3
  <2>5. QED
    BY <1>10, <2>2, <2>3, <2>4 DEF ConnectionStep
<1>11. ASSUME NEW u \in Units, CallUnit(u)
       PROVE  (OpenIsInUse /\ OpenIsToTell /\ EndedGroupHoldsNothing)'
  BY <1>8, <1>11 DEF CallUnit, TypeOK, connVars, noticeVars
<1>12. ASSUME NEW u \in Units, UnitStep(u)
       PROVE  (OpenIsInUse /\ OpenIsToTell /\ EndedGroupHoldsNothing)'
  <2>1. UNCHANGED decision /\ pc'[Initiator] = pc[Initiator]
    BY <1>12
    DEF UnitStep, EndUnit, JoinRefused, ScheduleCheck, RegisterCheck, TypeOK, noticeVars
  <2>2. CASE JoinRefused(u)
    <3>1. /\ \A p \in Parties : conn'[p] = "open" => conn[p] = "open"
          /\ conn'[u] # "open"
          /\ \A v \in Units : v # u => pc'[v] = pc[v]
      BY <1>3, <2>2 DEF JoinRefused, TypeOK
    <3>2. QED
      BY <1>1, <1>5, <1>6, <1>7, <2>1, <3>1
  <2>3. CASE ~JoinRefused(u)
    <3>1. UNCHANGED conn /\ \A v \in Units : v # u => pc'[v] = pc[v]
      BY <1>12, <2>3 DEF UnitStep, EndUnit, ScheduleCheck, RegisterCheck, TypeOK, connVars
    <3>2. pc'[u] \in {"worked", "joining", "registering", "returned"}
      BY <1>12, <2>3 DEF UnitStep, EndUnit, ScheduleCheck, RegisterCheck, TypeOK
    <3>3. QED
      BY <1>8, <2>1, <3>1, <3>2
  <2>4. QED
    BY <2>2, <2>3
<1>13. ASSUME NEW u \in Units, NotifiedStep(u) \/ CheckStep(u)
       PROVE  (OpenIsInUse /\ OpenIsToTell /\ EndedGroupHoldsNothing)'
  <2>1. UNCHANGED <<pc, decision>>
    BY <1>13, NotifiedLeaves, CheckLeaves DEF threadVars, noticeVars
  <2>2. \A p \in Parties : conn'[p] = "open" => conn[p] = "open"
    <3>1. CASE UnitActs(u)
      BY <1>3, <3>1 DEF UnitActs, NotifiedAtHome, DecisionInv, DecidedByHandler, TypeOK, Decision
    <3>2. CASE CheckActs(u)
      BY <1>3, <3>2 DEF CheckActs
    <3>3. CASE ~UnitActs(u) /\ ~CheckActs(u)
      BY <1>13, <3>3
      DEF NotifiedStep, StopCheck, UnitCleansCache, UnitReplies, CheckStep, CheckFires,
          CheckUnanswered, AnswerState, CheckCleans, connVars
    <3>4. QED
      BY <3>1, <3>2, <3>3
  <2>3. QED
    BY <1>1, <1>5, <1>6, <1>7, <2>1, <2>2
<1>14. ASSUME NEW i \in Instances, ClientCrashes(i)
       PROVE  (OpenIsInUse /\ OpenIsToTell /\ EndedGroupHoldsNothing)'
  <2>1. /\ \A p \in Parties : conn'[p] = "open" => conn[p] = "open" /\ pc'[p] = pc[p]
        /\ pc'[Initiator] = "ended" => pc[Initiator] = "ended"
        /\ UNCHANGED decision
    BY <1>14 DEF ClientCrashes, noticeVars
  <2>2. QED
    BY <1>1, <1>5, <1>6, <1>7, <2>1
<1>15. CASE NotifyHandler
  <2>1. UNCHANGED <<pc, conn>>
    BY <1>15, NotifyLeaves DEF threadVars, connVars
  <2>2. CASE Decide
    <3>1. \A u \in Units : conn[u] = "open" => pc[u] = "returned"
      BY <1>1, <1>4, <2>2 DEF Decide, Running
    <3>2. \A u \in Units : pc[u] = "returned" => u \in members
      BY <2>2 DEF Decide, RegisterInv, NoticeOrder, CleanedAfterNotice, JoinOrder
    <3>3. notify' = "decided" /\ UNCHANGED members
      BY <2>2 DEF Decide, storeVars
    <3>4. QED
      BY <1>1, <2>1, <3>1, <3>2, <3>3 DEF ToTell
  <2>3. CASE ~Decide
    BY <1>8, <1>15, <2>1, <2>3
    DEF NotifyHandler, FindUnits, NotifyUnit, UnitAnswered, ReplyDecision, noticeVars
  <2>4. QED
    BY <2>2, <2>3
<1>16. ASSUME UNCHANGED <<pc, conn, decision>>
       PROVE  (OpenIsInUse /\ OpenIsToTell /\ EndedGroupHoldsNothing)'
  BY <1>8, <1>16
<1>17. QED
  BY <1>9, <1>10, <1>11, <1>12, <1>13, <1>14, <1>15, <1>16, Actors, StoreLeaves
  DEF ThreadTakesStep, EvictConnection, RedisThrows, ManagerCrashes, threadVars, connVars,
      noticeVars, vars

\* When the initiator has the answer and has settled, so has every unit.
THEOREM NothingLeftOpen ==
  ASSUME JoinsReachTheTM, NotifiedAtHome PROVE Spec => []EndedGroupHoldsNothing
<1>1. Init => EndInv
  BY Names DEF Init, EndInv, OpenIsInUse, OpenIsToTell, EndedGroupHoldsNothing
<1>2. RegisterInv /\ EndInv => EndedGroupHoldsNothing
  BY DEF RegisterInv, NoticeOrder, EndInv, Abandoned, EndedGroupHoldsNothing
<1>3. CallsAreAnswered /\ ~Fault("evict") /\ ~Fault("httpTimeout")
  BY JoinsReach, NoLateAnswer
<1>4. QED
  BY <1>1, <1>2, <1>3, NextKeepsEnd, ConnInvariant, CheckInvariant, RegisterInvariant,
     AloneInvariant, TypeCorrect, DecisionInvariant, PTL
  DEF Spec

-----------------------------------------------------------------------------
(***************************************************************************)
(* The decision reaches the units.  As long as the TM may still decide, or     *)
(* has decided, to commit, the work of a unit that runs or returned is on an      *)
(* open connection, and the unit is to be told, or it is committed already.       *)
(***************************************************************************)

\* The TM lives, and databases and caches do as they are told.
UnitsHearTheTM == Faults \subseteq {"swallow", "error", "channel", "tcCrash"}

MayCommit == /\ ~Abandoned
             /\ decision # "rollback"
             /\ decision = "none" => ~vetoed

Reached(u) ==
  (/\ pc[u] \in {"start", "opening", "worked", "joining", "registering", "returned"}
   /\ wrote[u] # Nobody) =>
    \/ conn[wrote[u]] = "committed"
    \/ conn[wrote[u]] = "open" /\ (decision = "none" \/ ToTell(u))

WorkReached == \A u \in Units : Reached(u)

ReachInv == MayCommit => WorkReached

LEMMA UnitsHear ==
  ASSUME UnitsHearTheTM
  PROVE  /\ CallsAreAnswered
         /\ ~Fault("evict")
         /\ ~Fault("dbFail")
         /\ ~Fault("tmCrash")
BY DEF UnitsHearTheTM, CallsAreAnswered, Fault

LEMMA NextKeepsReach ==
  ASSUME UnitsHearTheTM, NotifiedAtHome, TypeOK, DecisionInv, AloneInv, WritesInProcess,
         RegisterInv, CheckInv, SavedVeto, ConnInv, ReachInv, [Next]_vars
  PROVE  ReachInv'
<1> SUFFICES ASSUME MayCommit' PROVE WorkReached'
  BY DEF ReachInv
<1> USE Names, NoLateAnswer, UnitsHear DEF WorkReached, Reached
<1>1. ~Abandoned
  BY AbandonedForGood DEF MayCommit
<1>2. MayCommit
  <2>1. vetoed => vetoed'
    BY Actors, ThreadLeaves, NotifiedLeaves, CheckLeaves, NotifyLeaves
    DEF EvictConnection, ClientCrashes, StoreTakesStep, CreateHandler, PutGroup, SetGroupTtl,
        JoinHandler, SaveVeto, FindGroup, PutUnit, ClearGroup, GroupExpires, StateExpires,
        RedisThrows, ManagerCrashes, storeVars, vars
  <2>2. UNCHANGED decision \/ Decide
    BY Actors, ThreadLeaves, NotifiedLeaves, CheckLeaves, StoreLeaves
    DEF EvictConnection, ClientCrashes, NotifyHandler, FindUnits, NotifyUnit, UnitAnswered,
        ReplyDecision, RedisThrows, ManagerCrashes, noticeVars, vars
  <2>3. Decide => decision = "none" /\ ~vetoed
    BY DEF Decide, DecisionInv, DecidedByHandler, MayCommit
  <2>4. QED
    BY <1>1, <2>1, <2>2, <2>3 DEF MayCommit
<1>3. WorkReached
  BY <1>2 DEF ReachInv
<1>4. OpenIsCached
  BY <1>1 DEF ConnInv
<1>5. \A u \in Units : ToTell(u) => ToTell(u)' \/ UnitActs(u) \/ ClientCrashes(HostOf[u])
  BY ToldLater DEF MayCommit, Abandoned, NotifiedAtHome
<1>6. \A u \in Units : pc[u] \in Running => notify = "none" /\ decision = "none"
  BY DEF DecisionInv, DecidedByHandler, AloneInv, RunsAlone
<1>7. \A u \in Units : wrote[u] # Nobody =>
        wrote[u] \in Parties /\ HostOf[wrote[u]] = HostOf[u] /\ conn[wrote[u]] # "none"
  BY DEF WritesInProcess, TypeOK
<1>8. decision # "none" => decision = "commit"
  BY <1>2 DEF MayCommit, TypeOK, Decision
<1>9. ASSUME NEW i \in Instances, Settle(i, decision), decision = "commit"
      PROVE  /\ \A c \in Parties :
                  conn'[c] = conn[c] \/ (conn[c] = "open" /\ conn'[c] = "committed")
             /\ \A c \in Parties : HostOf[c] = i => conn'[c] # "open"
  BY <1>4, <1>9, SettleEffect DEF Outcomes, OpenIsCached
<1>10. \A u \in Units : UnitActs(u) => decision = "commit" /\ Settle(HostOf[u], decision)
  BY <1>8 DEF UnitActs, NotifiedAtHome, DecisionInv, DecidedByHandler
<1>11. \A u \in Units : UnitActs(u) =>
         \A c \in Parties : HostOf[c] = HostOf[u] => conn'[c] # "open"
  BY <1>9, <1>10
<1>12. ASSUME NEW u \in Units,
              UNCHANGED decision,
              wrote'[u] = wrote[u],
              pc'[u] = pc[u] \/ pc[u] \in Running \cup {"idle"},
              wrote[u] # Nobody =>
                \/ conn'[wrote[u]] = conn[wrote[u]]
                \/ conn[wrote[u]] = "open" /\ conn'[wrote[u]] = "committed"
       PROVE  Reached(u)'
  <2> SUFFICES ASSUME wrote[u] # Nobody,
                      pc'[u] \in {"start", "opening", "worked", "joining", "registering", "returned"}
               PROVE  \/ conn'[wrote[u]] = "committed"
                      \/ conn'[wrote[u]] = "open" /\ (decision' = "none" \/ ToTell(u)')
    BY <1>12
  <2>1. pc[u] \in {"start", "opening", "worked", "joining", "registering", "returned"}
    BY <1>12 DEF Running, WritesInProcess
  <2>2. \/ conn[wrote[u]] = "committed"
        \/ conn[wrote[u]] = "open" /\ (decision = "none" \/ ToTell(u))
    BY <1>3, <2>1
  <2>3. wrote[u] \in Parties /\ HostOf[wrote[u]] = HostOf[u]
    BY <1>7
  <2>4. ~ClientCrashes(HostOf[u])
    BY <2>1 DEF ClientCrashes
  <2>5. CASE UnitActs(u)
    <3>1. conn'[wrote[u]] # "open"
      BY <1>11, <2>3, <2>5
    <3>2. QED
      BY <1>12, <2>2, <3>1
  <2>6. CASE ~UnitActs(u)
    BY <1>5, <1>12, <2>2, <2>4, <2>6
  <2>7. QED
    BY <2>5, <2>6
<1>13. CASE InitiatorStep
  <2>1. UNCHANGED wrote
    BY <1>13
    DEF InitiatorStep, BeginTransaction, GroupCreated, CreateFails, EndInitiator, NotifyEnd,
        NotifyAnswered, NotifyUnanswered, CallReturns, connVars
  <2>2. UNCHANGED decision /\ \A u \in Units : pc'[u] = pc[u]
    BY <1>13, InitiatorLeaves DEF noticeVars
  <2>3. NotifyAnswered => decision = "commit" /\ Settle(HostOf[Initiator], decision)
    BY <1>8 DEF NotifyAnswered, DecisionInv, DecidedByHandler
  <2>4. ~NotifyAnswered => UNCHANGED conn
    BY <1>13
    DEF InitiatorStep, BeginTransaction, GroupCreated, CreateFails, EndInitiator, NotifyEnd,
        NotifyUnanswered, CallReturns, connVars
  <2>5. \A c \in Parties : conn'[c] = conn[c] \/ (conn[c] = "open" /\ conn'[c] = "committed")
    BY <1>9, <2>3, <2>4
  <2>6. QED
    BY <1>7, <1>12, <2>1, <2>2, <2>5
<1>14. ASSUME NEW p \in Parties, ConnectionStep(p) \/ MissConnection(p) PROVE WorkReached'
  <2>1. UNCHANGED decision
    BY <1>14 DEF ConnectionStep, UseCachedConnection, MissConnection, OpenConnection, noticeVars
  <2>2. pc[p] \in {"start", "opening"} /\ (p \in Units => decision = "none")
    BY <1>6, <1>14
    DEF ConnectionStep, UseCachedConnection, MissConnection, OpenConnection, Running
  <2>3. \A u \in Units : u # p => wrote'[u] = wrote[u] /\ pc'[u] = pc[u]
    BY <1>14
    DEF ConnectionStep, UseCachedConnection, MissConnection, OpenConnection, Write, TypeOK,
        connVars
  <2>4. \A u \in Units : wrote[u] # Nobody => conn'[wrote[u]] = conn[wrote[u]]
    <3>1. OpenConnection(p) => conn[p] = "none"
      BY DEF OpenConnection, DecisionInv, FreshConnection
    <3>2. QED
      BY <1>7, <1>14, <3>1
      DEF ConnectionStep, UseCachedConnection, MissConnection, OpenConnection, TypeOK, connVars
  <2>5. \A u \in Units : u # p => Reached(u)'
    BY <1>12, <2>1, <2>3, <2>4
  <2>6. p \in Units => Reached(p)'
    <3>1. CASE UseCachedConnection(p)
      BY <2>1, <2>2, <3>1 DEF UseCachedConnection, Write, Live, TypeOK
    <3>2. CASE MissConnection(p)
      BY <1>12, <2>1, <2>2, <2>4, <3>2 DEF MissConnection, Running, connVars
    <3>3. CASE OpenConnection(p)
      BY <2>1, <2>2, <3>3 DEF OpenConnection, Write, TypeOK
    <3>4. QED
      BY <1>14, <3>1, <3>2, <3>3 DEF ConnectionStep
  <2>7. QED
    BY <2>5, <2>6
<1>15. ASSUME NEW v \in Units, CallUnit(v) PROVE WorkReached'
  <2>1. UNCHANGED <<wrote, conn, decision>> /\ \A u \in Units : pc'[u] = pc[u] \/ pc[u] = "idle"
    BY <1>15 DEF CallUnit, TypeOK, connVars, noticeVars
  <2>2. QED
    BY <1>12, <2>1
<1>16. ASSUME NEW v \in Units, UnitStep(v) PROVE WorkReached'
  <2>1. pc[v] \in Running
    BY <1>16 DEF UnitStep, EndUnit, JoinRefused, ScheduleCheck, RegisterCheck, Running
  <2>2. ~JoinRefused(v)
    <3>1. JoinRefused(v) => result[v] = "exception" /\ join[v] = "replied"
      BY DEF JoinRefused, Unanswered, SysState, CheckInv, CallsSurvive
    <3>2. QED
      BY <1>2, <1>6, <2>1, <3>1 DEF SavedVeto, MayCommit
  <2>3. /\ UNCHANGED <<wrote, conn, decision>>
        /\ \A u \in Units : u # v => pc'[u] = pc[u]
    BY <1>16, <2>2
    DEF UnitStep, EndUnit, ScheduleCheck, RegisterCheck, TypeOK, connVars, noticeVars
  <2>4. QED
    BY <1>12, <2>1, <2>3
<1>17. ASSUME NEW v \in Units, NotifiedStep(v) PROVE WorkReached'
  <2>1. UNCHANGED <<pc, wrote, decision>>
    BY <1>17, NotifiedLeaves DEF threadVars, noticeVars
  <2>2. ~UnitActs(v) => UNCHANGED conn
    BY <1>17 DEF NotifiedStep, StopCheck, UnitCleansCache, UnitReplies, connVars
  <2>3. \A c \in Parties : conn'[c] = conn[c] \/ (conn[c] = "open" /\ conn'[c] = "committed")
    BY <1>9, <1>10, <2>2
  <2>4. QED
    BY <1>7, <1>12, <2>1, <2>3
<1>18. ASSUME NEW v \in Units, CheckStep(v) PROVE WorkReached'
  <2>1. UNCHANGED <<pc, wrote, decision>>
    BY <1>18, CheckLeaves DEF threadVars, noticeVars
  <2>2. UNCHANGED conn
    BY <1>1, <1>18
    DEF CheckInv, CheckOrder, CheckStep, CheckFires, CheckUnanswered, AnswerState, CheckActs,
        CheckCleans, connVars
  <2>3. QED
    BY <1>12, <2>1, <2>2
<1>19. ASSUME NEW i \in Instances, ClientCrashes(i) PROVE WorkReached'
  <2>1. UNCHANGED <<wrote, decision>>
    BY <1>19 DEF ClientCrashes, noticeVars
  <2>2. ASSUME NEW u \in Units, HostOf[u] = i PROVE Reached(u)'
    BY <1>7, <1>19, <2>1, <2>2 DEF ClientCrashes, WritesInProcess
  <2>3. ASSUME NEW u \in Units, HostOf[u] # i PROVE Reached(u)'
    BY <1>7, <1>12, <1>19, <2>1, <2>3 DEF ClientCrashes
  <2>4. QED
    BY <2>2, <2>3
<1>20. CASE NotifyHandler
  <2>1. UNCHANGED <<pc, wrote, conn, members>>
    BY <1>20, NotifyLeaves DEF threadVars, connVars, storeVars
  <2>2. CASE Decide
    <3>1. decision = "none" /\ notify' = "decided"
      BY <2>2 DEF Decide, DecisionInv, DecidedByHandler
    <3>2. \A u \in Units : pc[u] \notin Running
      BY <1>6, <2>2 DEF Decide
    <3>3. \A u \in Units : pc[u] = "returned" => u \in members
      BY <2>2 DEF Decide, RegisterInv, NoticeOrder, CleanedAfterNotice, JoinOrder
    <3>4. QED
      BY <1>3, <2>1, <3>1, <3>2, <3>3 DEF Running, ToTell
  <2>3. CASE ~Decide
    <3>1. UNCHANGED decision
      BY <1>20, <2>3
      DEF NotifyHandler, FindUnits, NotifyUnit, UnitAnswered, ReplyDecision, noticeVars
    <3>2. QED
      BY <1>12, <2>1, <3>1
  <2>4. QED
    BY <2>2, <2>3
<1>21. ASSUME UNCHANGED <<pc, wrote, conn, decision>> PROVE WorkReached'
  BY <1>12, <1>21
<1>22. QED
  BY <1>13, <1>14, <1>15, <1>16, <1>17, <1>18, <1>19, <1>20, <1>21, Actors, StoreLeaves
  DEF ThreadTakesStep, EvictConnection, RedisThrows, ManagerCrashes, threadVars, connVars,
      noticeVars, vars

\* A commit that is answered has reached every unit that joined and returned.
THEOREM CommitReachesUnits ==
  ASSUME UnitsHearTheTM, NotifiedAtHome PROVE Spec => []DecisionReachesUnits
<1>1. Init => ReachInv
  BY Names DEF Init, ReachInv, WorkReached, Reached
<1>2. ReachInv => DecisionReachesUnits
  BY DEF ReachInv, MayCommit, Abandoned, WorkReached, Reached, ToTell, DecisionReachesUnits
<1>3. CallsAreAnswered /\ ~Fault("evict") /\ ~Fault("httpTimeout")
  BY UnitsHear, NoLateAnswer
<1>4. QED
  BY <1>1, <1>2, <1>3, NextKeepsReach, ConnInvariant, SavedVetoInvariant, CheckInvariant,
     RegisterInvariant, WritesInvariant, AloneInvariant, TypeCorrect, DecisionInvariant, PTL
  DEF Spec
=============================================================================
