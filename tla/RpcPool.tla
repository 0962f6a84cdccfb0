------------------------------ MODULE RpcPool ------------------------------
(***************************************************************************)
(* tx-netty: RpcCmdContext and RpcContent of one process.  A request takes a *)
(* slot under its key, sends its command, waits on the slot and reads the     *)
(* answer from it; the netty thread that receives an answer finds the slot     *)
(* by the key, gives it back to the free list and then stores the answer in     *)
(* it.  Up to CacheSize slots are pooled; when all of them exist, a request     *)
(* takes the head of the free list if its last user has let go of it, and a      *)
(* slot of its own otherwise.                                                   *)
(***************************************************************************)
EXTENDS Naturals, Sequences, FiniteSets

CONSTANTS
  Requests,    \* requests, by the key each draws from its id generator
  Slots,       \* RpcContent objects that may be created
  CacheSize,   \* RpcConfig.cacheSize
  MaxActive,   \* callers at work at the same time
  NoSlot,      \* no slot
  NoAnswer,    \* res = null
  TimesOut,    \* an await may end before its answer comes
  AnswersLost  \* an answer may never come

ASSUME PoolAssumption ==
  /\ CacheSize \in Nat \ {0}
  /\ MaxActive \in Nat \ {0}
  /\ NoSlot \notin Slots
  /\ NoAnswer \notin Requests
  /\ TimesOut \in BOOLEAN
  /\ AnswersLost \in BOOLEAN

VARIABLES
  pc,       \* pc[r]: where the calling thread of r is
  slot,     \* slot[r]: the RpcContent its NettyRpcCmd holds
  got,      \* got[r]: the answer loadResult returned, by its key
  answer,   \* answer[r]: where the answer to r is
  target,   \* target[r]: the slot the netty thread found for that answer
  created,  \* the slots created
  pooled,   \* cacheList
  free,     \* freeList
  map,      \* map[r]: the slot under the key of r
  used,     \* used[s]
  res       \* res[s]: the key of the answer stored there

callVars == <<pc, slot, got>>
answerVars == <<answer, target>>
poolVars == <<created, pooled, free>>
vars == <<callVars, answerVars, poolVars, map, used, res>>

Calling == {"sending", "checking", "waiting", "loading", "clearing", "emptying"}

TypeOK ==
  /\ pc \in [Requests -> {"idle", "done", "failed"} \cup Calling]
  /\ slot \in [Requests -> Slots \cup {NoSlot}]
  /\ got \in [Requests -> Requests \cup {NoAnswer}]
  /\ answer \in [Requests -> {"none", "coming", "found", "returned", "stored", "over"}]
  /\ target \in [Requests -> Slots \cup {NoSlot}]
  /\ created \in SUBSET Slots
  /\ pooled \in SUBSET Slots
  /\ free \in Seq(Slots)
  /\ map \in [Requests -> Slots \cup {NoSlot}]
  /\ used \in [Slots -> BOOLEAN]
  /\ res \in [Slots -> Requests \cup {NoAnswer}]

Init ==
  /\ pc = [r \in Requests |-> "idle"]
  /\ slot = [r \in Requests |-> NoSlot]
  /\ got = [r \in Requests |-> NoAnswer]
  /\ answer = [r \in Requests |-> "none"]
  /\ target = [r \in Requests |-> NoSlot]
  /\ created = {}
  /\ pooled = {}
  /\ free = <<>>
  /\ map = [r \in Requests |-> NoSlot]
  /\ used = [s \in Slots |-> FALSE]
  /\ res = [s \in Slots |-> NoAnswer]

Active == {r \in Requests : pc[r] \in Calling}

(***************************************************************************)
(* NettyRpcCmd.randomKey: addKey is synchronized and takes a slot in one of   *)
(* four ways.                                                                *)
(***************************************************************************)
Take(r, s) ==
  /\ used' = [used EXCEPT ![s] = TRUE]
  /\ map' = [map EXCEPT ![r] = s]
  /\ slot' = [slot EXCEPT ![r] = s]
  /\ pc' = [pc EXCEPT ![r] = "sending"]
  /\ UNCHANGED <<got, answerVars, res>>

Ready(r) == pc[r] = "idle" /\ Cardinality(Active) < MaxActive

Create(s) == s \in Slots \ created /\ created' = created \cup {s}

TakePooled(r, s) ==
  /\ Ready(r)
  /\ Cardinality(pooled) < CacheSize
  /\ Create(s)
  /\ pooled' = pooled \cup {s}
  /\ UNCHANGED free
  /\ Take(r, s)

\* variant: the head of the free list is taken whether or not it is used
TakeFreeUnchecked(r) ==
  /\ Ready(r)
  /\ Cardinality(pooled) >= CacheSize
  /\ free # <<>>
  /\ free' = Tail(free)
  /\ UNCHANGED <<created, pooled>>
  /\ Take(r, Head(free))

TakeFree(r) ==
  /\ Ready(r)
  /\ Cardinality(pooled) >= CacheSize
  /\ free # <<>>
  /\ ~used[Head(free)]
  /\ free' = Tail(free)
  /\ UNCHANGED <<created, pooled>>
  /\ Take(r, Head(free))

TakeExtra(r, s) ==
  /\ Ready(r)
  /\ Cardinality(pooled) >= CacheSize
  /\ free # <<>>
  /\ used[Head(free)]
  /\ Create(s)
  /\ UNCHANGED <<pooled, free>>
  /\ Take(r, s)

\* getFirst of the empty list throws before the key is put.
TakeFails(r) ==
  /\ Ready(r)
  /\ Cardinality(pooled) >= CacheSize
  /\ free = <<>>
  /\ pc' = [pc EXCEPT ![r] = "failed"]
  /\ UNCHANGED <<slot, got, answerVars, poolVars, map, used, res>>

(***************************************************************************)
(* SocketManager.request: send, wait, load, and let the slot go in two          *)
(* writes.  Without a channel the call throws and its key stays in the map.      *)
(***************************************************************************)
Send(r) ==
  /\ pc[r] = "sending"
  /\ \/ /\ pc' = [pc EXCEPT ![r] = "checking"]
        /\ answer' = [answer EXCEPT ![r] = "coming"]
     \/ /\ AnswersLost
        /\ pc' = [pc EXCEPT ![r] = "failed"]
        /\ UNCHANGED answer
  /\ UNCHANGED <<slot, got, target, poolVars, map, used, res>>

CheckAnswer(r) ==
  /\ pc[r] = "checking"
  /\ pc' = [pc EXCEPT ![r] = IF res[slot[r]] = NoAnswer THEN "waiting" ELSE "loading"]
  /\ UNCHANGED <<slot, got, answerVars, poolVars, map, used, res>>

\* variant: the wait has no end of its own
WaitForever(r) ==
  /\ pc[r] = "waiting"
  /\ res[slot[r]] # NoAnswer
  /\ pc' = [pc EXCEPT ![r] = "loading"]
  /\ UNCHANGED <<slot, got, answerVars, poolVars, map, used, res>>

\* A signal, or the end of the wait; a signal that came before the wait began
\* is made good by the end of the wait.
WaitEnds(r) ==
  /\ pc[r] = "waiting"
  /\ TimesOut \/ res[slot[r]] # NoAnswer
  /\ pc' = [pc EXCEPT ![r] = "loading"]
  /\ UNCHANGED <<slot, got, answerVars, poolVars, map, used, res>>

LoadResult(r) ==
  /\ pc[r] = "loading"
  /\ got' = [got EXCEPT ![r] = res[slot[r]]]
  /\ pc' = [pc EXCEPT ![r] = "clearing"]
  /\ UNCHANGED <<slot, answerVars, poolVars, map, used, res>>

ClearUsed(r) ==
  /\ pc[r] = "clearing"
  /\ used' = [used EXCEPT ![slot[r]] = FALSE]
  /\ pc' = [pc EXCEPT ![r] = "emptying"]
  /\ UNCHANGED <<slot, got, answerVars, poolVars, map, res>>

ClearRes(r) ==
  /\ pc[r] = "emptying"
  /\ res' = [res EXCEPT ![slot[r]] = NoAnswer]
  /\ pc' = [pc EXCEPT ![r] = "done"]
  /\ UNCHANGED <<slot, got, answerVars, poolVars, map, used>>

(***************************************************************************)
(* ReciveDataHandler.channelRead0 with the answer to r: getKey finds the slot,   *)
(* clearKey puts it on the free list and removes the key, setRes stores.          *)
(***************************************************************************)
FindSlot(r) ==
  /\ answer[r] = "coming"
  /\ target' = [target EXCEPT ![r] = map[r]]
  /\ answer' = [answer EXCEPT ![r] = "found"]
  /\ UNCHANGED <<callVars, poolVars, map, used, res>>

\* variant: the key is gone when the slot is looked up to be freed
ReturnNothing(r) ==
  /\ answer[r] = "found"
  /\ answer' = [answer EXCEPT ![r] = "returned"]
  /\ UNCHANGED <<callVars, target, poolVars, map, used, res>>

\* variant: the key, not the slot, is put on the free list
ReturnKey(r) ==
  /\ answer[r] = "found"
  /\ free' = IF target[r] \in pooled THEN Append(free, r) ELSE free
  /\ answer' = [answer EXCEPT ![r] = "returned"]
  /\ UNCHANGED <<callVars, target, created, pooled, map, used, res>>

ReturnSlot(r) ==
  /\ answer[r] = "found"
  /\ free' = IF target[r] \in pooled THEN Append(free, target[r]) ELSE free
  /\ answer' = [answer EXCEPT ![r] = "returned"]
  /\ UNCHANGED <<callVars, target, created, pooled, map, used, res>>

RemoveKey(r) ==
  /\ answer[r] = "returned"
  /\ map' = [map EXCEPT ![r] = NoSlot]
  /\ answer' = [answer EXCEPT ![r] = "stored"]
  /\ UNCHANGED <<callVars, target, poolVars, used, res>>

StoreAnswer(r) ==
  /\ answer[r] = "stored"
  /\ res' = [res EXCEPT ![target[r]] = r]
  /\ answer' = [answer EXCEPT ![r] = "over"]
  /\ UNCHANGED <<callVars, target, poolVars, map, used>>

LoseAnswer(r) ==
  /\ AnswersLost
  /\ answer[r] = "coming"
  /\ answer' = [answer EXCEPT ![r] = "over"]
  /\ UNCHANGED <<callVars, target, poolVars, map, used, res>>

CallerStep(r) ==
  \/ Send(r) \/ CheckAnswer(r) \/ WaitEnds(r) \/ LoadResult(r) \/ ClearUsed(r) \/ ClearRes(r)

AnswerStep(r) == FindSlot(r) \/ ReturnSlot(r) \/ RemoveKey(r) \/ StoreAnswer(r)

Next ==
  \E r \in Requests :
    \/ \E s \in Slots : TakePooled(r, s) \/ TakeExtra(r, s)
    \/ TakeFree(r)
    \/ TakeFails(r)
    \/ CallerStep(r)
    \/ AnswerStep(r)
    \/ LoseAnswer(r)

Spec == Init /\ [][Next]_vars

Fairness == \A r \in Requests : WF_vars(CallerStep(r)) /\ WF_vars(AnswerStep(r))

FairSpec == Spec /\ Fairness

-----------------------------------------------------------------------------
(***************************************************************************)
(* Two requests never hold one slot at the same time: isUsed keeps a slot that  *)
(* is already back on the free list from the next request until its caller has  *)
(* read the answer (RpcCmdContext.findRpcContent, RpcContent.clear).            *)
(***************************************************************************)
Holding == {"sending", "checking", "waiting", "loading", "clearing"}

ExclusiveSlots ==
  \A r, q \in Requests :
    (r # q /\ pc[r] \in Holding /\ pc[q] \in Holding) => slot[r] # slot[q]

(***************************************************************************)
(* A caller gets the answer to its own request or none (RpcClient.request:       *)
(* "send a request and get the response").                                       *)
(***************************************************************************)
OwnAnswer == \A r \in Requests : got[r] \in {r, NoAnswer}

(***************************************************************************)
(* When no call and no answer is under way, a pooled slot is on the free list,    *)
(* once, unless it is still under the key of a request that was never answered:    *)
(* a late answer gives back the slot its caller left.                              *)
(***************************************************************************)
Quiet == \A r \in Requests : pc[r] \notin Calling /\ answer[r] \in {"none", "over"}

Kept == {map[r] : r \in Requests}

SlotsComeBack ==
  Quiet => /\ Len(free) = Cardinality(pooled \ Kept)
           /\ \A s \in pooled \ Kept : \E n \in 1..Len(free) : free[n] = s

(***************************************************************************)
(* Every call that was sent returns, answered or not.                            *)
(***************************************************************************)
CallsReturn == \A r \in Requests : pc[r] = "checking" ~> pc[r] = "done"
=============================================================================
