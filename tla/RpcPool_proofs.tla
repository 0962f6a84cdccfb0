--------------------------- MODULE RpcPool_proofs ---------------------------
(***************************************************************************)
(* Proofs about RpcPool, for any requests, any pool size, and with answers   *)
(* late or lost.                                                             *)
(***************************************************************************)
EXTENDS RpcPool, FiniteSetTheorems, TLAPS

(***************************************************************************)
(* The inductive invariant.  A slot in a caller's hands is marked used, which *)
(* is what the free list is asked about; only slots that exist are there.      *)
(***************************************************************************)
HeldIsUsed ==
  \A r \in Requests : pc[r] \in Holding => slot[r] \in created /\ used[slot[r]]

CallerHasSlot == \A r \in Requests : pc[r] \in Calling => slot[r] \in Slots

ListsAreCreated ==
  /\ pooled \subseteq created
  /\ \A n \in 1..Len(free) : free[n] \in created

SlotInv == HeldIsUsed /\ CallerHasSlot /\ ListsAreCreated /\ ExclusiveSlots

(***************************************************************************)
(* Type correctness.                                                         *)
(***************************************************************************)
LEMMA TakeKeepsTypes ==
  ASSUME TypeOK, NEW r \in Requests, NEW s \in Slots, Take(r, s),
         created' \in SUBSET Slots, pooled' \in SUBSET Slots, free' \in Seq(Slots)
  PROVE  TypeOK'
BY DEF TypeOK, Take, Calling, answerVars

LEMMA NextKeepsTypes == ASSUME TypeOK, CallerHasSlot, Next PROVE TypeOK'
<1> SUFFICES ASSUME NEW r \in Requests,
                    \/ \E s \in Slots : TakePooled(r, s) \/ TakeExtra(r, s)
                    \/ TakeFree(r)
                    \/ TakeFails(r)
                    \/ CallerStep(r)
                    \/ AnswerStep(r)
                    \/ LoseAnswer(r)
             PROVE  TypeOK'
  BY DEF Next
<1>1. ASSUME NEW s \in Slots, TakePooled(r, s) \/ TakeExtra(r, s) PROVE TypeOK'
  BY <1>1, TakeKeepsTypes DEF TakePooled, TakeExtra, Create, TypeOK
<1>2. CASE TakeFree(r)
  <2>1. Head(free) \in Slots /\ Tail(free) \in Seq(Slots)
    BY <1>2 DEF TakeFree, TypeOK
  <2>2. QED
    BY <1>2, <2>1, TakeKeepsTypes DEF TakeFree, TypeOK
<1>3. CASE TakeFails(r)
  BY <1>3 DEF TakeFails, TypeOK, answerVars, poolVars
<1>4. CASE CallerStep(r)
  <2>1. CASE Send(r)
    BY <2>1 DEF Send, TypeOK, Calling, poolVars
  <2>2. CASE CheckAnswer(r)
    BY <2>2 DEF CheckAnswer, TypeOK, Calling, answerVars, poolVars
  <2>3. CASE WaitEnds(r)
    BY <2>3 DEF WaitEnds, TypeOK, Calling, answerVars, poolVars
  <2>4. CASE LoadResult(r)
    BY <2>4 DEF CallerHasSlot, LoadResult, TypeOK, Calling, answerVars, poolVars
  <2>5. CASE ClearUsed(r)
    BY <2>5 DEF ClearUsed, TypeOK, Calling, answerVars, poolVars
  <2>6. CASE ClearRes(r)
    BY <2>6 DEF ClearRes, TypeOK, Calling, answerVars, poolVars
  <2>7. QED
    BY <1>4, <2>1, <2>2, <2>3, <2>4, <2>5, <2>6 DEF CallerStep
<1>5. CASE AnswerStep(r)
  <2>1. CASE FindSlot(r)
    BY <2>1 DEF FindSlot, TypeOK, callVars, poolVars
  <2>2. CASE ReturnSlot(r)
    BY <2>2 DEF ReturnSlot, TypeOK, callVars
  <2>3. CASE RemoveKey(r)
    BY <2>3 DEF RemoveKey, TypeOK, callVars, poolVars
  <2>4. CASE StoreAnswer(r)
    BY <2>4 DEF StoreAnswer, TypeOK, callVars, poolVars
  <2>5. QED
    BY <1>5, <2>1, <2>2, <2>3, <2>4 DEF AnswerStep
<1>6. CASE LoseAnswer(r)
  BY <1>6 DEF LoseAnswer, TypeOK, callVars, poolVars
<1>7. QED
  BY <1>1, <1>2, <1>3, <1>4, <1>5, <1>6

-----------------------------------------------------------------------------
(***************************************************************************)
(* A request takes a slot that nobody holds: a new one, or one not used.      *)
(***************************************************************************)
LEMMA TakeKeepsSlots ==
  ASSUME TypeOK, SlotInv, NEW r \in Requests, NEW s \in Slots, Take(r, s),
         s \notin created \/ ~used[s],
         created' \subseteq Slots, s \in created', created \subseteq created',
         pooled' \subseteq created',
         \A n \in 1..Len(free') : free'[n] \in created'
  PROVE  SlotInv'
<1>1. \A q \in Requests : pc[q] \in Holding => slot[q] # s
  BY DEF SlotInv, HeldIsUsed
<1>2. /\ pc' = [pc EXCEPT ![r] = "sending"]
      /\ slot' = [slot EXCEPT ![r] = s]
      /\ used' = [used EXCEPT ![s] = TRUE]
  BY DEF Take
<1>3. HeldIsUsed'
  BY <1>1, <1>2 DEF SlotInv, HeldIsUsed, TypeOK, Holding
<1>4. CallerHasSlot'
  BY <1>2 DEF SlotInv, CallerHasSlot, TypeOK
<1>5. ListsAreCreated'
  BY DEF ListsAreCreated
<1>6. ExclusiveSlots'
  BY <1>1, <1>2 DEF SlotInv, ExclusiveSlots, TypeOK, Holding
<1>7. QED
  BY <1>3, <1>4, <1>5, <1>6 DEF SlotInv

LEMMA NextKeepsSlots == ASSUME TypeOK, SlotInv, Next PROVE SlotInv'
<1> SUFFICES ASSUME NEW r \in Requests,
                    \/ \E s \in Slots : TakePooled(r, s) \/ TakeExtra(r, s)
                    \/ TakeFree(r)
                    \/ TakeFails(r)
                    \/ CallerStep(r)
                    \/ AnswerStep(r)
                    \/ LoseAnswer(r)
             PROVE  SlotInv'
  BY DEF Next
<1> USE DEF SlotInv, HeldIsUsed, CallerHasSlot, ListsAreCreated, ExclusiveSlots
<1>1. ASSUME NEW s \in Slots, TakePooled(r, s) \/ TakeExtra(r, s) PROVE SlotInv'
  BY <1>1, TakeKeepsSlots DEF TakePooled, TakeExtra, Create, TypeOK
<1>2. CASE TakeFree(r)
  <2>1. /\ Head(free) = free[1]
        /\ 1 \in 1..Len(free)
        /\ \A n \in 1..Len(Tail(free)) : n + 1 \in 1..Len(free) /\ Tail(free)[n] = free[n + 1]
    BY <1>2 DEF TakeFree, TypeOK
  <2>2. Head(free) \in created /\ created \subseteq Slots
    BY <2>1 DEF TypeOK
  <2>3. \A n \in 1..Len(free') : free'[n] \in created'
    BY <1>2, <2>1 DEF TakeFree
  <2>4. QED
    BY <1>2, <2>2, <2>3, TakeKeepsSlots DEF TakeFree, TypeOK
<1>3. CASE TakeFails(r)
  BY <1>3 DEF TakeFails, TypeOK, Calling, Holding, poolVars
<1>4. CASE CallerStep(r)
  <2>1. CASE Send(r)
    BY <2>1 DEF Send, TypeOK, Calling, Holding, poolVars
  <2>2. CASE CheckAnswer(r)
    BY <2>2 DEF CheckAnswer, TypeOK, Calling, Holding, poolVars
  <2>3. CASE WaitEnds(r)
    BY <2>3 DEF WaitEnds, TypeOK, Calling, Holding, poolVars
  <2>4. CASE LoadResult(r)
    BY <2>4 DEF LoadResult, TypeOK, Calling, Holding, poolVars
  <2>5. CASE ClearUsed(r)
    BY <2>5 DEF ClearUsed, TypeOK, Calling, Holding, poolVars
  <2>6. CASE ClearRes(r)
    BY <2>6 DEF ClearRes, TypeOK, Calling, Holding, poolVars
  <2>7. QED
    BY <1>4, <2>1, <2>2, <2>3, <2>4, <2>5, <2>6 DEF CallerStep
<1>5. CASE AnswerStep(r)
  <2>1. CASE FindSlot(r)
    BY <2>1 DEF FindSlot, callVars, poolVars
  <2>2. CASE ReturnSlot(r)
    <3>1. CASE target[r] \in pooled
      <4>1. free' = Append(free, target[r])
        BY <2>2, <3>1 DEF ReturnSlot
      <4>2. \A n \in 1..Len(free') : free'[n] \in created
        BY <3>1, <4>1 DEF TypeOK
      <4>3. QED
        BY <2>2, <4>2 DEF ReturnSlot, callVars
    <3>2. CASE target[r] \notin pooled
      BY <2>2, <3>2 DEF ReturnSlot, callVars
    <3>3. QED
      BY <3>1, <3>2
  <2>3. CASE RemoveKey(r)
    BY <2>3 DEF RemoveKey, callVars, poolVars
  <2>4. CASE StoreAnswer(r)
    BY <2>4 DEF StoreAnswer, callVars, poolVars
  <2>5. QED
    BY <1>5, <2>1, <2>2, <2>3, <2>4 DEF AnswerStep
<1>6. CASE LoseAnswer(r)
  BY <1>6 DEF LoseAnswer, callVars, poolVars
<1>7. QED
  BY <1>1, <1>2, <1>3, <1>4, <1>5, <1>6

LEMMA PoolInvariant == Spec => [](TypeOK /\ SlotInv)
<1>1. Init => TypeOK /\ SlotInv
  BY PoolAssumption
  DEF Init, TypeOK, SlotInv, HeldIsUsed, CallerHasSlot, ListsAreCreated, ExclusiveSlots,
      Calling, Holding
<1>2. TypeOK /\ SlotInv /\ [Next]_vars => (TypeOK /\ SlotInv)'
  <2>1. ASSUME TypeOK, SlotInv, UNCHANGED vars PROVE (TypeOK /\ SlotInv)'
    BY <2>1
    DEF TypeOK, SlotInv, HeldIsUsed, CallerHasSlot, ListsAreCreated, ExclusiveSlots, vars,
        callVars, answerVars, poolVars
  <2>2. QED
    BY <2>1, NextKeepsTypes, NextKeepsSlots DEF SlotInv
<1>3. QED
  BY <1>1, <1>2, PTL DEF Spec

\* The pool keeps its types.
THEOREM PoolTypeCorrect == Spec => []TypeOK
BY PoolInvariant, PTL

\* No two requests hold one slot, however the pool is sized and the answers come.
THEOREM SlotsAreExclusive == Spec => []ExclusiveSlots
<1>1. SlotInv => ExclusiveSlots
  BY DEF SlotInv
<1>2. QED
  BY <1>1, PoolInvariant, PTL

-----------------------------------------------------------------------------
(***************************************************************************)
(* Where the pooled slots are.  A key whose answer has not given its slot      *)
(* back owes that slot; a pooled slot is on the free list, once, or owed, and   *)
(* never both, although it may be on the free list while its caller reads.       *)
(***************************************************************************)
Owes(r) == map[r] # NoSlot /\ answer[r] # "returned"

OnFree == {free[n] : n \in 1..Len(free)}

AnswerFollowsKey ==
  \A r \in Requests :
    /\ pc[r] = "idle" => answer[r] = "none" /\ map[r] = NoSlot
    /\ pc[r] = "sending" => answer[r] = "none" /\ map[r] \in Slots
    /\ answer[r] = "coming" => map[r] \in Slots
    /\ answer[r] = "found" => map[r] \in Slots /\ target[r] = map[r]

OneOwner == \A r, q \in Requests : (r # q /\ Owes(r) /\ Owes(q)) => map[r] # map[q]

OwedIsNotFree == \A r \in Requests : Owes(r) => map[r] \in created \ OnFree

FreeOnce ==
  /\ OnFree \subseteq pooled
  /\ \A m, n \in 1..Len(free) : m # n => free[m] # free[n]

FreeOrOwed == \A s \in pooled : s \in OnFree \/ \E r \in Requests : Owes(r) /\ map[r] = s

ReturnInv == AnswerFollowsKey /\ OneOwner /\ OwedIsNotFree /\ FreeOnce /\ FreeOrOwed

(***************************************************************************)
(* What a request takes: a slot that nobody owes.  It owes that slot from then *)
(* on.                                                                        *)
(***************************************************************************)
LEMMA TakeKeepsReturn ==
  ASSUME TypeOK, SlotInv, ReturnInv, NEW r \in Requests, pc[r] = "idle",
         NEW s \in Slots, Take(r, s),
         \A q \in Requests : Owes(q) => map[q] # s,
         s \in created', created \subseteq created',
         OnFree' \subseteq OnFree \ {s}, pooled' \subseteq pooled \cup {s},
         OnFree \ {s} \subseteq OnFree', pooled \subseteq pooled',
         FreeOnce'
  PROVE  ReturnInv'
<1>1. /\ map' = [map EXCEPT ![r] = s]
      /\ pc' = [pc EXCEPT ![r] = "sending"]
      /\ answer' = answer
      /\ target' = target
  BY DEF Take, answerVars
<1>2. /\ \A q \in Requests \ {r} : map'[q] = map[q] /\ (Owes(q)' <=> Owes(q))
      /\ ~Owes(r) /\ Owes(r)' /\ map'[r] = s /\ s # NoSlot
  BY <1>1, PoolAssumption DEF TypeOK, Owes, ReturnInv, AnswerFollowsKey
<1>3. AnswerFollowsKey'
  BY <1>1 DEF ReturnInv, AnswerFollowsKey, TypeOK
<1>4. OneOwner'
  BY <1>2 DEF ReturnInv, OneOwner
<1>5. OwedIsNotFree'
  BY <1>2 DEF ReturnInv, OwedIsNotFree
<1>6. FreeOrOwed'
  <2>1. SUFFICES ASSUME NEW t \in pooled', t \notin OnFree', t # s
                 PROVE  \E q \in Requests : Owes(q)' /\ map'[q] = t
    BY <1>2 DEF FreeOrOwed
  <2>2. t \in pooled /\ t \notin OnFree
    BY <2>1
  <2>3. PICK q \in Requests : Owes(q) /\ map[q] = t
    BY <2>2 DEF ReturnInv, FreeOrOwed
  <2>4. QED
    BY <1>2, <2>3
<1>7. QED
  BY <1>3, <1>4, <1>5, <1>6 DEF ReturnInv

(***************************************************************************)
(* The steps that leave the lists and the keys alone.                         *)
(***************************************************************************)
LEMMA KeepersKeepReturn ==
  ASSUME ReturnInv, AnswerFollowsKey', UNCHANGED <<poolVars, map>>,
         \A q \in Requests : Owes(q)' <=> Owes(q)
  PROVE  ReturnInv'
<1>1. created' = created /\ pooled' = pooled /\ free' = free /\ map' = map /\ OnFree' = OnFree
  BY DEF poolVars, OnFree
<1>2. QED
  BY <1>1 DEF ReturnInv, OneOwner, OwedIsNotFree, FreeOnce, FreeOrOwed

(***************************************************************************)
(* A slot that is given back is owed no more, and is on the free list once.    *)
(***************************************************************************)
LEMMA ReturnKeepsReturn ==
  ASSUME TypeOK, ReturnInv, NEW r \in Requests, ReturnSlot(r)
  PROVE  ReturnInv'
<1>1. /\ answer' = [answer EXCEPT ![r] = "returned"]
      /\ answer[r] = "found"
      /\ UNCHANGED <<pc, target, created, pooled, map>>
  BY DEF ReturnSlot, callVars
<1>2. /\ map[r] \in Slots /\ target[r] = map[r]
      /\ Owes(r) /\ ~Owes(r)'
      /\ \A q \in Requests \ {r} : Owes(q)' <=> Owes(q)
  BY <1>1, PoolAssumption DEF ReturnInv, AnswerFollowsKey, Owes, TypeOK
<1>3. AnswerFollowsKey'
  BY <1>1 DEF ReturnInv, AnswerFollowsKey, TypeOK
<1>4. OneOwner'
  BY <1>1, <1>2 DEF ReturnInv, OneOwner
<1>5. map[r] \notin OnFree
  BY <1>2 DEF ReturnInv, OwedIsNotFree
<1>6. CASE target[r] \in pooled
  <2>1. free \in Seq(Slots) /\ free' = Append(free, target[r])
    BY <1>6 DEF ReturnSlot, TypeOK
  <2>2. /\ Len(free) \in Nat /\ Len(free') = Len(free) + 1
        /\ \A n \in 1..Len(free) : free'[n] = free[n]
        /\ free'[Len(free) + 1] = map[r]
    BY <1>2, <2>1
  <2>3. 1..Len(free') = (1..Len(free)) \cup {Len(free) + 1}
    BY <2>2
  <2>4. OnFree' = OnFree \cup {map[r]}
    BY <2>2, <2>3 DEF OnFree
  <2>5. \A n \in 1..Len(free) : free[n] # map[r]
    BY <1>5 DEF OnFree
  <2>6. FreeOnce'
    BY <1>1, <1>2, <1>6, <2>2, <2>3, <2>4, <2>5 DEF ReturnInv, FreeOnce
  <2>7. OwedIsNotFree'
    BY <1>1, <1>2, <2>4 DEF ReturnInv, OwedIsNotFree, OneOwner
  <2>8. FreeOrOwed'
    <3>1. SUFFICES ASSUME NEW t \in pooled, t \notin OnFree, t # map[r]
                   PROVE  \E q \in Requests : Owes(q)' /\ map'[q] = t
      BY <1>1, <2>4 DEF FreeOrOwed
    <3>2. PICK q \in Requests : Owes(q) /\ map[q] = t
      BY <3>1 DEF ReturnInv, FreeOrOwed
    <3>3. QED
      BY <1>1, <1>2, <3>1, <3>2
  <2>9. QED
    BY <1>3, <1>4, <2>6, <2>7, <2>8 DEF ReturnInv
<1>7. CASE target[r] \notin pooled
  <2>1. free' = free /\ OnFree' = OnFree
    BY <1>7 DEF ReturnSlot, OnFree
  <2>2. OwedIsNotFree' /\ FreeOnce'
    BY <1>1, <1>2, <2>1 DEF ReturnInv, OwedIsNotFree, FreeOnce
  <2>3. FreeOrOwed'
    <3>1. SUFFICES ASSUME NEW t \in pooled, t \notin OnFree
                   PROVE  \E q \in Requests : Owes(q)' /\ map'[q] = t
      BY <1>1, <2>1 DEF FreeOrOwed
    <3>2. PICK q \in Requests : Owes(q) /\ map[q] = t
      BY <3>1 DEF ReturnInv, FreeOrOwed
    <3>3. QED
      BY <1>1, <1>2, <1>7, <3>2
  <2>4. QED
    BY <1>3, <1>4, <2>2, <2>3 DEF ReturnInv
<1>8. QED
  BY <1>6, <1>7
LEMMA NextKeepsReturn == ASSUME TypeOK, SlotInv, ReturnInv, Next PROVE ReturnInv'
<1> SUFFICES ASSUME NEW r \in Requests,
                    \/ \E s \in Slots : TakePooled(r, s) \/ TakeExtra(r, s)
                    \/ TakeFree(r)
                    \/ TakeFails(r)
                    \/ CallerStep(r)
                    \/ AnswerStep(r)
                    \/ LoseAnswer(r)
             PROVE  ReturnInv'
  BY DEF Next
<1>0. /\ OnFree \subseteq created
      /\ \A q \in Requests : Owes(q) => map[q] \in created
      /\ pooled \subseteq created
  BY DEF SlotInv, ListsAreCreated, OnFree, ReturnInv, OwedIsNotFree
<1>1. ASSUME NEW s \in Slots, TakePooled(r, s) \/ TakeExtra(r, s) PROVE ReturnInv'
  <2>1. /\ pc[r] = "idle" /\ Take(r, s) /\ s \notin created /\ created' = created \cup {s}
        /\ free' = free /\ pooled \subseteq pooled' /\ pooled' \subseteq pooled \cup {s}
    BY <1>1 DEF TakePooled, TakeExtra, Ready, Create
  <2>2. OnFree' = OnFree /\ s \notin OnFree
    BY <1>0, <2>1 DEF OnFree
  <2>3. FreeOnce'
    BY <2>1, <2>2 DEF ReturnInv, FreeOnce
  <2>4. QED
    BY <1>0, <2>1, <2>2, <2>3, TakeKeepsReturn
<1>2. CASE TakeFree(r)
  <2>1. /\ free \in Seq(Slots) /\ free # <<>> /\ free' = Tail(free)
        /\ Take(r, Head(free)) /\ pc[r] = "idle"
        /\ UNCHANGED <<created, pooled>>
    BY <1>2 DEF TakeFree, Ready, TypeOK
  <2>2. /\ Len(free) \in Nat \ {0} /\ Len(free') = Len(free) - 1
        /\ Head(free) = free[1] /\ Head(free) \in Slots
        /\ \A n \in 1..Len(free') : n + 1 \in 2..Len(free) /\ free'[n] = free[n + 1]
    BY <2>1
  <2>3. Head(free) \in OnFree
    BY <2>2 DEF OnFree
  <2>4. \A m, n \in 1..Len(free) : m # n => free[m] # free[n]
    BY DEF ReturnInv, FreeOnce
  <2>5. OnFree' = OnFree \ {Head(free)}
    <3>1. ASSUME NEW n \in 1..Len(free) PROVE free[n] = free[1] \/ free[n] \in OnFree'
      <4>1. n = 1 \/ (n - 1 \in 1..Len(free') /\ (n - 1) + 1 = n)
        BY <2>2
      <4>2. QED
        BY <2>2, <4>1 DEF OnFree
    <3>2. ASSUME NEW n \in 1..Len(free') PROVE free'[n] \in OnFree \ {free[1]}
      <4>1. n + 1 \in 1..Len(free) /\ 1 \in 1..Len(free) /\ n + 1 # 1
        BY <2>2
      <4>2. QED
        BY <2>2, <2>4, <4>1 DEF OnFree
    <3>3. OnFree' \subseteq OnFree \ {free[1]}
      BY <3>2 DEF OnFree
    <3>4. OnFree \ {free[1]} \subseteq OnFree'
      BY <3>1 DEF OnFree
    <3>5. QED
      BY <2>2, <3>3, <3>4
  <2>6. FreeOnce'
    <3>1. \A m, n \in 1..Len(free') : m # n => free'[m] # free'[n]
      BY <2>2, <2>4
    <3>2. QED
      BY <2>1, <2>5, <3>1 DEF ReturnInv, FreeOnce
  <2>7. \A q \in Requests : Owes(q) => map[q] # Head(free)
    BY <2>3 DEF ReturnInv, OwedIsNotFree
  <2>8. QED
    BY <1>0, <2>1, <2>2, <2>3, <2>5, <2>6, <2>7, TakeKeepsReturn
<1>3. CASE TakeFails(r)
  <2>1. AnswerFollowsKey'
    BY <1>3 DEF TakeFails, Ready, ReturnInv, AnswerFollowsKey, TypeOK, answerVars
  <2>2. QED
    BY <1>3, <2>1, KeepersKeepReturn DEF TakeFails, Owes, answerVars
<1>4. CASE CallerStep(r)
  <2>1. CASE Send(r)
    <3>1. AnswerFollowsKey'
      BY <2>1 DEF Send, ReturnInv, AnswerFollowsKey, TypeOK
    <3>2. \A q \in Requests : Owes(q)' <=> Owes(q)
      BY <2>1 DEF Send, Owes, ReturnInv, AnswerFollowsKey, TypeOK
    <3>3. QED
      BY <2>1, <3>1, <3>2, KeepersKeepReturn DEF Send
  <2>2. CASE ~Send(r)
    <3>1. /\ pc[r] \in {"checking", "waiting", "loading", "clearing", "emptying"}
          /\ \E step \in {"waiting", "loading", "clearing", "emptying", "done"} :
               pc' = [pc EXCEPT ![r] = step]
          /\ UNCHANGED <<answerVars, poolVars, map>>
      BY <1>4, <2>2
      DEF CallerStep, CheckAnswer, WaitEnds, LoadResult, ClearUsed, ClearRes
    <3>2. AnswerFollowsKey'
      BY <3>1 DEF ReturnInv, AnswerFollowsKey, TypeOK, answerVars
    <3>3. QED
      BY <3>1, <3>2, KeepersKeepReturn DEF Owes, answerVars
  <2>3. QED
    BY <2>1, <2>2
<1>5. CASE AnswerStep(r)
  <2>1. CASE FindSlot(r)
    <3>1. AnswerFollowsKey'
      BY <2>1 DEF FindSlot, ReturnInv, AnswerFollowsKey, TypeOK, callVars
    <3>2. \A q \in Requests : Owes(q)' <=> Owes(q)
      BY <2>1 DEF FindSlot, Owes, TypeOK
    <3>3. QED
      BY <2>1, <3>1, <3>2, KeepersKeepReturn DEF FindSlot
  <2>2. CASE ReturnSlot(r)
    BY <2>2, ReturnKeepsReturn
  <2>3. CASE RemoveKey(r)
    <3>1. /\ map' = [map EXCEPT ![r] = NoSlot] /\ answer' = [answer EXCEPT ![r] = "stored"]
          /\ answer[r] = "returned" /\ UNCHANGED <<pc, target, poolVars>>
          /\ free' = free /\ created' = created /\ pooled' = pooled /\ OnFree' = OnFree
      BY <2>3 DEF RemoveKey, callVars, poolVars, OnFree
    <3>2. AnswerFollowsKey'
      BY <3>1 DEF ReturnInv, AnswerFollowsKey, TypeOK
    <3>3. /\ \A q \in Requests : Owes(q)' <=> Owes(q)
          /\ \A q \in Requests : Owes(q) => map'[q] = map[q]
      BY <3>1 DEF Owes, TypeOK
    <3>4. QED
      BY <3>1, <3>2, <3>3 DEF ReturnInv, OneOwner, OwedIsNotFree, FreeOnce, FreeOrOwed
  <2>4. CASE StoreAnswer(r)
    <3>1. AnswerFollowsKey'
      BY <2>4 DEF StoreAnswer, ReturnInv, AnswerFollowsKey, TypeOK, callVars
    <3>2. \A q \in Requests : Owes(q)' <=> Owes(q)
      BY <2>4 DEF StoreAnswer, Owes, TypeOK
    <3>3. QED
      BY <2>4, <3>1, <3>2, KeepersKeepReturn DEF StoreAnswer
  <2>5. QED
    BY <1>5, <2>1, <2>2, <2>3, <2>4 DEF AnswerStep
<1>6. CASE LoseAnswer(r)
  <2>1. AnswerFollowsKey'
    BY <1>6 DEF LoseAnswer, ReturnInv, AnswerFollowsKey, TypeOK, callVars
  <2>2. \A q \in Requests : Owes(q)' <=> Owes(q)
    BY <1>6 DEF LoseAnswer, Owes, TypeOK
  <2>3. QED
    BY <1>6, <2>1, <2>2, KeepersKeepReturn DEF LoseAnswer
<1>7. QED
  BY <1>1, <1>2, <1>3, <1>4, <1>5, <1>6

LEMMA ReturnInvariant == Spec => [](TypeOK /\ SlotInv /\ ReturnInv)
<1>1. Init => ReturnInv
  BY DEF Init, ReturnInv, AnswerFollowsKey, OneOwner, OwedIsNotFree, FreeOnce, FreeOrOwed, Owes,
         OnFree
<1>2. TypeOK /\ SlotInv /\ ReturnInv /\ [Next]_vars => ReturnInv'
  <2>1. ASSUME ReturnInv, UNCHANGED vars PROVE ReturnInv'
    <3>1. /\ UNCHANGED <<pc, answer, target, map, created, pooled, free>>
          /\ OnFree' = OnFree
          /\ \A q \in Requests : Owes(q)' <=> Owes(q)
      BY <2>1 DEF vars, callVars, answerVars, poolVars, OnFree, Owes
    <3>2. AnswerFollowsKey'
      BY <2>1, <3>1 DEF ReturnInv, AnswerFollowsKey
    <3>3. QED
      BY <2>1, <3>1, <3>2, KeepersKeepReturn DEF poolVars
  <2>2. QED
    BY <2>1, NextKeepsReturn
<1>3. QED
  BY <1>1, <1>2, PoolInvariant, PTL DEF Spec

\* When all is quiet, the free list holds every pooled slot that no key keeps, once.
THEOREM SlotsAreNotLost == Spec => []SlotsComeBack
<1>1. ASSUME TypeOK, ReturnInv PROVE SlotsComeBack
  <2>1. SUFFICES ASSUME Quiet
                 PROVE  /\ Len(free) = Cardinality(pooled \ Kept)
                        /\ \A s \in pooled \ Kept : \E n \in 1..Len(free) : free[n] = s
    BY DEF SlotsComeBack
  <2>2. \A r \in Requests : map[r] # NoSlot => Owes(r)
    BY <2>1 DEF Quiet, Owes
  <2>3. pooled \ Kept = OnFree
    <3>1. ASSUME NEW s \in pooled, s \notin Kept PROVE s \in OnFree
      BY <1>1, <3>1 DEF ReturnInv, FreeOrOwed, Kept
    <3>2. ASSUME NEW s \in OnFree PROVE s \in pooled /\ s \notin Kept
      <4>1. s \in pooled /\ s # NoSlot
        BY <1>1, PoolAssumption DEF ReturnInv, FreeOnce, TypeOK
      <4>2. ASSUME NEW r \in Requests, map[r] = s PROVE FALSE
        BY <1>1, <2>2, <4>1, <4>2 DEF ReturnInv, OwedIsNotFree
      <4>3. QED
        BY <4>1, <4>2 DEF Kept
    <3>3. QED
      BY <3>1, <3>2
  <2>4. Len(free) \in Nat
    BY <1>1 DEF TypeOK
  <2>5. ExistsBijection(1..Len(free), OnFree)
    <3> DEFINE place == [n \in 1..Len(free) |-> free[n]]
    <3>1. place \in [1..Len(free) -> OnFree]
      BY DEF OnFree
    <3>2. \A m, n \in 1..Len(free) : place[m] = place[n] => m = n
      BY <1>1 DEF ReturnInv, FreeOnce
    <3>3. \A s \in OnFree : \E n \in 1..Len(free) : place[n] = s
      BY DEF OnFree
    <3> HIDE DEF place
    <3>4. place \in Bijection(1..Len(free), OnFree)
      <4>1. place \in Injection(1..Len(free), OnFree)
        BY <3>1, <3>2 DEF Injection, IsInjective
      <4>2. place \in Surjection(1..Len(free), OnFree)
        BY <3>1, <3>3 DEF Surjection
      <4>3. QED
        BY <4>1, <4>2 DEF Bijection
    <3>5. QED
      BY <3>4 DEF ExistsBijection
  <2>6. Cardinality(OnFree) = Len(free)
    BY <2>4, <2>5, FS_CountingElements
  <2>7. QED
    BY <2>3, <2>6 DEF OnFree
<1>2. QED
  BY <1>1, ReturnInvariant, PTL
=============================================================================
