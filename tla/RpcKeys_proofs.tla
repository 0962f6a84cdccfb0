--------------------------- MODULE RpcKeys_proofs ---------------------------
(***************************************************************************)
(* Proofs about RpcKeys, for any number of clients and managers, any sequence  *)
(* limit and any bounds on clocks and ids.                                     *)
(***************************************************************************)
EXTENDS RpcKeys, Snowflake_proofs

(***************************************************************************)
(* What is on the wire comes from a caller that has drawn its key; an answer    *)
(* comes from the process that was called and has handled the request.           *)
(***************************************************************************)
Genuine(m) ==
  \/ /\ m.kind = "request"
     /\ m.key \in Drawn(m.by)
     /\ m.to \in Callable(m.by)
  \/ /\ m.kind = "answer"
     /\ m.by \in Callable(m.to)
     /\ Request(m.to, m.by, m.key) \in handled

WaitsForOwn == \A p \in Workers : waiting[p] \subseteq Drawn(p)

WireIsGenuine == \A m \in wire : Genuine(m)

KeyInv ==
  /\ KeyTypeOK
  /\ IdInv
  /\ WaitsForOwn
  /\ WireIsGenuine
  /\ OwnAnswers
  /\ AnswersUnderWay

(***************************************************************************)
(* Calls go both ways between a client and a manager.                          *)
(***************************************************************************)
LEMMA CallableBothWays ==
  ASSUME NEW p \in Workers, NEW q \in Callable(p)
  PROVE  q \in Workers /\ q # p /\ p \in Callable(q)
BY ManagersAssumption DEF Callable

LEMMA InitKeys == KeyInit => KeyInv
<1> SUFFICES ASSUME KeyInit PROVE KeyInv
  OBVIOUS
<1>1. IdInv
  BY LimitAssumption, BoundAssumption
     DEF KeyInit, Init, IdInv, TypeOK, IdsIncrease, Behind
<1>2. QED
  BY <1>1 DEF KeyInit, KeyInv, KeyTypeOK, IdInv, WaitsForOwn, WireIsGenuine,
              OwnAnswers, AnswersUnderWay

(***************************************************************************)
(* A step of an id worker hands out one id or none.                            *)
(***************************************************************************)
LEMMA NextIdDraws ==
  ASSUME TypeOK, NEW p \in Workers, NextId(p)
  PROVE  \/ ids' = ids
         \/ \E x \in Id : ids' = [ids EXCEPT ![p] = Append(ids[p], x)]
<1>1. ASSUME NEW t \in Nat, NEW q \in Nat, Return(p, t, q)
      PROVE  \E x \in Id : ids' = [ids EXCEPT ![p] = Append(ids[p], x)]
  BY <1>1 DEF Return, Id
<1>2. now[p] \in Nat /\ sequence[p] \in Nat /\ 0 \in Nat
  BY LimitAssumption DEF TypeOK
<1>3. (sequence[p] + 1) % SequenceLimit \in Nat
  BY <1>2, LimitAssumption
<1>4. CASE NextIdNewTime(p)
  BY <1>1, <1>2, <1>4 DEF NextIdNewTime
<1>5. CASE NextIdSameTime(p)
  BY <1>1, <1>2, <1>3, <1>5 DEF NextIdSameTime
<1>6. CASE TilNextMillis(p)
  BY <1>1, <1>2, <1>6 DEF TilNextMillis
<1>7. QED
  BY <1>4, <1>5, <1>6 DEF NextId

LEMMA CallDraws ==
  ASSUME TypeOK, NEW p \in Workers, NextId(p)
  PROVE  /\ \A q \in Workers : Drawn(q) \subseteq Drawn(q)'
         /\ {ids'[p][i] : i \in Len(ids[p]) + 1 .. Len(ids'[p])} \subseteq Drawn(p)' \cap Id
<1>1. ids \in [Workers -> Seq(Id)] /\ Len(ids[p]) \in Nat
  BY DEF TypeOK
<1>2. CASE ids' = ids
  BY <1>1, <1>2 DEF Drawn
<1>3. ASSUME NEW x \in Id, ids' = [ids EXCEPT ![p] = Append(ids[p], x)]
      PROVE  /\ \A q \in Workers : Drawn(q) \subseteq Drawn(q)'
             /\ {ids'[p][i] : i \in Len(ids[p]) + 1 .. Len(ids'[p])} \subseteq Drawn(p)' \cap Id
  <2>1. /\ \A q \in Workers \ {p} : ids'[q] = ids[q]
        /\ ids'[p] = Append(ids[p], x)
    BY <1>1, <1>3
  <2>2. /\ Len(ids'[p]) = Len(ids[p]) + 1
        /\ \A i \in 1 .. Len(ids[p]) : ids'[p][i] = ids[p][i]
        /\ ids'[p][Len(ids[p]) + 1] = x
    BY <1>1, <2>1
  <2>3. \A q \in Workers : Drawn(q) \subseteq Drawn(q)'
    BY <1>1, <2>1, <2>2 DEF Drawn
  <2>4. \A i \in Len(ids[p]) + 1 .. Len(ids'[p]) :
          i = Len(ids[p]) + 1 /\ i \in 1 .. Len(ids'[p])
    BY <1>1, <2>2
  <2>5. QED
    BY <2>2, <2>3, <2>4 DEF Drawn
<1>4. QED
  BY <1>2, <1>3, NextIdDraws

(***************************************************************************)
(* What has been drawn stays drawn, and what was handled or shared stays so.    *)
(***************************************************************************)
LEMMA GenuineStays ==
  ASSUME handled \subseteq handled', NEW m \in Message, Genuine(m),
         \A q \in Workers : Drawn(q) \subseteq Drawn(q)'
  PROVE  Genuine(m)'
BY DEF Genuine, Message

LEMMA SharedStays ==
  ASSUME NEW p \in Workers, NEW k, SharedKey(p, k),
         \A q \in Workers : Drawn(q) \subseteq Drawn(q)'
  PROVE  SharedKey(p, k)'
BY DEF SharedKey

LEMMA OwnAnswersStay ==
  ASSUME handled \subseteq handled', NEW m \in Message, m \in taken, OwnAnswers,
         \A q \in Workers : Drawn(q) \subseteq Drawn(q)'
  PROVE  /\ m.key \in Drawn(m.to)'
         /\ \/ m.kind = "answer" /\ Request(m.to, m.by, m.key) \in handled'
            \/ m.kind = "request" /\ SharedKey(m.to, m.key)'
<1>1. m.to \in Workers
  BY DEF Message
<1>2. QED
  BY <1>1, SharedStays DEF OwnAnswers

LEMMA MessageParts ==
  ASSUME NEW p \in Workers, NEW q \in Workers, NEW k \in Id
  PROVE  /\ Request(p, q, k) \in Message
         /\ Request(p, q, k).kind = "request" /\ Request(p, q, k).by = p
         /\ Request(p, q, k).to = q /\ Request(p, q, k).key = k
         /\ Answer(Request(p, q, k)) \in Message
         /\ Answer(Request(p, q, k)).kind = "answer" /\ Answer(Request(p, q, k)).by = q
         /\ Answer(Request(p, q, k)).to = p /\ Answer(Request(p, q, k)).key = k
BY DEF Request, Answer, Message

LEMMA RequestIsWhole ==
  ASSUME NEW m \in Message, m.kind = "request"
  PROVE  m = Request(m.by, m.to, m.key)
BY DEF Message, Request

(***************************************************************************)
(* Each step keeps the invariant.                                              *)
(***************************************************************************)
LEMMA CallKeeps ==
  ASSUME KeyInv, NEW p \in Workers, NEW q \in Workers, Call(p, q)
  PROVE  KeyInv'
<1> DEFINE keys == {ids'[p][i] : i \in Len(ids[p]) + 1 .. Len(ids'[p])}
<1>1. /\ \A w \in Workers : Drawn(w) \subseteq Drawn(w)'
      /\ keys \subseteq Drawn(p)' /\ keys \subseteq Id
  BY CallDraws DEF Call, KeyInv, IdInv
<1>2. /\ waiting' = [waiting EXCEPT ![p] = @ \cup keys]
      /\ wire' = wire \cup {Request(p, q, k) : k \in keys}
      /\ handled' = handled /\ taken' = taken /\ q \in Callable(p)
  BY DEF Call
<1>3. IdInv'
  BY NextKeepsOrder DEF Call, NextId, Next, KeyInv
<1> HIDE DEF keys
<1>4. KeyTypeOK'
  BY <1>1, <1>2, <1>3, MessageParts DEF KeyInv, KeyTypeOK, IdInv
<1>5. WaitsForOwn'
  BY <1>1, <1>2 DEF KeyInv, KeyTypeOK, WaitsForOwn
<1>6. WireIsGenuine'
  <2>1. ASSUME NEW m \in wire PROVE Genuine(m)'
    BY <1>1, <1>2, <2>1, GenuineStays DEF KeyInv, KeyTypeOK, WireIsGenuine
  <2>2. ASSUME NEW k \in keys PROVE Genuine(Request(p, q, k))'
    BY <1>1, <1>2, <2>2, MessageParts DEF Genuine
  <2>3. QED
    BY <1>2, <2>1, <2>2 DEF WireIsGenuine
<1>7. OwnAnswers'
  BY <1>1, <1>2, OwnAnswersStay DEF KeyInv, KeyTypeOK, OwnAnswers
<1>8. AnswersUnderWay'
  <2> SUFFICES ASSUME NEW w \in Workers, NEW k \in waiting'[w]
               PROVE  \/ SharedKey(w, k)'
                      \/ \E v \in Callable(w) :
                           {Request(w, v, k), Answer(Request(w, v, k))} \cap wire' # {}
    BY DEF AnswersUnderWay
  <2>1. CASE k \in waiting[w]
    BY <1>1, <1>2, <2>1, SharedStays DEF KeyInv, AnswersUnderWay
  <2>2. CASE k \notin waiting[w]
    <3>1. w = p /\ k \in keys
      BY <1>2, <2>2 DEF KeyInv, KeyTypeOK
    <3>2. QED
      BY <1>2, <3>1
  <2>3. QED
    BY <2>1, <2>2
<1>9. QED
  BY <1>3, <1>4, <1>5, <1>6, <1>7, <1>8 DEF KeyInv

LEMMA ReceiveKeeps ==
  ASSUME KeyInv, NEW m \in wire, Receive(m)
  PROVE  KeyInv'
<1>0. m \in Message /\ m.by \in Workers /\ m.to \in Workers /\ m.key \in Id /\ Genuine(m)
  BY DEF KeyInv, KeyTypeOK, WireIsGenuine, Message
<1>1. UNCHANGED vars /\ handled \subseteq handled' /\ handled' \subseteq handled \cup {m}
  BY DEF Receive, TakeAnswer, Handle, Discard
<1>2. /\ \A w \in Workers : Drawn(w)' = Drawn(w)
      /\ \A w \in Workers : waiting'[w] \subseteq waiting[w]
      /\ waiting' \in [Workers -> SUBSET Id]
  BY <1>0, <1>1 DEF Receive, TakeAnswer, Handle, Discard, vars, Drawn, KeyInv, KeyTypeOK
<1>3. IdInv'
  BY <1>1, NextKeepsOrder DEF KeyInv
<1>4. Answer(m) \in Message /\ Answer(m).kind = "answer" /\ Answer(m).by = m.to
      /\ Answer(m).to = m.by /\ Answer(m).key = m.key
  BY <1>0 DEF Answer, Message
<1>5. KeyTypeOK'
  BY <1>0, <1>2, <1>3, <1>4
     DEF Receive, TakeAnswer, Handle, Discard, KeyInv, KeyTypeOK, IdInv
<1>6. WaitsForOwn'
  BY <1>2 DEF KeyInv, WaitsForOwn
<1>7. WireIsGenuine'
  <2>1. ASSUME NEW n \in wire PROVE Genuine(n)'
    BY <1>1, <1>2, <2>1, GenuineStays DEF KeyInv, KeyTypeOK, WireIsGenuine
  <2>2. CASE Handle(m)
    <3>1. Request(m.by, m.to, m.key) \in handled'
      BY <1>0, <2>2, RequestIsWhole DEF Handle
    <3>2. m.to \in Callable(m.by)
      BY <1>0, <2>2 DEF Handle, Genuine
    <3>3. Genuine(Answer(m))'
      BY <1>4, <3>1, <3>2 DEF Genuine
    <3>4. QED
      BY <2>1, <2>2, <3>3 DEF Handle, WireIsGenuine
  <2>3. CASE TakeAnswer(m) \/ Discard(m)
    BY <2>1, <2>3 DEF TakeAnswer, Discard, WireIsGenuine
  <2>4. QED
    BY <2>2, <2>3 DEF Receive
<1>8. OwnAnswers'
  <2>1. ASSUME NEW n \in taken
        PROVE  /\ n.key \in Drawn(n.to)'
               /\ \/ n.kind = "answer" /\ Request(n.to, n.by, n.key) \in handled'
                  \/ n.kind = "request" /\ SharedKey(n.to, n.key)'
    BY <1>1, <1>2, <2>1, OwnAnswersStay DEF KeyInv, KeyTypeOK
  <2>2. CASE TakeAnswer(m)
    <3>1. m.key \in Drawn(m.to)'
      BY <1>0, <1>2, <2>2 DEF TakeAnswer, Awaits, KeyInv, WaitsForOwn
    <3>2. CASE m.kind = "answer"
      BY <1>0, <1>1, <2>1, <2>2, <3>1, <3>2 DEF Genuine, TakeAnswer, OwnAnswers
    <3>3. CASE m.kind = "request"
      <4>1. m.key \in Drawn(m.by)' /\ m.to \in Callable(m.by) /\ m.to # m.by
        BY <1>0, <1>2, <3>3, CallableBothWays DEF Genuine
      <4>2. SharedKey(m.to, m.key)'
        BY <1>0, <4>1 DEF SharedKey
      <4>3. QED
        BY <2>1, <2>2, <3>1, <3>3, <4>2 DEF TakeAnswer, OwnAnswers
    <3>4. QED
      BY <1>0, <3>2, <3>3 DEF Genuine
  <2>3. CASE Handle(m) \/ Discard(m)
    BY <2>1, <2>3 DEF Handle, Discard, OwnAnswers
  <2>4. QED
    BY <2>2, <2>3 DEF Receive
<1>9. AnswersUnderWay'
  <2> SUFFICES ASSUME NEW p \in Workers, NEW k \in waiting'[p], ~SharedKey(p, k)'
               PROVE  \E q \in Callable(p) :
                        {Request(p, q, k), Answer(Request(p, q, k))} \cap wire' # {}
    BY DEF AnswersUnderWay
  <2>1. k \in waiting[p] /\ k \in Id
    BY <1>2
  <2>2. ~SharedKey(p, k)
    BY <1>2, SharedStays
  <2>3. PICK q \in Callable(p) :
          {Request(p, q, k), Answer(Request(p, q, k))} \cap wire # {}
    BY <2>1, <2>2 DEF KeyInv, AnswersUnderWay
  <2>4. q \in Workers /\ q # p /\ p \in Callable(q)
    BY <2>3, CallableBothWays
  <2>5. CASE m \notin {Request(p, q, k), Answer(Request(p, q, k))}
    BY <2>3, <2>5 DEF Receive, TakeAnswer, Handle, Discard
  <2>6. CASE m = Request(p, q, k)
    <3>1. m.kind = "request" /\ m.by = p /\ m.to = q /\ m.key = k
      BY <2>1, <2>4, <2>6, MessageParts
    <3>2. ~Awaits(m)
      <4>1. SUFFICES ASSUME k \in waiting[q] PROVE FALSE
        BY <3>1 DEF Awaits
      <4>2. k \in Drawn(q)
        BY <2>4, <4>1 DEF KeyInv, WaitsForOwn
      <4>3. QED
        BY <2>2, <2>4, <4>2 DEF SharedKey
    <3>3. Answer(Request(p, q, k)) \in wire'
      BY <2>6, <3>1, <3>2 DEF Receive, TakeAnswer, Handle, Discard
    <3>4. QED
      BY <2>3, <3>3
  <2>7. CASE m = Answer(Request(p, q, k))
    <3>1. m.kind = "answer" /\ m.to = p /\ m.key = k
      BY <2>1, <2>4, <2>7, MessageParts
    <3>2. Awaits(m)
      BY <2>1, <3>1 DEF Awaits
    <3>3. k \notin waiting'[p]
      BY <3>1, <3>2 DEF Receive, TakeAnswer, Handle, Discard, KeyInv, KeyTypeOK
    <3>4. QED
      BY <3>3
  <2>8. QED
    BY <2>5, <2>6, <2>7
<1>10. QED
  BY <1>3, <1>5, <1>6, <1>7, <1>8, <1>9 DEF KeyInv

LEMMA KeyStep == ASSUME KeyInv, [KeyNext]_allVars PROVE KeyInv'
<1>1. ASSUME UNCHANGED keyVars, UNCHANGED ids, IdInv' PROVE KeyInv'
  BY <1>1 DEF keyVars, KeyInv, KeyTypeOK, IdInv, WaitsForOwn, WireIsGenuine, Genuine,
              OwnAnswers, AnswersUnderWay, SharedKey, Drawn
<1>2. ASSUME NEW p \in Workers, SetClock(p), UNCHANGED keyVars PROVE KeyInv'
  <2>1. IdInv'
    BY <1>2, NextKeepsOrder DEF Next, KeyInv
  <2>2. QED
    BY <1>1, <1>2, <2>1 DEF SetClock
<1>3. CASE UNCHANGED allVars
  <2>1. IdInv'
    BY <1>3, NextKeepsOrder DEF allVars, KeyInv
  <2>2. QED
    BY <1>1, <1>3, <2>1 DEF allVars, vars
<1>4. QED
  BY <1>2, <1>3, CallKeeps, ReceiveKeeps DEF KeyNext

(***************************************************************************)
(* Types, and the increasing ids of every process, over calls and answers.      *)
(***************************************************************************)
THEOREM KeysTypeCorrect == KeySpec => [](KeyTypeOK /\ IdsIncrease)
<1>1. KeyInv => KeyTypeOK /\ IdsIncrease
  BY DEF KeyInv, IdInv
<1>2. QED
  BY InitKeys, KeyStep, <1>1, PTL DEF KeySpec

(***************************************************************************)
(* A caller gets the answer of the process it called to the request that         *)
(* process executed, unless a process that may call it has drawn the same key      *)
(* (ReciveDataHandler).                                                         *)
(***************************************************************************)
THEOREM KeysOwnAnswers == KeySpec => []OwnAnswers
<1>1. KeyInv => OwnAnswers
  BY DEF KeyInv
<1>2. QED
  BY InitKeys, KeyStep, <1>1, PTL DEF KeySpec

(***************************************************************************)
(* A key that is waited with and not shared belongs to a message on its way:      *)
(* no confusion of keys loses the answer (ReciveDataHandler).                     *)
(***************************************************************************)
THEOREM KeysAnswersUnderWay == KeySpec => []AnswersUnderWay
<1>1. KeyInv => AnswersUnderWay
  BY DEF KeyInv
<1>2. QED
  BY InitKeys, KeyStep, <1>1, PTL DEF KeySpec
=============================================================================
