-------------------------- MODULE Snowflake_proofs --------------------------
(***************************************************************************)
(* Proofs about Snowflake, for any number of processes, any sequence limit    *)
(* and any bounds on clocks and ids.                                          *)
(***************************************************************************)
EXTENDS Snowflake, TLAPS

(***************************************************************************)
(* No id handed out is ahead of the worker's state: its time is at most        *)
(* lastTimestamp, and at that time its number is at most sequence, unless the   *)
(* sequence has just overflowed and the worker waits for a later time.          *)
(***************************************************************************)
Behind(w) ==
  \A n \in 1..Len(ids[w]) :
    /\ ids[w][n].time <= lastTimestamp[w]
    /\ (ids[w][n].time = lastTimestamp[w] /\ ~waits[w]) => ids[w][n].seq <= sequence[w]

IdInv == TypeOK /\ IdsIncrease /\ \A w \in Workers : Behind(w)

(***************************************************************************)
(* The ids of a worker are pairs of numbers.                                   *)
(***************************************************************************)
LEMMA IdsAreNumbers ==
  ASSUME TypeOK, NEW w \in Workers, NEW n \in 1..Len(ids[w])
  PROVE  ids[w][n].time \in Nat /\ ids[w][n].seq \in Nat
<1>1. ids[w] \in Seq(Id)
  BY DEF TypeOK
<1>2. ids[w][n] \in Id
  BY <1>1
<1>3. QED
  BY <1>2 DEF Id

(***************************************************************************)
(* Handing out an id that lies ahead of all the others keeps them in order.     *)
(***************************************************************************)
LEMMA ReturnKeepsOrder ==
  ASSUME IdInv, NEW w \in Workers, NEW t \in Nat, NEW q \in 0..(SequenceLimit - 1),
         Return(w, t, q), sequence' = [sequence EXCEPT ![w] = q],
         waits' \in [Workers -> BOOLEAN], now' = now,
         \A v \in Workers \ {w} : waits'[v] = waits[v], ~waits'[w],
         \A n \in 1..Len(ids[w]) : Before(ids[w][n], [time |-> t, seq |-> q])
  PROVE  IdInv'
<1> DEFINE x == [time |-> t, seq |-> q]
<1>1. x \in Id /\ x.time = t /\ x.seq = q
  BY LimitAssumption DEF Id
<1>2. /\ ids' = [ids EXCEPT ![w] = Append(ids[w], x)]
      /\ lastTimestamp' = [lastTimestamp EXCEPT ![w] = t]
  BY DEF Return
<1>3. ids[w] \in Seq(Id)
  BY DEF IdInv, TypeOK
<1>4. /\ Len(ids'[w]) = Len(ids[w]) + 1
      /\ \A n \in 1..Len(ids[w]) : ids'[w][n] = ids[w][n]
      /\ ids'[w][Len(ids[w]) + 1] = x
      /\ ids'[w] \in Seq(Id)
  BY <1>1, <1>2, <1>3 DEF IdInv, TypeOK
<1>5. \A v \in Workers \ {w} :
        /\ ids'[v] = ids[v]
        /\ lastTimestamp'[v] = lastTimestamp[v]
        /\ sequence'[v] = sequence[v]
  BY <1>2 DEF IdInv, TypeOK
<1>6. TypeOK'
  BY <1>2, <1>4, <1>5 DEF IdInv, TypeOK
<1>7. IdsIncrease'
  <2>1. \A m, n \in 1..Len(ids'[w]) : m < n => Before(ids'[w][m], ids'[w][n])
    <3> SUFFICES ASSUME NEW m \in 1..Len(ids'[w]), NEW n \in 1..Len(ids'[w]), m < n
                 PROVE  Before(ids'[w][m], ids'[w][n])
      OBVIOUS
    <3>0. Len(ids[w]) \in Nat
      BY <1>3
    <3>1. m \in 1..Len(ids[w])
      BY <1>4, <3>0
    <3>2. CASE n \in 1..Len(ids[w])
      BY <1>4, <3>1, <3>2 DEF IdInv, IdsIncrease
    <3>3. CASE n = Len(ids[w]) + 1
      BY <1>4, <3>1, <3>3
    <3>4. QED
      BY <1>4, <3>0, <3>2, <3>3
  <2>2. QED
    BY <1>5, <2>1 DEF IdInv, IdsIncrease
<1>8. ASSUME NEW v \in Workers PROVE Behind(v)'
  <2>1. CASE v # w
    BY <1>5, <2>1 DEF IdInv, Behind
  <2>2. CASE v = w
    <3>1. lastTimestamp'[w] = t /\ sequence'[w] = q
      BY <1>2 DEF IdInv, TypeOK
    <3>2. \A n \in 1..Len(ids[w]) : ids[w][n].time \in Nat /\ ids[w][n].seq \in Nat
      BY IdsAreNumbers DEF IdInv
    <3>3. \A n \in 1..Len(ids[w]) :
            ids[w][n].time <= t /\ (ids[w][n].time = t => ids[w][n].seq <= q)
      BY <1>1, <3>2 DEF Before
    <3>4. Len(ids[w]) \in Nat
      BY <1>3
    <3>5. \A n \in 1..Len(ids'[w]) : n \in 1..Len(ids[w]) \/ n = Len(ids[w]) + 1
      BY <1>4, <3>4
    <3>6. QED
      BY <1>1, <1>4, <2>2, <3>1, <3>3, <3>5, LimitAssumption DEF Behind
  <2>3. QED
    BY <2>1, <2>2
<1>9. QED
  BY <1>6, <1>7, <1>8 DEF IdInv

LEMMA NextKeepsOrder == ASSUME IdInv, [Next]_vars PROVE IdInv'
<1>1. ASSUME NEW w \in Workers, NextIdNewTime(w) PROVE IdInv'
  <2>1. ASSUME NEW n \in 1..Len(ids[w])
        PROVE  Before(ids[w][n], [time |-> now[w], seq |-> 0])
    <3>1. ids[w][n].time \in Nat
      BY IdsAreNumbers DEF IdInv
    <3>2. ids[w][n].time <= lastTimestamp[w] /\ lastTimestamp[w] \in Nat
      BY DEF IdInv, TypeOK, Behind
    <3>3. now[w] \in Nat /\ lastTimestamp[w] < now[w]
      BY <1>1 DEF NextIdNewTime, IdInv, TypeOK
    <3>4. QED
      BY <3>1, <3>2, <3>3 DEF Before
  <2>2. ~waits[w] /\ now[w] \in Nat
    BY <1>1 DEF NextIdNewTime, Idle, IdInv, TypeOK
  <2>3. QED
    <3>1. /\ Return(w, now[w], 0)
          /\ sequence' = [sequence EXCEPT ![w] = 0]
          /\ now' = now /\ waits' = waits
      BY <1>1 DEF NextIdNewTime
    <3>2. 0 \in 0..(SequenceLimit - 1) /\ waits \in [Workers -> BOOLEAN]
      BY LimitAssumption DEF IdInv, TypeOK
    <3>3. QED
      BY <2>1, <2>2, <3>1, <3>2, ReturnKeepsOrder
<1>2. ASSUME NEW w \in Workers, NextIdSameTime(w) PROVE IdInv'
  <2> DEFINE q == (sequence[w] + 1) % SequenceLimit
  <2>1. sequence[w] \in 0..(SequenceLimit - 1) /\ now[w] \in Nat /\ ~waits[w]
    BY <1>2 DEF NextIdSameTime, Idle, IdInv, TypeOK
  <2>2. q \in 0..(SequenceLimit - 1) /\ (q # 0 => q = sequence[w] + 1)
    BY <2>1, LimitAssumption
  <2>3. CASE q # 0
    <3>1. Return(w, now[w], q) /\ UNCHANGED <<now, waits>>
          /\ sequence' = [sequence EXCEPT ![w] = q]
      BY <1>2, <2>3 DEF NextIdSameTime
    <3>2. now[w] = lastTimestamp[w]
      BY <1>2 DEF NextIdSameTime
    <3>3. ASSUME NEW n \in 1..Len(ids[w])
          PROVE  Before(ids[w][n], [time |-> now[w], seq |-> q])
      <4>1. ids[w][n].time \in Nat /\ ids[w][n].seq \in Nat
        BY IdsAreNumbers DEF IdInv
      <4>2. /\ ids[w][n].time <= now[w]
            /\ ids[w][n].time = now[w] => ids[w][n].seq <= sequence[w]
        BY <2>1, <3>2 DEF IdInv, Behind
      <4>3. sequence[w] < q
        BY <2>1, <2>2, <2>3
      <4>4. QED
        BY <2>1, <2>2, <4>1, <4>2, <4>3, LimitAssumption DEF Before
    <3>4. QED
      BY <2>1, <2>2, <3>1, <3>3, ReturnKeepsOrder DEF IdInv, TypeOK
  <2>4. CASE q = 0
    <3>1. /\ waits' = [waits EXCEPT ![w] = TRUE]
          /\ sequence' = [sequence EXCEPT ![w] = 0]
          /\ UNCHANGED <<now, lastTimestamp, ids>>
      BY <1>2, <2>4 DEF NextIdSameTime
    <3>2. TypeOK' /\ IdsIncrease'
      BY <3>1, LimitAssumption DEF IdInv, TypeOK, IdsIncrease
    <3>3. \A v \in Workers : Behind(v)'
      BY <3>1 DEF IdInv, TypeOK, Behind
    <3>4. QED
      BY <3>2, <3>3 DEF IdInv
  <2>5. QED
    BY <2>3, <2>4
<1>3. ASSUME NEW w \in Workers, TilNextMillis(w) PROVE IdInv'
  <2>1. ASSUME NEW n \in 1..Len(ids[w])
        PROVE  Before(ids[w][n], [time |-> now[w], seq |-> sequence[w]])
    <3>1. ids[w][n].time \in Nat
      BY IdsAreNumbers DEF IdInv
    <3>2. ids[w][n].time <= lastTimestamp[w] /\ lastTimestamp[w] \in Nat
      BY DEF IdInv, TypeOK, Behind
    <3>3. now[w] \in Nat /\ lastTimestamp[w] < now[w]
      BY <1>3 DEF TilNextMillis, IdInv, TypeOK
    <3>4. QED
      BY <3>1, <3>2, <3>3 DEF Before
  <2>2. /\ sequence[w] \in 0..(SequenceLimit - 1) /\ now[w] \in Nat
        /\ sequence' = [sequence EXCEPT ![w] = sequence[w]]
    BY <1>3 DEF TilNextMillis, IdInv, TypeOK
  <2>3. QED
    BY <1>3, <2>1, <2>2, ReturnKeepsOrder DEF TilNextMillis, IdInv, TypeOK
<1>4. ASSUME NEW w \in Workers, SetClock(w) PROVE IdInv'
  BY <1>4, BoundAssumption DEF SetClock, IdInv, TypeOK, IdsIncrease, Behind
<1>5. CASE UNCHANGED vars
  BY <1>5 DEF vars, IdInv, TypeOK, IdsIncrease, Behind
<1>6. QED
  BY <1>1, <1>2, <1>3, <1>4, <1>5 DEF Next

\* A process never hands out an id twice, whatever its clock does.
THEOREM IdsAreIncreasing == Spec => []IdsIncrease
<1>1. Init => IdInv
  BY LimitAssumption, BoundAssumption DEF Init, IdInv, TypeOK, IdsIncrease, Behind
<1>2. IdInv /\ [Next]_vars => IdInv'
  BY NextKeepsOrder
<1>3. IdInv => IdsIncrease
  BY DEF IdInv
<1>4. QED
  BY <1>1, <1>2, <1>3, PTL DEF Spec
=============================================================================
