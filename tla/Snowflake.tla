----------------------------- MODULE Snowflake -----------------------------
(***************************************************************************)
(* SnowflakeIdWorker: the id generator that names groups, units and RPC       *)
(* requests.  Each process has its own worker, all with workerId and           *)
(* datacenterId 0, so that an id is its time and its sequence number.  Clocks   *)
(* may step backwards; nextId is synchronized, and holds its lock while it      *)
(* waits for the next millisecond.                                              *)
(***************************************************************************)
EXTENDS Naturals, Sequences

CONSTANTS
  Workers,        \* processes
  SequenceLimit,  \* sequenceMask + 1, 4096 in the code
  MaxTime,        \* bound on the clocks, in milliseconds
  MaxIds          \* bound on the ids a worker hands out

ASSUME LimitAssumption == SequenceLimit \in Nat \ {0}

ASSUME BoundAssumption == MaxTime \in Nat /\ MaxIds \in Nat

VARIABLES
  now,            \* now[w]: System.currentTimeMillis of the process
  lastTimestamp,  \* lastTimestamp[w], 0 before the first id
  sequence,       \* sequence[w]
  waits,          \* waits[w]: a caller is in tilNextMillis
  ids             \* ids[w]: the ids handed out, oldest first

vars == <<now, lastTimestamp, sequence, waits, ids>>

Id == [time : Nat, seq : Nat]

TypeOK ==
  /\ now \in [Workers -> Nat]
  /\ lastTimestamp \in [Workers -> Nat]
  /\ sequence \in [Workers -> 0..(SequenceLimit - 1)]
  /\ waits \in [Workers -> BOOLEAN]
  /\ ids \in [Workers -> Seq(Id)]

\* Time 0 stands for the initial lastTimestamp, -1: the clocks start after it.
Init ==
  /\ now \in [Workers -> 1..MaxTime]
  /\ lastTimestamp = [w \in Workers |-> 0]
  /\ sequence = [w \in Workers |-> 0]
  /\ waits = [w \in Workers |-> FALSE]
  /\ ids = [w \in Workers |-> <<>>]

Return(w, t, q) ==
  /\ lastTimestamp' = [lastTimestamp EXCEPT ![w] = t]
  /\ ids' = [ids EXCEPT ![w] = Append(@, [time |-> t, seq |-> q])]

Idle(w) == ~waits[w] /\ Len(ids[w]) < MaxIds

\* variant: a clock behind lastTimestamp counts as a new time
NextIdAnyTime(w) ==
  /\ Idle(w)
  /\ now[w] # lastTimestamp[w]
  /\ sequence' = [sequence EXCEPT ![w] = 0]
  /\ Return(w, now[w], 0)
  /\ UNCHANGED <<now, waits>>

\* The first call of a millisecond starts its sequence anew.
NextIdNewTime(w) ==
  /\ Idle(w)
  /\ now[w] > lastTimestamp[w]
  /\ sequence' = [sequence EXCEPT ![w] = 0]
  /\ Return(w, now[w], 0)
  /\ UNCHANGED <<now, waits>>

\* variant: the sequence is not masked
NextIdUnmasked(w) ==
  /\ Idle(w)
  /\ now[w] = lastTimestamp[w]
  /\ sequence' = [sequence EXCEPT ![w] = @ + 1]
  /\ Return(w, now[w], sequence[w] + 1)
  /\ UNCHANGED <<now, waits>>

\* A later call counts on; when the sequence overflows it waits.
NextIdSameTime(w) ==
  /\ Idle(w)
  /\ now[w] = lastTimestamp[w]
  /\ LET q == (sequence[w] + 1) % SequenceLimit
     IN  /\ sequence' = [sequence EXCEPT ![w] = q]
         /\ \/ /\ q # 0
               /\ Return(w, now[w], q)
               /\ UNCHANGED waits
            \/ /\ q = 0
               /\ waits' = [waits EXCEPT ![w] = TRUE]
               /\ UNCHANGED <<lastTimestamp, ids>>
  /\ UNCHANGED now

TilNextMillis(w) ==
  /\ waits[w]
  /\ now[w] > lastTimestamp[w]
  /\ waits' = [waits EXCEPT ![w] = FALSE]
  /\ Return(w, now[w], sequence[w])
  /\ UNCHANGED <<now, sequence>>

\* The clock of a process is set, forwards as a rule.  While it is behind
\* lastTimestamp, nextId throws and changes nothing.
SetClock(w) ==
  /\ \E t \in 1..MaxTime : now' = [now EXCEPT ![w] = t]
  /\ UNCHANGED <<lastTimestamp, sequence, waits, ids>>

Next ==
  \E w \in Workers :
    NextIdNewTime(w) \/ NextIdSameTime(w) \/ TilNextMillis(w) \/ SetClock(w)

Spec == Init /\ [][Next]_vars

-----------------------------------------------------------------------------
Before(x, y) == x.time < y.time \/ (x.time = y.time /\ x.seq < y.seq)

(***************************************************************************)
(* The ids of one process strictly increase, over sequence overflows and        *)
(* backward clocks: no process hands out an id twice (nextId).                  *)
(***************************************************************************)
IdsIncrease ==
  \A w \in Workers : \A m, n \in 1..Len(ids[w]) : m < n => Before(ids[w][m], ids[w][n])
=============================================================================
