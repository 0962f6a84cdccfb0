------------------------ MODULE ThreadContext_proofs ------------------------
(***************************************************************************)
(* Theorems about ThreadContext, for any number of threads and contexts and   *)
(* whatever applications do: its types, and that a context is confined to one  *)
(* thread.  A new context exists in no thread yet, because every context in     *)
(* use exists (UsedExist); every other step only moves contexts within a        *)
(* thread or drops them.  Then, as long as applications keep to what each        *)
(* property names: work is done for the caller, a notification is the last of     *)
(* its group, and ordinary ends leave a clean pool.                              *)
(***************************************************************************)
EXTENDS ThreadContext, WellFoundedInduction, TLAPS

\* The last element of a non-empty sequence is one of its elements.
LEMMA InnerIsContext ==
  ASSUME TypeOK, NEW w \in Threads, frames[w] # <<>>
  PROVE  /\ Len(frames[w]) \in 1..Len(frames[w])
         /\ Inner(w) \in Contexts
         /\ Inner(w) = frames[w][Len(frames[w])]
BY DEF TypeOK, Inner

\* What a thread's stack holds after a pop was there before.
LEMMA PopHolds ==
  ASSUME TypeOK, NEW w \in Threads, frames[w] # <<>>,
         NEW s, s = SubSeq(frames[w], 1, Len(frames[w]) - 1)
  PROVE  /\ s \in Seq(Contexts)
         /\ \A n \in 1..Len(s) : n \in 1..Len(frames[w]) /\ s[n] = frames[w][n]
BY DEF TypeOK

\* A push adds one element.
LEMMA PushHolds ==
  ASSUME TypeOK, NEW w \in Threads, NEW c \in Contexts,
         NEW s, s = Append(frames[w], c)
  PROVE  /\ s \in Seq(Contexts)
         /\ \A n \in 1..Len(s) : s[n] = c \/ (n \in 1..Len(frames[w]) /\ s[n] = frames[w][n])
BY DEF TypeOK

LEMMA NewKeepsTypes ==
  ASSUME TypeOK, NEW w \in Threads, NEW c \in Contexts, NEW g \in Contexts \cup {None},
         NEW state \in {"create", "join"}, NewContext(w, c, g, state)
  PROVE  /\ groupOf' \in [Contexts -> Contexts \cup {None}]
         /\ phase' \in [Contexts -> {"none", "create", "join", "notify"}]
         /\ current' \in [Threads -> Contexts \cup {None}]
BY DEF NewContext, TypeOK

LEMMA ServeKeepsTypes ==
  ASSUME TypeOK, NEW w \in Threads, NEW g \in Contexts \cup {None},
         NEW v \in Threads \cup {None}, Serve(w, g, v)
  PROVE  TypeOK'
<1>1. /\ groupOf' \in [Contexts -> Contexts \cup {None}]
      /\ phase' \in [Contexts -> {"none", "create", "join", "notify"}]
      /\ current' \in [Threads -> Contexts \cup {None}]
  BY NewKeepsTypes DEF Serve, TypeOK
<1>2. QED
  BY <1>1 DEF Serve, TypeOK

\* Every variable keeps its type.
THEOREM ContextTypeCorrect == Spec => []TypeOK
<1>1. Init => TypeOK
  BY DEF Init, TypeOK
<1>2. TypeOK /\ [Next]_vars => TypeOK'
  <2>1. ASSUME TypeOK, NEW w \in Threads, UserRequest(w) PROVE TypeOK'
    BY <2>1, ServeKeepsTypes DEF UserRequest
  <2>2. ASSUME TypeOK, NEW w \in Threads, NEW v \in Threads, RemoteCall(v, w) PROVE TypeOK'
    <3>1. groupOf[current[v]] \in Contexts \cup {None}
      BY <2>2 DEF RemoteCall, Header, TypeOK
    <3>2. QED
      BY <2>2, <3>1, ServeKeepsTypes DEF RemoteCall, Header
  <2>3. ASSUME TypeOK, NEW w \in Threads, RunTransaction(w) PROVE TypeOK'
    <3>1. PICK c \in Contexts : frames' = [frames EXCEPT ![w] = Append(frames[w], c)]
      BY <2>3 DEF RunTransaction, NewContext, TypeOK
    <3>2. frames' \in [Threads -> Seq(Contexts)]
      BY <2>3, <3>1, PushHolds DEF TypeOK
    <3>3. /\ groupOf' \in [Contexts -> Contexts \cup {None}]
          /\ phase' \in [Contexts -> {"none", "create", "join", "notify"}]
          /\ current' \in [Threads -> Contexts \cup {None}]
      BY <2>3, NewKeepsTypes DEF RunTransaction, TypeOK
    <3>4. shown' \in SUBSET Habits
      BY <2>3 DEF RunTransaction, Enter, Show, Habits, TypeOK
    <3>5. QED
      BY <2>3, <3>2, <3>3, <3>4 DEF RunTransaction, TypeOK, requestVars
  <2>4. ASSUME TypeOK, NEW w \in Threads, EndTransaction(w) PROVE TypeOK'
    <3>1. SubSeq(frames[w], 1, Len(frames[w]) - 1) \in Seq(Contexts)
      BY <2>4, PopHolds DEF EndTransaction
    <3>2. frames' \in [Threads -> Seq(Contexts)]
      BY <2>4, <3>1 DEF EndTransaction, TypeOK
    <3>3. Inner(w) \in Contexts
      BY <2>4, InnerIsContext DEF EndTransaction
    <3>4. shown' \in SUBSET Habits
      BY <2>4 DEF EndTransaction, Show, Habits, TypeOK
    <3>5. QED
      BY <2>4, <3>2, <3>3, <3>4 DEF EndTransaction, TypeOK, requestVars
  <2>5. ASSUME TypeOK, NEW w \in Threads, Respond(w) PROVE TypeOK'
    <3>1. shown' \in SUBSET Habits
      BY <2>5 DEF Respond, Show, Habits, TypeOK
    <3>2. QED
      BY <2>5, <3>1 DEF Respond, TypeOK
  <2>6. ASSUME TypeOK, NEW w \in Threads, GiveUp(w) PROVE TypeOK'
    BY <2>6 DEF GiveUp, TypeOK
  <2>7. ASSUME TypeOK, UNCHANGED vars PROVE TypeOK'
    BY <2>7 DEF TypeOK, vars, requestVars
  <2>8. QED
    BY <2>1, <2>2, <2>3, <2>4, <2>5, <2>6, <2>7 DEF Next
<1>3. QED
  BY <1>1, <1>2, PTL DEF Spec

-----------------------------------------------------------------------------
UsedExist == \A w \in Threads, c \in Contexts : Uses(w, c) => groupOf[c] # None

Confined == UsedExist /\ ContextsAreConfined

\* A step that makes one unused context c, used at most by w afterwards, and lets
\* every thread use nothing else it did not use before.
LEMMA NewContextIsConfined ==
  ASSUME Confined, NEW w \in Threads, NEW c \in Contexts, groupOf[c] = None,
         \A d \in Contexts : groupOf[d] # None => groupOf'[d] # None,
         groupOf'[c] # None,
         \A v \in Threads, d \in Contexts :
           Uses(v, d)' => Uses(v, d) \/ (v = w /\ d = c)
  PROVE  Confined'
<1>1. \A v \in Threads : ~Uses(v, c)
  BY DEF Confined, UsedExist
<1>2. UsedExist'
  BY DEF Confined, UsedExist
<1>3. ContextsAreConfined'
  BY <1>1 DEF Confined, ContextsAreConfined
<1>4. QED
  BY <1>2, <1>3 DEF Confined

\* A step that creates no context and lets no thread use more than before.
LEMMA DroppingIsConfined ==
  ASSUME Confined, groupOf' = groupOf,
         \A v \in Threads, d \in Contexts : Uses(v, d)' => Uses(v, d)
  PROVE  Confined'
<1>1. UsedExist'
  BY DEF Confined, UsedExist
<1>2. ContextsAreConfined'
  BY DEF Confined, ContextsAreConfined
<1>3. QED
  BY <1>1, <1>2 DEF Confined

LEMMA ServeIsConfined ==
  ASSUME TypeOK, Confined, NEW w \in Threads, NEW g, NEW v, Serve(w, g, v),
         g \in Contexts \cup {None}
  PROVE  Confined'
<1>1. CASE g # None /\ \E c \in Contexts : NewContext(w, c, g, "join")
  <2>1. PICK c \in Contexts : NewContext(w, c, g, "join")
    BY <1>1
  <2>2. \A t \in Threads, d \in Contexts : Uses(t, d)' => Uses(t, d) \/ (t = w /\ d = c)
    BY <2>1 DEF Serve, NewContext, Uses, TypeOK
  <2>3. /\ groupOf[c] = None
        /\ groupOf'[c] # None
        /\ \A d \in Contexts : groupOf[d] # None => groupOf'[d] # None
    BY <1>1, <2>1 DEF NewContext, TypeOK
  <2>4. QED
    BY <2>2, <2>3, NewContextIsConfined
<1>2. CASE UNCHANGED <<groupOf, phase, current>>
  <2>1. \A t \in Threads, d \in Contexts : Uses(t, d)' => Uses(t, d)
    BY <1>2 DEF Serve, Uses
  <2>2. QED
    BY <1>2, <2>1, DroppingIsConfined
<1>3. QED
  BY <1>1, <1>2 DEF Serve

LEMMA RunIsConfined ==
  ASSUME TypeOK, Confined, NEW w \in Threads, RunTransaction(w)
  PROVE  Confined'
<1>1. CASE /\ current[w] # None
           /\ frames' = [frames EXCEPT ![w] = Append(frames[w], current[w])]
           /\ UNCHANGED <<groupOf, phase, current>>
  <2>1. current[w] \in Contexts
    BY <1>1 DEF TypeOK
  <2>2. frames'[w] = Append(frames[w], current[w])
    BY <1>1 DEF TypeOK
  <2>3. \A t \in Threads, d \in Contexts : Uses(t, d)' => Uses(t, d)
    BY <1>1, <2>1, <2>2, PushHolds DEF Uses, TypeOK
  <2>4. QED
    BY <1>1, <2>3, DroppingIsConfined
<1>2. CASE \E c \in Contexts : /\ NewContext(w, c, c, "create")
                               /\ frames' = [frames EXCEPT ![w] = Append(frames[w], c)]
  <2>1. PICK c \in Contexts : /\ NewContext(w, c, c, "create")
                              /\ frames' = [frames EXCEPT ![w] = Append(frames[w], c)]
    BY <1>2
  <2>2. frames'[w] = Append(frames[w], c)
    BY <2>1 DEF TypeOK
  <2>3. \A t \in Threads, d \in Contexts : Uses(t, d)' => Uses(t, d) \/ (t = w /\ d = c)
    BY <2>1, <2>2, PushHolds DEF NewContext, Uses, TypeOK
  <2>4. /\ groupOf[c] = None
        /\ groupOf'[c] # None
        /\ \A d \in Contexts : groupOf[d] # None => groupOf'[d] # None
    BY <2>1, ContextAssumption DEF NewContext, TypeOK
  <2>5. QED
    BY <2>3, <2>4, NewContextIsConfined
<1>3. QED
  BY <1>1, <1>2 DEF RunTransaction

LEMMA EndIsConfined ==
  ASSUME TypeOK, Confined, NEW w \in Threads, EndTransaction(w)
  PROVE  Confined'
<1>1. frames'[w] = SubSeq(frames[w], 1, Len(frames[w]) - 1)
  BY DEF EndTransaction, TypeOK
<1>2. frames[w] # <<>> /\ groupOf' = groupOf
  BY DEF EndTransaction
<1>3. \A n \in 1..Len(frames'[w]) : n \in 1..Len(frames[w]) /\ frames'[w][n] = frames[w][n]
  BY <1>1, <1>2, PopHolds
<1>4. \A t \in Threads : t # w => frames'[t] = frames[t]
  BY DEF EndTransaction, TypeOK
<1>5. \A t \in Threads : current'[t] \in {current[t], None}
  BY DEF EndTransaction, TypeOK
<1>6. \A t \in Threads, d \in Contexts : Uses(t, d)' => Uses(t, d)
  BY <1>3, <1>4, <1>5, ContextAssumption DEF Uses
<1>7. QED
  BY <1>2, <1>6, DroppingIsConfined

LEMMA ConfinedInvariant == Spec => [](TypeOK /\ Confined)
<1>1. Init => Confined
  BY ContextAssumption DEF Init, Confined, UsedExist, ContextsAreConfined, Uses
<1>2. TypeOK /\ Confined /\ [Next]_vars => Confined'
  <2>1. ASSUME TypeOK, Confined, NEW w \in Threads, UserRequest(w) PROVE Confined'
    BY <2>1, ServeIsConfined DEF UserRequest
  <2>2. ASSUME TypeOK, Confined, NEW w \in Threads, NEW v \in Threads, RemoteCall(v, w)
        PROVE  Confined'
    <3>1. groupOf[current[v]] \in Contexts \cup {None}
      BY <2>2 DEF RemoteCall, Header, TypeOK
    <3>2. QED
      BY <2>2, <3>1, ServeIsConfined DEF RemoteCall, Header
  <2>3. ASSUME TypeOK, Confined, NEW w \in Threads, Respond(w) PROVE Confined'
    <3>1. \A t \in Threads, d \in Contexts : Uses(t, d)' => Uses(t, d)
      BY <2>3 DEF Respond, Uses
    <3>2. QED
      BY <2>3, <3>1, DroppingIsConfined DEF Respond
  <2>4. ASSUME Confined, UNCHANGED vars PROVE Confined'
    <3>1. \A t \in Threads, d \in Contexts : Uses(t, d)' => Uses(t, d)
      BY <2>4 DEF vars, Uses
    <3>2. QED
      BY <2>4, <3>1, DroppingIsConfined DEF vars
  <2>5. ASSUME Confined, NEW w \in Threads, GiveUp(w) PROVE Confined'
    <3>1. \A t \in Threads, d \in Contexts : Uses(t, d)' => Uses(t, d)
      BY <2>5 DEF GiveUp, Uses
    <3>2. QED
      BY <2>5, <3>1, DroppingIsConfined DEF GiveUp
  <2>6. QED
    BY <2>1, <2>2, <2>3, <2>4, <2>5, RunIsConfined, EndIsConfined DEF Next
<1>3. QED
  BY <1>1, <1>2, ContextTypeCorrect, PTL DEF Spec

\* A context is used by one thread only, whatever applications do.
THEOREM Confinement == Spec => []ContextsAreConfined
<1>1. Confined => ContextsAreConfined
  BY DEF Confined
<1>2. QED
  BY <1>1, ConfinedInvariant, PTL
-----------------------------------------------------------------------------
(***************************************************************************)
(* The life of a request, whatever applications do: a pooled thread runs        *)
(* nothing, nor does one whose request has run no transaction yet, and a caller   *)
(* is busy while it waits.                                                        *)
(***************************************************************************)
PooledRunNothing == \A w \in Threads : w \notin busy => frames[w] = <<>>

NotRunYet == \A w \in busy : ~ran[w] => frames[w] = <<>>

CallersWait == \A w \in busy : caller[w] # None => caller[w] \in busy

NotifiedExist == \A c \in notified : groupOf[c] # None

RequestInv == PooledRunNothing /\ NotRunYet /\ CallersWait /\ NotifiedExist

(***************************************************************************)
(* What an action does to the threads, said once for the proofs below.          *)
(***************************************************************************)
LEMMA Served ==
  ASSUME TypeOK, NEW w \in Threads, NEW g, NEW v, Serve(w, g, v)
  PROVE  /\ w \notin busy /\ busy' = busy \cup {w}
         /\ header'[w] = g /\ caller'[w] = v /\ ~ran'[w]
         /\ \A t \in Threads \ {w} :
              /\ header'[t] = header[t] /\ caller'[t] = caller[t]
              /\ ran'[t] = ran[t] /\ current'[t] = current[t]
         /\ UNCHANGED <<frames, notified, shown>>
         /\ \A c \in Contexts : groupOf[c] # None => groupOf'[c] = groupOf[c]
         /\ \/ /\ g # None /\ current[w] = None
               /\ current'[w] \in Contexts
               /\ groupOf[current'[w]] = None
               /\ groupOf'[current'[w]] = g
            \/ /\ g = None \/ current[w] # None
               /\ UNCHANGED <<groupOf, current>>
<1>1. CASE g # None /\ current[w] = None /\ \E c \in Contexts : NewContext(w, c, g, "join")
  <2>1. PICK c \in Contexts : NewContext(w, c, g, "join")
    BY <1>1
  <2>2. current'[w] = c /\ groupOf[c] = None /\ groupOf'[c] = g
    BY <2>1 DEF NewContext, TypeOK
  <2>3. QED
    BY <1>1, <2>1, <2>2 DEF Serve, NewContext, TypeOK
<1>2. CASE (g = None \/ current[w] # None) /\ UNCHANGED <<groupOf, phase, current>>
  BY <1>2 DEF Serve, TypeOK
<1>3. QED
  BY <1>1, <1>2 DEF Serve

LEMMA Entered ==
  ASSUME TypeOK, NEW w \in Threads, RunTransaction(w)
  PROVE  /\ w \in busy /\ Running(w)
         /\ ran'[w] /\ current'[w] \in Contexts
         /\ frames'[w] = Append(frames[w], current'[w])
         /\ \A t \in Threads \ {w} :
              ran'[t] = ran[t] /\ frames'[t] = frames[t] /\ current'[t] = current[t]
         /\ UNCHANGED <<requestVars, notified>>
         /\ \A c \in Contexts : groupOf[c] # None => groupOf'[c] = groupOf[c]
         /\ \/ current[w] # None /\ current' = current /\ groupOf' = groupOf
            \/ /\ current[w] = None
               /\ groupOf[current'[w]] = None
               /\ groupOf'[current'[w]] = current'[w]
         /\ shown \subseteq shown'
         /\ \/ frames[w] # <<>> /\ "nested" \in shown'
            \/ frames[w] = <<>> /\ ran[w] /\ "repeated" \in shown'
            \/ frames[w] = <<>> /\ ~ran[w]
<1>1. /\ w \in busy /\ Running(w)
      /\ ran'[w] /\ \A t \in Threads \ {w} : ran'[t] = ran[t]
      /\ UNCHANGED <<requestVars, notified>>
      /\ shown \subseteq shown'
      /\ \/ frames[w] # <<>> /\ "nested" \in shown'
         \/ frames[w] = <<>> /\ ran[w] /\ "repeated" \in shown'
         \/ frames[w] = <<>> /\ ~ran[w]
  BY DEF RunTransaction, Running, Enter, Show, TypeOK
<1>2. CASE /\ current[w] # None
           /\ frames' = [frames EXCEPT ![w] = Append(frames[w], current[w])]
           /\ UNCHANGED <<groupOf, phase, current>>
  <2>1. /\ current'[w] \in Contexts
        /\ frames'[w] = Append(frames[w], current'[w])
        /\ \A t \in Threads \ {w} : frames'[t] = frames[t]
    BY <1>2 DEF TypeOK
  <2>2. QED
    BY <1>1, <1>2, <2>1
<1>3. CASE /\ current[w] = None
           /\ \E c \in Contexts : /\ NewContext(w, c, c, "create")
                                  /\ frames' = [frames EXCEPT ![w] = Append(frames[w], c)]
  <2>1. PICK c \in Contexts : /\ NewContext(w, c, c, "create")
                              /\ frames' = [frames EXCEPT ![w] = Append(frames[w], c)]
    BY <1>3
  <2>2. /\ current'[w] = c /\ groupOf[c] = None /\ groupOf'[c] = c
        /\ \A d \in Contexts : groupOf[d] # None => groupOf'[d] = groupOf[d]
        /\ \A t \in Threads \ {w} : current'[t] = current[t]
    BY <2>1 DEF NewContext, TypeOK
  <2>3. /\ frames'[w] = Append(frames[w], c)
        /\ \A t \in Threads \ {w} : frames'[t] = frames[t]
    BY <2>1 DEF TypeOK
  <2>4. QED
    BY <1>1, <1>3, <2>2, <2>3
<1>4. QED
  BY <1>2, <1>3 DEF RunTransaction

LEMMA Ended ==
  ASSUME TypeOK, NEW w \in Threads, EndTransaction(w)
  PROVE  /\ w \in busy /\ Running(w) /\ frames[w] # <<>> /\ Inner(w) \in Contexts
         /\ frames'[w] = SubSeq(frames[w], 1, Len(frames[w]) - 1)
         /\ Len(frames[w]) = 1 => frames'[w] = <<>> /\ Inner(w) = frames[w][1]
         /\ \A t \in Threads \ {w} : frames'[t] = frames[t] /\ current'[t] = current[t]
         /\ UNCHANGED <<requestVars, ran, groupOf>>
         /\ notified' = IF groupOf[Inner(w)] = Inner(w) THEN notified \cup {Inner(w)} ELSE notified
         /\ shown \subseteq shown'
         /\ current'[w] = None \/ "endFails" \in shown'
<1>1. Inner(w) \in Contexts
  BY InnerIsContext DEF EndTransaction
<1>2. /\ frames'[w] = SubSeq(frames[w], 1, Len(frames[w]) - 1)
      /\ \A t \in Threads \ {w} : frames'[t] = frames[t]
  BY DEF EndTransaction, TypeOK
<1>3. frames[w] \in Seq(Contexts)
  BY DEF TypeOK
<1>4. Len(frames[w]) = 1 => frames'[w] = <<>> /\ Inner(w) = frames[w][1]
  BY <1>2, <1>3 DEF Inner
<1>5. /\ \A t \in Threads \ {w} : current'[t] = current[t]
      /\ current'[w] = None \/ "endFails" \in shown'
      /\ shown \subseteq shown'
  BY DEF EndTransaction, Show, TypeOK
<1>6. QED
  BY <1>1, <1>2, <1>4, <1>5 DEF EndTransaction, Running

LEMMA Responded ==
  ASSUME TypeOK, NEW w \in Threads, Respond(w)
  PROVE  /\ w \in busy /\ Running(w) /\ frames[w] = <<>> /\ busy' = busy \ {w}
         /\ \A t \in Threads \ {w} : header'[t] = header[t] /\ caller'[t] = caller[t]
         /\ UNCHANGED <<current, frames, ran, groupOf, notified>>
         /\ shown \subseteq shown'
         /\ ran[w] \/ "plain" \in shown'
BY DEF Respond, Running, Show, TypeOK

LEMMA GivenUp ==
  ASSUME TypeOK, NEW w \in Threads, GiveUp(w)
  PROVE  /\ w \in busy /\ caller'[w] = None
         /\ \A t \in Threads \ {w} : caller'[t] = caller[t]
         /\ UNCHANGED <<busy, header, current, frames, ran, groupOf, notified, shown>>
BY DEF GiveUp, TypeOK

\* A request is a user's, or the call of a busy thread that has a context.
LEMMA Requested ==
  ASSUME TypeOK, NEW w \in Threads, UserRequest(w) \/ \E v \in Threads : RemoteCall(v, w)
  PROVE  \E g \in Contexts \cup {None}, v \in Threads \cup {None} :
           /\ Serve(w, g, v)
           /\ v = None => g = None
           /\ v # None => /\ v \in busy /\ Running(v)
                          /\ current[v] \in Contexts
                          /\ g = groupOf[current[v]]
<1>1. CASE UserRequest(w)
  BY <1>1 DEF UserRequest
<1>2. ASSUME NEW v \in Threads, RemoteCall(v, w)
      PROVE  /\ Serve(w, groupOf[current[v]], v) /\ Running(v) /\ v \in busy
             /\ current[v] \in Contexts
             /\ groupOf[current[v]] \in Contexts \cup {None}
  BY <1>2 DEF RemoteCall, Running, Header, TypeOK
<1>3. QED
  BY <1>1, <1>2, ContextAssumption

LEMMA RequestInvariant == Spec => [](TypeOK /\ Confined /\ RequestInv)
<1>1. Init => RequestInv
  BY DEF Init, RequestInv, PooledRunNothing, NotRunYet, CallersWait, NotifiedExist
<1>2. TypeOK /\ RequestInv /\ [Next]_vars => RequestInv'
  <2> SUFFICES ASSUME TypeOK, RequestInv, [Next]_vars PROVE RequestInv'
    OBVIOUS
  <2> USE DEF RequestInv, PooledRunNothing, NotRunYet, CallersWait, NotifiedExist
  <2>1. ASSUME NEW w \in Threads, UserRequest(w) \/ \E v \in Threads : RemoteCall(v, w)
        PROVE  RequestInv'
    <3>1. PICK g \in Contexts \cup {None}, v \in Threads \cup {None} :
             /\ Serve(w, g, v)
             /\ v # None => v \in busy
      BY <2>1, Requested
    <3>2. /\ w \notin busy /\ busy' = busy \cup {w} /\ caller'[w] = v /\ ~ran'[w]
          /\ \A t \in Threads \ {w} : caller'[t] = caller[t] /\ ran'[t] = ran[t]
          /\ UNCHANGED <<frames, notified>>
          /\ \A c \in Contexts : groupOf[c] # None => groupOf'[c] = groupOf[c]
      BY <3>1, Served
    <3>3. PooledRunNothing' /\ NotRunYet' /\ CallersWait'
      BY <3>1, <3>2 DEF TypeOK
    <3>4. NotifiedExist'
      BY <3>2 DEF TypeOK
    <3>5. QED
      BY <3>3, <3>4
  <2>2. ASSUME NEW w \in Threads, RunTransaction(w) PROVE RequestInv'
    <3>1. /\ w \in busy /\ ran'[w] /\ UNCHANGED <<busy, caller, notified>>
          /\ \A t \in Threads \ {w} : ran'[t] = ran[t] /\ frames'[t] = frames[t]
          /\ \A c \in Contexts : groupOf[c] # None => groupOf'[c] = groupOf[c]
      BY <2>2, Entered DEF requestVars
    <3>2. PooledRunNothing' /\ NotRunYet' /\ CallersWait'
      BY <3>1 DEF TypeOK
    <3>3. NotifiedExist'
      BY <3>1 DEF TypeOK
    <3>4. QED
      BY <3>2, <3>3
  <2>3. ASSUME NEW w \in Threads, EndTransaction(w) PROVE RequestInv'
    <3>1. /\ busy' = busy /\ caller' = caller /\ ran' = ran /\ groupOf' = groupOf
          /\ w \in busy /\ frames[w] # <<>> /\ Inner(w) \in Contexts
          /\ \A t \in Threads \ {w} : frames'[t] = frames[t]
          /\ notified' = IF groupOf[Inner(w)] = Inner(w) THEN notified \cup {Inner(w)}
                         ELSE notified
      BY <2>3, Ended DEF requestVars
    <3>2. PooledRunNothing' /\ NotRunYet' /\ CallersWait'
      BY <3>1 DEF TypeOK
    <3>3. NotifiedExist'
      BY <3>1, ContextAssumption
    <3>4. QED
      BY <3>2, <3>3
  <2>4. ASSUME NEW w \in Threads, Respond(w) PROVE RequestInv'
    BY <2>4, Responded DEF Running, TypeOK
  <2>5. ASSUME NEW w \in Threads, GiveUp(w) PROVE RequestInv'
    BY <2>5, GivenUp DEF TypeOK
  <2>6. CASE UNCHANGED vars
    BY <2>6 DEF vars, requestVars
  <2>7. QED
    BY <2>1, <2>2, <2>3, <2>4, <2>5, <2>6 DEF Next
<1>3. QED
  BY <1>1, <1>2, ConfinedInvariant, PTL DEF Spec

-----------------------------------------------------------------------------
(***************************************************************************)
(* While ends do not throw and requests run a transaction: a thread whose       *)
(* transactions are over has no context, and takes none back to its pool.         *)
(***************************************************************************)
OrdinaryEndsClear ==
  shown \subseteq {"nested", "repeated"} =>
    /\ \A w \in Threads : w \notin busy => current[w] = None
    /\ \A w \in busy : (ran[w] /\ frames[w] = <<>>) => current[w] = None

LEMMA ClearInvariant == Spec => [](TypeOK /\ Confined /\ RequestInv /\ OrdinaryEndsClear)
<1>1. Init => OrdinaryEndsClear
  BY DEF Init, OrdinaryEndsClear
<1>2. TypeOK /\ RequestInv /\ OrdinaryEndsClear /\ [Next]_vars => OrdinaryEndsClear'
  <2> SUFFICES ASSUME TypeOK, RequestInv, OrdinaryEndsClear, [Next]_vars,
                      shown' \subseteq {"nested", "repeated"}
               PROVE  /\ \A w \in Threads : w \notin busy' => current'[w] = None
                      /\ \A w \in busy' : (ran'[w] /\ frames'[w] = <<>>) => current'[w] = None
    BY DEF OrdinaryEndsClear
  <2> DEFINE Clear ==
        /\ \A w \in Threads : w \notin busy => current[w] = None
        /\ \A w \in busy : (ran[w] /\ frames[w] = <<>>) => current[w] = None
  <2>1. ASSUME NEW w \in Threads, UserRequest(w) \/ \E v \in Threads : RemoteCall(v, w)
        PROVE  Clear'
    <3>1. PICK g \in Contexts \cup {None}, v \in Threads \cup {None} : Serve(w, g, v)
      BY <2>1, Requested
    <3>2. /\ busy' = busy \cup {w} /\ ~ran'[w] /\ UNCHANGED <<frames, shown>>
          /\ \A t \in Threads \ {w} : ran'[t] = ran[t] /\ current'[t] = current[t]
      BY <3>1, Served
    <3>3. QED
      BY <3>2 DEF OrdinaryEndsClear, TypeOK
  <2>2. ASSUME NEW w \in Threads, RunTransaction(w) PROVE Clear'
    <3>1. /\ w \in busy /\ busy' = busy /\ shown \subseteq shown'
          /\ frames'[w] = Append(frames[w], current'[w])
          /\ \A t \in Threads \ {w} :
               ran'[t] = ran[t] /\ frames'[t] = frames[t] /\ current'[t] = current[t]
      BY <2>2, Entered DEF requestVars
    <3>2. frames[w] \in Seq(Contexts) /\ current'[w] \in Contexts
      BY <2>2, Entered DEF TypeOK
    <3>3. frames'[w] # <<>>
      BY <3>1, <3>2
    <3>4. QED
      BY <3>1, <3>3 DEF OrdinaryEndsClear, TypeOK
  <2>3. ASSUME NEW w \in Threads, EndTransaction(w) PROVE Clear'
    BY <2>3, Ended DEF OrdinaryEndsClear, requestVars, TypeOK
  <2>4. ASSUME NEW w \in Threads, Respond(w) PROVE Clear'
    BY <2>4, Responded DEF OrdinaryEndsClear, TypeOK
  <2>5. ASSUME NEW w \in Threads, GiveUp(w) PROVE Clear'
    BY <2>5, GivenUp DEF OrdinaryEndsClear
  <2>6. CASE UNCHANGED vars
    BY <2>6 DEF vars, requestVars, OrdinaryEndsClear
  <2>7. QED
    BY <2>1, <2>2, <2>3, <2>4, <2>5, <2>6 DEF Next
<1>3. QED
  BY <1>1, <1>2, RequestInvariant, PTL DEF Spec

\* Requests that nest transactions or run several leave a pooled thread no context.
THEOREM CleanPool == Spec => []CleanAfterOrdinaryEnds
<1>1. OrdinaryEndsClear => CleanAfterOrdinaryEnds
  BY DEF OrdinaryEndsClear, CleanAfterOrdinaryEnds
<1>2. QED
  BY <1>1, ClearInvariant, PTL

-----------------------------------------------------------------------------
(***************************************************************************)
(* One transaction per request: the context the interceptor made waits for it,   *)
(* and the transaction takes that one.                                            *)
(***************************************************************************)
ServesHeader ==
  shown = {} =>
    \A w \in busy : header[w] # None =>
      /\ ~ran[w] => current[w] # None /\ groupOf[current[w]] = header[w]
      /\ frames[w] # <<>> => Len(frames[w]) = 1 /\ groupOf[frames[w][1]] = header[w]

\* A transaction that serves a call of a group runs in that group.
THEOREM WorkIsForCaller == Spec => []WorksForCaller
<1>1. Init => ServesHeader
  BY DEF Init, ServesHeader
<1>2. TypeOK /\ Confined /\ RequestInv /\ OrdinaryEndsClear /\ ServesHeader /\ [Next]_vars
        => ServesHeader'
  <2> SUFFICES ASSUME TypeOK, Confined, RequestInv, OrdinaryEndsClear, ServesHeader, [Next]_vars,
                      shown' = {}, NEW t \in busy', header'[t] # None
               PROVE  /\ ~ran'[t] => current'[t] # None /\ groupOf'[current'[t]] = header'[t]
                      /\ frames'[t] # <<>> =>
                           Len(frames'[t]) = 1 /\ groupOf'[frames'[t][1]] = header'[t]
    BY DEF ServesHeader
  <2> DEFINE Serves ==
        /\ ~ran[t] => current[t] # None /\ groupOf[current[t]] = header[t]
        /\ frames[t] # <<>> => Len(frames[t]) = 1 /\ groupOf[frames[t][1]] = header[t]
  <2>0. /\ t \in busy /\ header[t] # None /\ shown = {} => Serves
        /\ t \in Threads /\ frames[t] \in Seq(Contexts)
        /\ Len(frames[t]) = 1 => frames[t][1] \in Contexts
        /\ current[t] \in Contexts \cup {None}
        /\ t \notin busy => frames[t] = <<>>
        /\ t \notin busy /\ shown = {} => current[t] = None
        /\ t \in busy /\ ~ran[t] => frames[t] = <<>>
    <3>1. t \in Threads
      BY Served, Requested, GivenUp, Responded, Entered, Ended DEF Next, TypeOK, requestVars, vars
    <3>2. QED
      BY <3>1 DEF ServesHeader, OrdinaryEndsClear, RequestInv, PooledRunNothing, NotRunYet, TypeOK
  <2>1. ASSUME NEW w \in Threads, UserRequest(w) \/ \E v \in Threads : RemoteCall(v, w)
        PROVE  Serves'
    <3>1. PICK g \in Contexts \cup {None}, v \in Threads \cup {None} : Serve(w, g, v)
      BY <2>1, Requested
    <3>2. shown = {} /\ frames' = frames
      BY <3>1, Served
    <3>3. CASE t = w
      BY <2>0, <3>1, <3>2, <3>3, Served, ContextAssumption
    <3>4. CASE t # w
      BY <2>0, <3>1, <3>2, <3>4, Served, ContextAssumption
    <3>5. QED
      BY <3>3, <3>4
  <2>2. ASSUME NEW w \in Threads, RunTransaction(w) PROVE Serves'
    <3>1. shown = {} /\ t \in busy /\ header'[t] = header[t]
      BY <2>2, Entered DEF requestVars
    <3>2. CASE t = w
      <4>1. frames[w] = <<>> /\ ~ran[w]
        BY <2>2, Entered
      <4>2. frames'[w] = Append(<<>>, current'[w]) /\ ran'[w] /\ current' = current
            /\ groupOf' = groupOf /\ groupOf[current[w]] = header[w]
        BY <2>0, <2>2, <3>1, <3>2, <4>1, Entered
      <4>3. Len(frames'[w]) = 1 /\ frames'[w][1] = current[w]
        BY <4>2
      <4>4. QED
        BY <3>1, <3>2, <4>2, <4>3
    <3>3. CASE t # w
      BY <2>0, <2>2, <3>1, <3>3, Entered, ContextAssumption
    <3>4. QED
      BY <3>2, <3>3
  <2>3. ASSUME NEW w \in Threads, EndTransaction(w) PROVE Serves'
    <3>1. shown = {} /\ t \in busy /\ header'[t] = header[t] /\ ran' = ran /\ groupOf' = groupOf
      BY <2>3, Ended DEF requestVars
    <3>2. QED
      BY <2>0, <2>3, <3>1, Ended
  <2>4. ASSUME NEW w \in Threads, Respond(w) PROVE Serves'
    BY <2>0, <2>4, Responded
  <2>5. ASSUME NEW w \in Threads, GiveUp(w) PROVE Serves'
    BY <2>0, <2>5, GivenUp
  <2>6. CASE UNCHANGED vars
    BY <2>0, <2>6 DEF vars, requestVars
  <2>7. QED
    BY <2>1, <2>2, <2>3, <2>4, <2>5, <2>6 DEF Next
<1>3. TypeOK /\ RequestInv /\ ServesHeader => WorksForCaller
  <2>1. SUFFICES ASSUME TypeOK, RequestInv, ServesHeader, shown = {},
                        NEW w \in Threads, frames[w] # <<>>, header[w] # None
                 PROVE  groupOf[Inner(w)] = header[w]
    BY DEF WorksForCaller
  <2>2. w \in busy
    BY <2>1 DEF RequestInv, PooledRunNothing
  <2>3. QED
    BY <2>1, <2>2 DEF ServesHeader, Inner
<1>4. QED
  BY <1>1, <1>2, <1>3, ClearInvariant, PTL DEF Spec
-----------------------------------------------------------------------------
(***************************************************************************)
(* The threads of a group, while no transaction is nested, no end throws and     *)
(* every request runs a transaction.  A thread's context is that of its one        *)
(* transaction.  It is the group's initiator, or its caller, which is in the group   *)
(* too, waits for it, or its caller has given up.                                    *)
(***************************************************************************)
OneFrame ==
  shown \subseteq {"repeated"} =>
    \A w \in Threads : frames[w] # <<>> => Len(frames[w]) = 1 /\ current[w] = frames[w][1]

InGroup(w, g) == w \in busy /\ current[w] \in Contexts /\ groupOf[current[w]] = g

JoinsCaller ==
  shown \subseteq {"repeated"} =>
    \A w \in busy : current[w] # None =>
      \/ groupOf[current[w]] = current[w]
      \/ /\ header[w] = groupOf[current[w]]
         /\ \/ caller[w] = None
            \/ caller[w] \in Threads /\ InGroup(caller[w], header[w])

\* The context of an initiator that has notified is in use no more.
InitiatorIsDone ==
  shown \subseteq {"repeated"} =>
    \A w \in Threads : current[w] # None => current[w] \notin notified

(***************************************************************************)
(* Calls form no cycle: threads can be ranked so that callers come before the    *)
(* threads they called.                                                           *)
(***************************************************************************)
Ranks(rank) == \A w \in busy : caller[w] # None => rank[caller[w]] < rank[w]

CallsAreRanked == \E rank \in [Threads -> Nat] : Ranks(rank)

GroupInv == OneFrame /\ JoinsCaller /\ InitiatorIsDone

LEMMA Smallest == ASSUME NEW S \in SUBSET Nat, S # {} PROVE \E m \in S : \A n \in S : m <= n
<1>1. PICK m \in S : \A n \in S : <<n, m>> \notin OpToRel(<, Nat)
  BY NatLessThanWellFounded, WFMin, Zenon
<1>2. ASSUME NEW n \in S PROVE m <= n
  <2>1. <<n, m>> \notin {ss \in Nat \X Nat : ss[1] < ss[2]}
    BY <1>1, Zenon DEF OpToRel
  <2>2. QED
    BY <2>1
<1>3. QED
  BY <1>2

LEMMA RankInvariant == Spec => []CallsAreRanked
<1>1. Init => CallsAreRanked
  <2>1. [w \in Threads |-> 0] \in [Threads -> Nat]
    OBVIOUS
  <2>2. QED
    BY <2>1 DEF Init, CallsAreRanked, Ranks
<1>2. TypeOK /\ RequestInv /\ CallsAreRanked /\ [Next]_vars => CallsAreRanked'
  <2> SUFFICES ASSUME TypeOK, RequestInv, CallsAreRanked, [Next]_vars PROVE CallsAreRanked'
    OBVIOUS
  <2>1. PICK rank \in [Threads -> Nat] : Ranks(rank)
    BY DEF CallsAreRanked
  <2>2. ASSUME NEW w \in Threads, UserRequest(w) \/ \E v \in Threads : RemoteCall(v, w)
        PROVE  CallsAreRanked'
    <3>1. PICK g \in Contexts \cup {None}, v \in Threads \cup {None} :
             /\ Serve(w, g, v)
             /\ v # None => v \in busy
      BY <2>2, Requested
    <3>2. /\ w \notin busy /\ busy' = busy \cup {w} /\ caller'[w] = v
          /\ \A t \in Threads \ {w} : caller'[t] = caller[t]
      BY <3>1, Served
    <3>3. PICK n \in Nat : v # None => rank[v] < n
      <4>1. CASE v = None
        BY <4>1
      <4>2. CASE v \in Threads
        <5>1. rank[v] + 1 \in Nat /\ rank[v] < rank[v] + 1
          BY <4>2
        <5>2. QED
          BY <5>1
      <4>3. QED
        BY <4>1, <4>2
    <3> DEFINE after == [rank EXCEPT ![w] = n]
    <3>4. /\ after \in [Threads -> Nat] /\ after[w] = n
          /\ \A t \in Threads \ {w} : after[t] = rank[t]
      OBVIOUS
    <3> HIDE DEF after
    <3>5. ASSUME NEW t \in busy', caller'[t] # None PROVE after[caller'[t]] < after[t]
      <4>1. CASE t = w
        <5>1. v \in busy /\ v # w
          BY <3>1, <3>2, <3>5, <4>1
        <5>2. after[v] = rank[v] /\ rank[v] < n
          BY <3>1, <3>3, <3>4, <3>5, <4>1, <3>2, <5>1 DEF TypeOK
        <5>3. QED
          BY <3>2, <3>4, <4>1, <5>2
      <4>2. CASE t # w
        <5>1. t \in busy /\ t \in Threads /\ caller'[t] = caller[t]
          BY <3>2, <4>2 DEF TypeOK
        <5>2. caller[t] \in busy /\ caller[t] \in Threads \ {w} /\ rank[caller[t]] < rank[t]
          BY <2>1, <3>2, <3>5, <5>1 DEF Ranks, RequestInv, CallersWait, TypeOK
        <5>3. after[caller[t]] = rank[caller[t]] /\ after[t] = rank[t]
          BY <3>4, <4>2, <5>1, <5>2
        <5>4. QED
          BY <5>1, <5>2, <5>3
      <4>3. QED
        BY <4>1, <4>2
    <3>6. QED
      BY <3>4, <3>5 DEF CallsAreRanked, Ranks
  <2>3. ASSUME NEW w \in Threads, Respond(w) PROVE CallsAreRanked'
    <3>1. /\ busy' = busy \ {w} /\ \A t \in Threads \ {w} : caller'[t] = caller[t]
      BY <2>3, Responded
    <3>2. Ranks(rank)'
      BY <2>1, <3>1 DEF Ranks, TypeOK
    <3>3. QED
      BY <3>2 DEF CallsAreRanked
  <2>4. ASSUME NEW w \in Threads, GiveUp(w) PROVE CallsAreRanked'
    <3>1. busy' = busy /\ caller'[w] = None /\ \A t \in Threads \ {w} : caller'[t] = caller[t]
      BY <2>4, GivenUp
    <3>2. Ranks(rank)'
      BY <2>1, <3>1 DEF Ranks, TypeOK
    <3>3. QED
      BY <3>2 DEF CallsAreRanked
  <2>5. ASSUME UNCHANGED <<busy, caller>> PROVE CallsAreRanked'
    BY <2>1, <2>5 DEF CallsAreRanked, Ranks
  <2>6. QED
    BY <2>2, <2>3, <2>4, <2>5, Entered, Ended DEF Next, vars, requestVars
<1>3. QED
  BY <1>1, <1>2, RequestInvariant, PTL DEF Spec

(***************************************************************************)
(* Of the threads of a notified group, the first in rank was called by none of     *)
(* them: its caller has given up.                                                  *)
(***************************************************************************)
LEMMA FirstIsOrphan ==
  ASSUME TypeOK, Confined, GroupInv, CallsAreRanked, shown \subseteq {"repeated"},
         NEW w \in Threads, NEW g \in notified, InGroup(w, g)
  PROVE  \E v \in Threads : Orphan(v) /\ header[v] = g
<1> DEFINE members == {t \in Threads : InGroup(t, g)}
<1>1. PICK rank \in [Threads -> Nat] : Ranks(rank)
  BY DEF CallsAreRanked
<1>2. PICK t \in members : \A s \in members : rank[t] <= rank[s]
  <2> DEFINE ranks == {rank[t] : t \in members}
  <2>1. ranks \in SUBSET Nat /\ ranks # {}
    OBVIOUS
  <2>2. PICK m \in ranks : \A n \in ranks : m <= n
    BY <2>1, Smallest
  <2>3. QED
    BY <2>2
<1>3. /\ t \in Threads /\ t \in busy /\ current[t] \in Contexts /\ current[t] # None
      /\ groupOf[current[t]] = g /\ g \in Contexts
  BY <1>2, ContextAssumption DEF InGroup, TypeOK
<1>4. groupOf[current[t]] # current[t]
  BY <1>3 DEF GroupInv, InitiatorIsDone
<1>5. /\ header[t] = g
      /\ caller[t] = None \/ (caller[t] \in Threads /\ InGroup(caller[t], g))
  BY <1>3, <1>4 DEF GroupInv, JoinsCaller
<1>6. caller[t] = None
  <2>1. SUFFICES ASSUME caller[t] # None PROVE FALSE
    OBVIOUS
  <2>2. caller[t] \in members /\ rank[caller[t]] < rank[t]
    BY <1>1, <1>3, <1>5, <2>1 DEF Ranks
  <2>3. rank[t] <= rank[caller[t]] /\ rank[t] \in Nat /\ rank[caller[t]] \in Nat
    BY <1>2, <1>3, <2>2
  <2>4. QED
    BY <2>2, <2>3
<1>7. QED
  BY <1>3, <1>5, <1>6, ContextAssumption DEF Orphan

LEMMA NextKeepsGroups ==
  ASSUME TypeOK, Confined, RequestInv, OrdinaryEndsClear, GroupInv, CallsAreRanked, [Next]_vars,
         shown' \subseteq {"repeated"}
  PROVE  GroupInv'
<1> DEFINE Habit == shown \subseteq {"repeated"}
<1>1. ASSUME NEW w \in Threads, UserRequest(w) \/ \E v \in Threads : RemoteCall(v, w)
      PROVE  GroupInv'
  <2>1. PICK g \in Contexts \cup {None}, v \in Threads \cup {None} :
           /\ Serve(w, g, v)
           /\ v = None => g = None
           /\ v # None => /\ v \in busy /\ Running(v)
                          /\ current[v] \in Contexts
                          /\ g = groupOf[current[v]]
    BY <1>1, Requested
  <2>2. /\ w \notin busy /\ busy' = busy \cup {w} /\ caller'[w] = v /\ header'[w] = g
        /\ \A t \in Threads \ {w} : /\ header'[t] = header[t] /\ caller'[t] = caller[t]
                                  /\ current'[t] = current[t]
        /\ UNCHANGED <<frames, notified, shown>>
        /\ \A c \in Contexts : groupOf[c] # None => groupOf'[c] = groupOf[c]
        /\ \/ /\ g # None /\ current'[w] \in Contexts
              /\ groupOf[current'[w]] = None /\ groupOf'[current'[w]] = g
           \/ UNCHANGED <<groupOf, current>>
    BY <2>1, Served
  <2>3. current[w] = None /\ frames[w] = <<>>
    BY <2>2 DEF OrdinaryEndsClear, RequestInv, PooledRunNothing
  <2>4. \A t \in busy : /\ t \in Threads \ {w} /\ current'[t] = current[t]
                        /\ current[t] # None =>
                             current[t] \in Contexts /\ groupOf'[current[t]] = groupOf[current[t]]
    BY <2>2 DEF Confined, UsedExist, Uses, TypeOK
  <2>5. OneFrame'
    BY <2>2, <2>3 DEF GroupInv, OneFrame
  <2>6. \A t \in Threads, h \in Contexts : InGroup(t, h) => InGroup(t, h)'
    BY <2>2, <2>4, ContextAssumption DEF InGroup
  <2>7. JoinsCaller'
    <3>1. SUFFICES ASSUME NEW t \in busy', current'[t] # None
                   PROVE  \/ groupOf'[current'[t]] = current'[t]
                          \/ /\ header'[t] = groupOf'[current'[t]]
                             /\ \/ caller'[t] = None
                                \/ caller'[t] \in Threads /\ InGroup(caller[t], header[t])'
      BY DEF JoinsCaller
    <3>2. CASE t = w
      <4>1. g \in Contexts /\ groupOf'[current'[w]] = g
        BY <2>2, <2>3, <3>1, <3>2
      <4>2. v \in Threads /\ InGroup(v, g)
        BY <2>1, <4>1, ContextAssumption DEF InGroup
      <4>3. QED
        BY <2>2, <2>6, <3>2, <4>1, <4>2 DEF InGroup
    <3>3. CASE t # w
      <4>1. t \in busy /\ t \in Threads /\ current[t] \in Contexts
            /\ groupOf'[current'[t]] = groupOf[current[t]]
            /\ groupOf[current[t]] \in Contexts
        BY <2>2, <2>4, <3>1, <3>3 DEF Confined, UsedExist, Uses, TypeOK
      <4>2. QED
        BY <2>2, <2>4, <2>6, <3>3, <4>1, ContextAssumption DEF GroupInv, JoinsCaller, InGroup
    <3>4. QED
      BY <3>2, <3>3
  <2>8. InitiatorIsDone'
    <3>1. \A t \in Threads \ {w} : current'[t] = current[t]
      BY <2>2
    <3>2. groupOf[current'[w]] = None \/ current'[w] = None
      BY <2>2, <2>3
    <3>3. QED
      BY <2>2, <3>1, <3>2 DEF GroupInv, InitiatorIsDone, RequestInv, NotifiedExist
  <2>9. QED
    BY <2>5, <2>7, <2>8 DEF GroupInv
<1>2. ASSUME NEW w \in Threads, RunTransaction(w) PROVE GroupInv'
  <2>1. /\ w \in busy /\ current'[w] \in Contexts
        /\ frames'[w] = Append(frames[w], current'[w])
        /\ \A t \in Threads \ {w} : frames'[t] = frames[t] /\ current'[t] = current[t]
        /\ UNCHANGED <<busy, header, caller, notified>>
        /\ \A c \in Contexts : groupOf[c] # None => groupOf'[c] = groupOf[c]
        /\ \/ current[w] # None /\ current' = current /\ groupOf' = groupOf
           \/ /\ current[w] = None /\ groupOf[current'[w]] = None
              /\ groupOf'[current'[w]] = current'[w]
        /\ shown \subseteq shown'
        /\ frames[w] = <<>>
    BY <1>2, Entered DEF requestVars
  <2>2. \A t \in busy : /\ t \in Threads
                        /\ current[t] # None =>
                             /\ current[t] \in Contexts /\ current'[t] = current[t]
                             /\ groupOf'[current[t]] = groupOf[current[t]]
                             /\ groupOf[current[t]] \in Contexts
    BY <2>1 DEF Confined, UsedExist, Uses, TypeOK
  <2>3. OneFrame'
    <3>1. frames'[w] = <<current'[w]>>
      BY <2>1
    <3>2. Len(frames'[w]) = 1 /\ frames'[w][1] = current'[w]
      BY <3>1
    <3>3. QED
      BY <2>1, <3>2 DEF GroupInv, OneFrame
  <2>4. \A t \in Threads, h \in Contexts : InGroup(t, h) => InGroup(t, h)'
    BY <2>1, <2>2, ContextAssumption DEF InGroup
  <2>5. JoinsCaller'
    <3>1. SUFFICES ASSUME NEW t \in busy, current'[t] # None
                   PROVE  \/ groupOf'[current'[t]] = current'[t]
                          \/ /\ header[t] = groupOf'[current'[t]]
                             /\ \/ caller[t] = None
                                \/ caller[t] \in Threads /\ InGroup(caller[t], header[t])'
      BY <2>1 DEF JoinsCaller
    <3>2. CASE current[t] = None
      BY <2>1, <2>2, <3>1, <3>2
    <3>3. CASE current[t] # None
      BY <2>1, <2>2, <2>4, <3>3 DEF GroupInv, JoinsCaller
    <3>4. QED
      BY <3>2, <3>3
  <2>6. InitiatorIsDone'
    <3>1. \A t \in Threads \ {w} : current'[t] = current[t]
      BY <2>1
    <3>2. groupOf[current'[w]] = None \/ current'[w] = current[w]
      BY <2>1
    <3>3. QED
      BY <2>1, <3>1, <3>2 DEF GroupInv, InitiatorIsDone, RequestInv, NotifiedExist
  <2>7. QED
    BY <2>3, <2>5, <2>6 DEF GroupInv
<1>3. ASSUME NEW w \in Threads, EndTransaction(w) PROVE GroupInv'
  <2>1. /\ w \in busy /\ Running(w) /\ frames[w] # <<>> /\ Inner(w) \in Contexts
        /\ Len(frames[w]) = 1 => frames'[w] = <<>> /\ Inner(w) = frames[w][1]
        /\ \A t \in Threads \ {w} : frames'[t] = frames[t] /\ current'[t] = current[t]
        /\ UNCHANGED <<busy, header, caller, groupOf>>
        /\ notified' = IF groupOf[Inner(w)] = Inner(w) THEN notified \cup {Inner(w)} ELSE notified
        /\ Habit /\ current'[w] = None
    BY <1>3, Ended DEF requestVars
  <2>2. frames'[w] = <<>> /\ current[w] = Inner(w)
    BY <2>1 DEF GroupInv, OneFrame
  <2>3. OneFrame'
    BY <2>1, <2>2 DEF GroupInv, OneFrame
  <2>4. \A t \in busy : t # w => caller[t] # w
    BY <2>1 DEF Running
  <2>5. JoinsCaller'
    BY <2>1, <2>4, ContextAssumption DEF GroupInv, JoinsCaller, InGroup, TypeOK
  <2>6. InitiatorIsDone'
    <3>1. \A t \in Threads \ {w} : current[t] # Inner(w)
      BY <2>1, <2>2 DEF Confined, ContextsAreConfined, Uses
    <3>2. QED
      BY <2>1, <3>1 DEF GroupInv, InitiatorIsDone
  <2>7. QED
    BY <2>3, <2>5, <2>6 DEF GroupInv
<1>4. ASSUME NEW w \in Threads, Respond(w) PROVE GroupInv'
  <2>1. /\ w \in busy /\ Running(w) /\ frames[w] = <<>> /\ busy' = busy \ {w}
        /\ \A t \in Threads \ {w} : header'[t] = header[t] /\ caller'[t] = caller[t]
        /\ UNCHANGED <<current, frames, groupOf, notified>>
        /\ Habit
    BY <1>4, Responded
  <2>2. \A t \in busy : caller[t] # w
    BY <2>1 DEF Running
  <2>3. JoinsCaller'
    <3>1. SUFFICES ASSUME NEW t \in busy', current'[t] # None
                   PROVE  \/ groupOf'[current'[t]] = current'[t]
                          \/ /\ header'[t] = groupOf'[current'[t]]
                             /\ \/ caller'[t] = None
                                \/ caller'[t] \in Threads /\ InGroup(caller[t], header[t])'
      BY DEF JoinsCaller
    <3>2. t \in busy /\ t \in Threads \ {w} /\ caller[t] # w
      BY <2>1, <2>2, <3>1 DEF TypeOK
    <3>3. header'[t] = header[t] /\ caller'[t] = caller[t] /\ current'[t] = current[t]
      BY <2>1, <3>2
    <3>4. \A g : InGroup(caller[t], g) => (InGroup(caller[t], g))'
      BY <2>1, <3>2, <3>3 DEF InGroup
    <3>5. QED
      BY <2>1, <3>1, <3>2, <3>3, <3>4 DEF GroupInv, JoinsCaller, InGroup
  <2>4. QED
    BY <2>1, <2>3 DEF GroupInv, OneFrame, InitiatorIsDone
<1>5. ASSUME NEW w \in Threads, GiveUp(w) PROVE GroupInv'
  <2>1. /\ caller'[w] = None /\ \A t \in Threads \ {w} : caller'[t] = caller[t]
        /\ UNCHANGED <<busy, header, current, frames, groupOf, notified>>
        /\ Habit
    BY <1>5, GivenUp
  <2>2. JoinsCaller'
    BY <2>1 DEF GroupInv, JoinsCaller, InGroup, TypeOK
  <2>3. QED
    BY <2>1, <2>2 DEF GroupInv, OneFrame, InitiatorIsDone
<1>6. CASE UNCHANGED vars
  BY <1>6 DEF vars, requestVars, GroupInv, OneFrame, JoinsCaller, InitiatorIsDone, InGroup
<1>7. QED
  BY <1>1, <1>2, <1>3, <1>4, <1>5, <1>6 DEF Next

\* Whatever calls time out: a group is notified when no thread runs a transaction of it
\* any more, and nobody enters it afterwards, as long as no thread that its caller gave
\* up serves it still.
THEOREM NotifiedAtLast == Spec => []NotifyIsLast
<1>1. Init => GroupInv
  BY DEF Init, GroupInv, OneFrame, JoinsCaller, InitiatorIsDone
<1>2. /\ TypeOK /\ Confined /\ RequestInv /\ OrdinaryEndsClear /\ CallsAreRanked
      /\ GroupInv /\ [Next]_vars
      => GroupInv'
  BY NextKeepsGroups DEF GroupInv, OneFrame, JoinsCaller, InitiatorIsDone
<1>3. TypeOK /\ Confined /\ RequestInv /\ CallsAreRanked /\ GroupInv => NotifyIsLast
  <2>1. SUFFICES ASSUME TypeOK, Confined, RequestInv, CallsAreRanked, GroupInv,
                        shown \subseteq {"repeated"},
                        NEW w \in Threads, NEW n \in 1..Len(frames[w]),
                        groupOf[frames[w][n]] \in notified
                 PROVE  \E v \in Threads : Orphan(v) /\ header[v] = groupOf[frames[w][n]]
    BY DEF NotifyIsLast
  <2>2. frames[w] \in Seq(Contexts) /\ frames[w] # <<>>
    BY <2>1 DEF TypeOK
  <2>3. Len(frames[w]) = 1 /\ current[w] = frames[w][1]
    BY <2>1, <2>2 DEF GroupInv, OneFrame
  <2>4. n = 1 /\ current[w] \in Contexts /\ w \in busy
    BY <2>1, <2>2, <2>3 DEF RequestInv, PooledRunNothing
  <2>5. InGroup(w, groupOf[frames[w][n]])
    BY <2>3, <2>4 DEF InGroup
  <2>6. QED
    BY <2>1, <2>5, FirstIsOrphan
<1>4. QED
  BY <1>1, <1>2, <1>3, ClearInvariant, RankInvariant, PTL DEF Spec
=============================================================================
