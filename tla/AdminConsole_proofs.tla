------------------------ MODULE AdminConsole_proofs ------------------------
(***************************************************************************)
(* Proofs about AdminConsole, for any number of tabs and of calls at once,    *)
(* any number of tokens kept, with expiry and failures of Redis.               *)
(***************************************************************************)
EXTENDS AdminConsole, FiniteSetTheorems, SequenceTheorems, TLAPS

(***************************************************************************)
(* The list is the newest tokens, in the reverse order of their pushes.        *)
(***************************************************************************)
NewestFirst == \A i \in 1 .. Len(tokens) : tokens[i] = pushed + 1 - i

(***************************************************************************)
(* Tabs and calls know no token that has not been pushed.                      *)
(***************************************************************************)
Known ==
  /\ fresh <= pushed
  /\ \A b \in Tabs : token[b] <= pushed
  /\ \A q \in Calls : call[q] # Idle => call[q].token <= pushed

TypeInv == TypeOK /\ Known /\ NewestFirst

LEMMA InitType == Init => TypeInv
<1> SUFFICES ASSUME Init PROVE TypeInv
  OBVIOUS
<1>1. tokens \in Seq(1 .. MaxPushes) /\ Len(tokens) = 0
  BY EmptySeq DEF Init
<1>2. TypeOK
  <2>1. 0 \in Tokens
    BY ConsoleAssumption DEF Tokens
  <2>2. token \in [Tabs -> Tokens] /\ page \in [Tabs -> Pages]
    BY <2>1 DEF Init, None, Pages
  <2>3. call \in [Calls -> Requests \cup {Idle}]
    BY DEF Init
  <2>4. mortal \in BOOLEAN /\ pushed \in Tokens /\ fresh \in Tokens
    BY <2>1 DEF Init
  <2>5. QED
    BY <1>1, <2>2, <2>3, <2>4 DEF TypeOK
<1>3. Known /\ NewestFirst
  BY <1>1 DEF Init, Known, NewestFirst, None
<1>4. QED
  BY <1>2, <1>3 DEF TypeInv

(***************************************************************************)
(* New calls, and what an idle place is not.                                   *)
(***************************************************************************)
LEMMA NewCalls ==
  ASSUME NEW b \in Tabs, NEW t \in Tokens
  PROVE  /\ Ask(b, t) \in Requests
         /\ Delete(b, t) \in Requests
         /\ Login(b) \in Requests
         /\ Ask(b, t).token = t
         /\ Delete(b, t).token = t
         /\ Login(b).token = None
         /\ Ask(b, t) # Idle
         /\ Delete(b, t) # Idle
         /\ Login(b) # Idle
<1>1. 0 \in Tokens /\ 0 \in Nat
  BY ConsoleAssumption DEF Tokens
<1>2. Ask(b, t) \in Requests /\ Ask(b, t).token = t /\ Ask(b, t).kind = "ask"
  BY <1>1 DEF Ask, Requests, Steps
<1>3. Delete(b, t) \in Requests /\ Delete(b, t).token = t /\ Delete(b, t).kind = "ask"
  BY <1>2 DEF Delete, Requests
<1>4. Login(b) \in Requests /\ Login(b).token = None /\ Login(b).kind = "login"
  BY <1>1 DEF Login, Requests, Steps, None
<1>5. QED
  BY <1>2, <1>3, <1>4 DEF Idle

LEMMA AtIsRequest ==
  ASSUME TypeOK, NEW q \in Calls, call[q].kind \in {"ask", "login"}
  PROVE  call[q] \in Requests /\ call[q] # Idle
BY DEF TypeOK, Idle

(***************************************************************************)
(* One place gets a new call, or becomes idle.                                  *)
(***************************************************************************)
LEMMA OnePlace ==
  ASSUME TypeInv, NEW q \in Calls, NEW r \in Requests \cup {Idle},
         call' = [call EXCEPT ![q] = r], r # Idle => r.token <= pushed', pushed' \in Tokens,
         pushed <= pushed'
  PROVE  /\ call' \in [Calls -> Requests \cup {Idle}]
         /\ \A p \in Calls : call'[p] # Idle => call'[p].token <= pushed'
         /\ call'[q] = r
         /\ \A p \in Calls \ {q} : call'[p] = call[p]
<1>1. call \in [Calls -> Requests \cup {Idle}] /\ pushed \in Nat /\ pushed' \in Nat
  BY ConsoleAssumption DEF TypeInv, TypeOK, Tokens
<1>2. call'[q] = r /\ \A p \in Calls \ {q} : call'[p] = call[p]
  BY <1>1
<1>3. \A p \in Calls : call[p] # Idle => call[p].token \in Nat
  BY <1>1, ConsoleAssumption DEF Requests, Tokens
<1>4. \A p \in Calls : call'[p] # Idle => call'[p].token <= pushed'
  BY <1>1, <1>2, <1>3 DEF TypeInv, Known
<1>5. QED
  BY <1>1, <1>2, <1>4

(***************************************************************************)
(* What a push and a pop make of the list.                                     *)
(***************************************************************************)
LEMMA PushedList ==
  ASSUME TypeInv, pushed < MaxPushes, pushed' = pushed + 1,
         tokens' = <<pushed + 1>> \o tokens
  PROVE  /\ tokens' \in Seq(1 .. MaxPushes)
         /\ Len(tokens') = Len(tokens) + 1
         /\ NewestFirst'
         /\ \A t \in Held' : t \in Held \/ t = pushed + 1
<1>1. pushed \in Nat /\ MaxPushes \in Nat /\ tokens \in Seq(1 .. MaxPushes)
  BY ConsoleAssumption DEF TypeInv, TypeOK, Tokens
<1>2. <<pushed + 1>> \in Seq(1 .. MaxPushes) /\ Len(<<pushed + 1>>) = 1
  BY <1>1
<1>3. /\ tokens' \in Seq(1 .. MaxPushes)
      /\ Len(tokens') = Len(tokens) + 1
      /\ \A i \in 1 .. 1 + Len(tokens) :
           tokens'[i] = IF i <= 1 THEN <<pushed + 1>>[i] ELSE tokens[i - 1]
  BY <1>1, <1>2, ConcatProperties
<1>4. Len(tokens) \in Nat
  BY <1>1, LenProperties
<1>5. ASSUME NEW i \in 1 .. Len(tokens')
      PROVE  /\ tokens'[i] = pushed' + 1 - i
             /\ tokens'[i] \in Held \/ tokens'[i] = pushed + 1
  <2>1. CASE i = 1
    BY <1>1, <1>3, <1>4, <2>1
  <2>2. CASE i # 1
    <3>1. i - 1 \in 1 .. Len(tokens) /\ tokens'[i] = tokens[i - 1]
      BY <1>3, <1>4, <2>2
    <3>2. tokens[i - 1] = pushed + 1 - (i - 1)
      BY <3>1 DEF TypeInv, NewestFirst
    <3>3. QED
      BY <1>1, <1>4, <3>1, <3>2 DEF Held
  <2>3. QED
    BY <2>1, <2>2
<1>6. QED
  BY <1>3, <1>5 DEF NewestFirst, Held

LEMMA PoppedList ==
  ASSUME TypeInv, pushed' = pushed, tokens' = SubSeq(tokens, 1, Len(tokens) - 1)
  PROVE  /\ tokens' \in Seq(1 .. MaxPushes)
         /\ Len(tokens') = IF Len(tokens) = 0 THEN 0 ELSE Len(tokens) - 1
         /\ NewestFirst'
         /\ Held' \subseteq Held
<1>1. tokens \in Seq(1 .. MaxPushes) /\ Len(tokens) \in Nat
  BY LenProperties DEF TypeInv, TypeOK
<1>2. /\ tokens' \in Seq(1 .. MaxPushes)
      /\ Len(tokens') = IF Len(tokens) = 0 THEN 0 ELSE Len(tokens) - 1
      /\ \A i \in 1 .. Len(tokens') : tokens'[i] = tokens[i]
  <2>0. /\ Len(tokens) - 1 \in Int /\ 1 \in Int
        /\ \A i \in 1 .. Len(tokens) - 1 : i \in 1 .. Len(tokens)
    BY <1>1
  <2>1. /\ Len(tokens) - 1 \in Int /\ 1 \in Int
        /\ \A i \in 1 .. Len(tokens) - 1 : tokens[i] \in 1 .. MaxPushes
    BY <1>1, <2>0, ElementOfSeq
  <2>2. /\ tokens' \in Seq(1 .. MaxPushes)
        /\ Len(tokens') = IF 1 <= Len(tokens) - 1 THEN (Len(tokens) - 1) - 1 + 1 ELSE 0
        /\ \A i \in 1 .. (Len(tokens) - 1) - 1 + 1 : tokens'[i] = tokens[1 + i - 1]
    BY <2>1, SubSeqProperties
  <2>3. Len(tokens') = IF Len(tokens) = 0 THEN 0 ELSE Len(tokens) - 1
    BY <1>1, <2>2
  <2>4. ASSUME NEW i \in 1 .. Len(tokens') PROVE tokens'[i] = tokens[i]
    <3>1. i \in 1 .. (Len(tokens) - 1) - 1 + 1 /\ 1 + i - 1 = i
      BY <1>1, <2>3
    <3>2. QED
      BY <2>2, <3>1
  <2>5. QED
    BY <2>2, <2>3, <2>4
<1>3. \A i \in 1 .. Len(tokens') : i \in 1 .. Len(tokens)
  BY <1>1, <1>2
<1>4. QED
  BY <1>2, <1>3 DEF TypeInv, NewestFirst, Held

(***************************************************************************)
(* An action that leaves the store alone and gives one place a request that    *)
(* knows no more than has been pushed keeps the types.                         *)
(***************************************************************************)
LEMMA PlaceStep ==
  ASSUME TypeInv, NEW q \in Calls, NEW r \in Requests \cup {Idle},
         call' = [call EXCEPT ![q] = r], r # Idle => r.token <= pushed,
         UNCHANGED storeVars,
         token' \in [Tabs -> Tokens], page' \in [Tabs -> Pages],
         \A b \in Tabs : token'[b] <= pushed
  PROVE  TypeInv'
<1>1. pushed' = pushed /\ tokens' = tokens /\ fresh' = fresh /\ mortal' = mortal
  BY DEF storeVars
<1>2. pushed \in Tokens /\ pushed <= pushed
  BY ConsoleAssumption DEF TypeInv, TypeOK, Tokens
<1>3. /\ call' \in [Calls -> Requests \cup {Idle}]
      /\ \A p \in Calls : call'[p] # Idle => call'[p].token <= pushed'
  BY <1>1, <1>2, OnePlace
<1>4. QED
  BY <1>1, <1>3 DEF TypeInv, TypeOK, Known, NewestFirst

(***************************************************************************)
(* A request whose step or reading changes is a request with the same token.   *)
(***************************************************************************)
LEMMA ChangedRequest ==
  ASSUME TypeInv, NEW q \in Calls, call[q] \in Requests, NEW s \in Steps
  PROVE  /\ [call[q] EXCEPT !.step = s] \in Requests
         /\ [call[q] EXCEPT !.step = s].token = call[q].token
         /\ call[q].token <= pushed
         /\ call[q].tab \in Tabs
         /\ call[q].token \in Tokens
         /\ call \in [Calls -> Requests \cup {Idle}]
<1>1. call[q].token <= pushed
  BY DEF TypeInv, Known, Requests, Idle
<1>2. QED
  BY <1>1 DEF TypeInv, TypeOK, Requests

LEMMA AnsweredRequest ==
  ASSUME TypeInv, NEW q \in Calls, call[q] \in Requests, NEW s \in Steps, NEW o \in BOOLEAN
  PROVE  /\ Answer(q, s) \in Requests
         /\ Answer(q, s).token <= pushed
         /\ [Answer(q, s) EXCEPT !.token = None] \in Requests
         /\ [Answer(q, s) EXCEPT !.token = None].token <= pushed
         /\ [Answer(q, s) EXCEPT !.overtaken = o] \in Requests
         /\ [Answer(q, s) EXCEPT !.overtaken = o].token <= pushed
<1>1. call[q].token <= pushed /\ 0 <= pushed /\ 0 \in Tokens
  BY ConsoleAssumption DEF TypeInv, TypeOK, Known, Requests, Idle, Tokens
<1>2. QED
  BY <1>1 DEF Answer, Requests, None

(***************************************************************************)
(* Each action keeps the types.                                                *)
(***************************************************************************)
LEMMA UserType ==
  ASSUME TypeInv, NEW b \in Tabs, UserStep(b)
  PROVE  TypeInv'
<1>0. /\ \A a \in Tabs : token[a] \in Tokens /\ token[a] <= pushed
      /\ token \in [Tabs -> Tokens] /\ page \in [Tabs -> Pages]
      /\ None \in Tokens /\ None <= pushed
  BY ConsoleAssumption DEF TypeInv, TypeOK, Known, Tokens, None
<1>1. CASE OpenLogin(b)
  BY <1>0, <1>1 DEF OpenLogin, GoTo, Pages, TypeInv, TypeOK, Known, NewestFirst, storeVars
<1>2. CASE Exit(b)
  BY <1>0, <1>2 DEF Exit, GoTo, Pages, TypeInv, TypeOK, Known, NewestFirst, storeVars
<1>3. ASSUME NEW q \in Calls, OpenPage(b, q) PROVE TypeInv'
  <2>1. Ask(b, token[b]) \in Requests /\ Ask(b, token[b]).token = token[b]
    BY <1>0, NewCalls DEF Ask
  <2>2. /\ call' = [call EXCEPT ![q] = Ask(b, token[b])]
        /\ UNCHANGED storeVars /\ token' = token
        /\ page' \in [Tabs -> Pages]
    BY <1>0, <1>3 DEF OpenPage, GoTo, Pages
  <2>3. QED
    BY <1>0, <2>1, <2>2, PlaceStep
<1>4. ASSUME NEW q \in Calls, OpenWithoutToken(b, q) PROVE TypeInv'
  <2>1. Ask(b, None) \in Requests /\ Ask(b, None).token = None
    BY <1>0, NewCalls DEF Ask
  <2>2. /\ UNCHANGED storeVars /\ token' = token
        /\ page' \in [Tabs -> Pages]
    BY <1>0, <1>4 DEF OpenWithoutToken, GoTo, Pages
  <2>3. CASE call' = call
    BY <2>2, <2>3 DEF TypeInv, TypeOK, Known, NewestFirst, storeVars
  <2>4. CASE call' = [call EXCEPT ![q] = Ask(b, None)]
    BY <1>0, <2>1, <2>2, <2>4, PlaceStep
  <2>5. QED
    BY <1>4, <2>3, <2>4 DEF OpenWithoutToken
<1>5. ASSUME NEW q \in Calls, SendPassword(b, q) PROVE TypeInv'
  <2>1. Login(b) \in Requests /\ Login(b).token = None
    BY <1>0, NewCalls DEF Login
  <2>2. /\ call' = [call EXCEPT ![q] = Login(b)]
        /\ UNCHANGED storeVars /\ token' = token /\ page' = page
    BY <1>5 DEF SendPassword, tabVars
  <2>3. QED
    BY <1>0, <2>1, <2>2, PlaceStep
<1>6. ASSUME NEW q \in Calls, UsePage(b, q) PROVE TypeInv'
  <2>1. UNCHANGED storeVars /\ token' = token /\ page' = page
    BY <1>6 DEF UsePage, tabVars
  <2>2. CASE call' = [call EXCEPT ![q] = Ask(b, token[b])]
    BY <1>0, <2>1, <2>2, NewCalls, PlaceStep
  <2>3. CASE call' = [call EXCEPT ![q] = Delete(b, token[b])]
    BY <1>0, <2>1, <2>3, NewCalls, PlaceStep
  <2>4. QED
    BY <1>6, <2>2, <2>3 DEF UsePage
<1>7. QED
  BY <1>1, <1>2, <1>3, <1>4, <1>5, <1>6 DEF UserStep

LEMMA BrowserType ==
  ASSUME TypeInv, NEW q \in Calls, BrowserStep(q)
  PROVE  TypeInv'
<1>0. /\ \A a \in Tabs : token[a] \in Tokens /\ token[a] <= pushed
      /\ token \in [Tabs -> Tokens] /\ page \in [Tabs -> Pages]
      /\ None \in Tokens /\ None <= pushed
  BY ConsoleAssumption DEF TypeInv, TypeOK, Known, Tokens, None
<1>1. call[q] \in Requests /\ call[q].tab \in Tabs /\ call[q].token \in Tokens
      /\ call[q].token <= pushed
  BY AtIsRequest, ChangedRequest
     DEF BrowserStep, LoginAnswered, CallAnswered, RowDeleted, Answered401, At, TypeInv, Steps
<1>2. CASE LoginAnswered(q)
  <2> DEFINE b == call[q].tab
  <2>1. Ask(b, call[q].token) \in Requests /\ Ask(b, call[q].token).token = call[q].token
    BY <1>1, NewCalls DEF Ask
  <2>2. /\ UNCHANGED storeVars
        /\ token' \in [Tabs -> Tokens] /\ page' \in [Tabs -> Pages]
        /\ \A a \in Tabs : token'[a] <= pushed
    BY <1>0, <1>1, <1>2 DEF LoginAnswered, GoTo, Pages, Routes
  <2>3. CASE call' = [call EXCEPT ![q] = Idle]
    BY <2>2, <2>3, PlaceStep
  <2>4. CASE call' = [call EXCEPT ![q] = Ask(b, call[q].token)]
    BY <1>1, <2>1, <2>2, <2>4, PlaceStep
  <2>5. QED
    BY <1>2, <2>3, <2>4 DEF LoginAnswered
<1>3. CASE CallAnswered(q)
  BY <1>0, <1>3, PlaceStep DEF CallAnswered, tabVars
<1>4. CASE Answered401(q)
  <2>1. /\ token' \in [Tabs -> Tokens] /\ page' \in [Tabs -> Pages]
        /\ \A a \in Tabs : token'[a] <= pushed
    BY <1>0, <1>1, <1>4 DEF Answered401, GoTo, Pages
  <2>2. QED
    BY <1>4, <2>1, PlaceStep DEF Answered401
<1>5. CASE RowDeleted(q)
  <2> DEFINE b == call[q].tab
  <2>1. Ask(b, token[b]) \in Requests /\ Ask(b, token[b]).token <= pushed
    BY <1>0, <1>1, NewCalls
  <2>2. /\ UNCHANGED storeVars /\ token' = token
        /\ page' \in [Tabs -> Pages]
    BY <1>0, <1>5 DEF RowDeleted, GoTo, Pages, Routes
  <2>3. CASE call' = [call EXCEPT ![q] = Idle]
    BY <1>0, <2>2, <2>3, PlaceStep
  <2>4. CASE call' = [call EXCEPT ![q] = Ask(b, token[b])]
    BY <1>0, <2>1, <2>2, <2>4, PlaceStep
  <2>5. QED
    BY <1>5, <2>3, <2>4 DEF RowDeleted
<1>6. QED
  BY <1>2, <1>3, <1>4, <1>5 DEF BrowserStep

LEMMA ServerType ==
  ASSUME TypeInv, NEW q \in Calls, ServerStep(q)
  PROVE  TypeInv'
<1>0. /\ \A a \in Tabs : token[a] \in Tokens /\ token[a] <= pushed
      /\ token \in [Tabs -> Tokens] /\ page \in [Tabs -> Pages]
      /\ None \in Tokens /\ None <= pushed
      /\ pushed \in Nat /\ fresh \in Nat /\ fresh <= pushed /\ MaxPushes \in Nat
      /\ tokens \in Seq(1 .. MaxPushes) /\ Len(tokens) \in Nat
  BY ConsoleAssumption, LenProperties DEF TypeInv, TypeOK, Known, Tokens, None
<1>1. call[q] \in Requests /\ call[q].tab \in Tabs /\ call[q].token \in Tokens
      /\ call[q].token <= pushed
  BY AtIsRequest, ChangedRequest
     DEF ServerStep, RefusePassword, PushToken, ExtendLife, CountTokens, DropOldest,
         RefuseNone, ReadSize, Verify, RedisThrows, At, TypeInv, Steps
<1>2. \A s \in Steps : /\ [call[q] EXCEPT !.step = s] \in Requests
                       /\ [call[q] EXCEPT !.step = s].token = call[q].token
  BY <1>1, ChangedRequest
<1>3. ASSUME NEW s \in Steps, call' = [call EXCEPT ![q].step = s],
             UNCHANGED <<tabVars, storeVars>>
      PROVE  TypeInv'
  <2>1. call' = [call EXCEPT ![q] = [call[q] EXCEPT !.step = s]]
    BY <1>3
  <2>2. UNCHANGED storeVars /\ token' = token /\ page' = page
    BY <1>3 DEF tabVars
  <2>3. QED
    BY <1>0, <1>1, <1>2, <2>1, <2>2, PlaceStep
<1>4. CASE RefusePassword(q)
  BY <1>3, <1>4 DEF RefusePassword, Steps
<1>5. CASE PushToken(q)
  <2> DEFINE r == [call[q] EXCEPT !.step = "pushed", !.token = pushed + 1]
  <2>1. pushed < MaxPushes /\ pushed' = pushed + 1 /\ fresh' = fresh + 1
        /\ tokens' = <<pushed + 1>> \o tokens
        /\ mortal' = mortal /\ token' = token /\ page' = page
    BY <1>5 DEF PushToken, tabVars
  <2>2. call' = [call EXCEPT ![q] = r]
    BY <1>5 DEF PushToken
  <2>3. pushed' \in Tokens /\ pushed <= pushed' /\ fresh' \in Tokens /\ fresh' <= pushed'
    BY <1>0, <2>1 DEF Tokens
  <2>4. r \in Requests /\ r.token = pushed'
    BY <1>1, <2>1, <2>3 DEF Requests, Steps
  <2>5. tokens' \in Seq(1 .. MaxPushes) /\ NewestFirst'
    BY <2>1, PushedList
  <2>6. /\ call' \in [Calls -> Requests \cup {Idle}]
        /\ \A p \in Calls : call'[p] # Idle => call'[p].token <= pushed'
    <3>1. r.token <= pushed'
      BY <2>3, <2>4 DEF Tokens
    <3>2. QED
      BY <2>2, <2>3, <2>4, <3>1, OnePlace
  <2>7. \A a \in Tabs : token'[a] <= pushed'
    BY <1>0, <2>1 DEF Tokens
  <2>8. QED
    BY <1>0, <2>1, <2>3, <2>5, <2>6, <2>7 DEF TypeInv, TypeOK, Known
<1>6. CASE ExtendLife(q)
  <2>1. call' = [call EXCEPT ![q] = [call[q] EXCEPT !.step = "lasting"]]
        /\ UNCHANGED <<tokens, pushed, fresh, token, page>> /\ mortal' \in BOOLEAN
    BY <1>6 DEF ExtendLife, tabVars
  <2>2. /\ [call[q] EXCEPT !.step = "lasting"] \in Requests
        /\ [call[q] EXCEPT !.step = "lasting"].token <= pushed'
    BY <1>1, <1>2, <2>1 DEF Steps
  <2>3. /\ call' \in [Calls -> Requests \cup {Idle}]
        /\ \A p \in Calls : call'[p] # Idle => call'[p].token <= pushed'
    <3>1. pushed' \in Tokens /\ pushed <= pushed'
      BY <1>0, <2>1 DEF TypeInv, TypeOK
    <3>2. QED
      BY <2>1, <2>2, <3>1, OnePlace
  <2>4. QED
    BY <2>1, <2>3 DEF TypeInv, TypeOK, Known, NewestFirst
<1>7. CASE CountTokens(q)
  BY <1>3, <1>7 DEF CountTokens, Steps
<1>8. CASE DropOldest(q)
  <2>1. call' = [call EXCEPT ![q] = [call[q] EXCEPT !.step = "ok"]]
        /\ UNCHANGED <<pushed, fresh, token, page>>
        /\ tokens' = SubSeq(tokens, 1, Len(tokens) - 1)
        /\ mortal' \in BOOLEAN
    BY <1>8 DEF DropOldest, tabVars
  <2>2. /\ [call[q] EXCEPT !.step = "ok"] \in Requests
        /\ [call[q] EXCEPT !.step = "ok"].token <= pushed'
    BY <1>1, <1>2, <2>1 DEF Steps
  <2>3. /\ call' \in [Calls -> Requests \cup {Idle}]
        /\ \A p \in Calls : call'[p] # Idle => call'[p].token <= pushed'
    <3>1. pushed' \in Tokens /\ pushed <= pushed'
      BY <1>0, <2>1 DEF TypeInv, TypeOK
    <3>2. QED
      BY <2>1, <2>2, <3>1, OnePlace
  <2>4. tokens' \in Seq(1 .. MaxPushes) /\ NewestFirst'
    BY <2>1, PoppedList
  <2>5. QED
    BY <2>1, <2>3, <2>4 DEF TypeInv, TypeOK, Known
<1>9. CASE RefuseNone(q)
  BY <1>3, <1>9 DEF RefuseNone, Steps
<1>10. CASE ReadSize(q)
  <2> DEFINE r == [call[q] EXCEPT !.step = "sized", !.size = Len(tokens), !.since = pushed]
  <2>1. call' = [call EXCEPT ![q] = r] /\ UNCHANGED storeVars /\ token' = token /\ page' = page
    BY <1>10 DEF ReadSize, tabVars
  <2>2. r \in Requests /\ r.token <= pushed
    BY <1>0, <1>1 DEF Requests, Steps, TypeInv, TypeOK
  <2>3. QED
    BY <1>0, <2>1, <2>2, PlaceStep
<1>11. ASSUME NEW r \in Requests, r.token <= pushed, call' = [call EXCEPT ![q] = r],
              UNCHANGED <<tabVars, storeVars>>
      PROVE  TypeInv'
  <2>1. UNCHANGED storeVars /\ token' = token /\ page' = page
    BY <1>11 DEF tabVars
  <2>2. QED
    BY <1>0, <1>11, <2>1, PlaceStep
<1>12. CASE Verify(q)
  <2>1. CASE FoundAmong(q, call[q].size + 1)
    <3>1. call' = [call EXCEPT ![q] = [Answer(q, "ok") EXCEPT !.token = None]]
          /\ UNCHANGED <<tabVars, storeVars>>
      BY <1>12, <2>1 DEF Verify
    <3>2. /\ [Answer(q, "ok") EXCEPT !.token = None] \in Requests
          /\ [Answer(q, "ok") EXCEPT !.token = None].token <= pushed
      BY <1>1, AnsweredRequest DEF Steps
    <3>3. QED
      BY <1>11, <3>1, <3>2
  <2>2. CASE ~FoundAmong(q, call[q].size + 1)
    <3> DEFINE o == pushed >= call[q].since + 2
               r == [Answer(q, "refused") EXCEPT !.overtaken = o]
    <3>1. call' = [call EXCEPT ![q] = r] /\ UNCHANGED <<tabVars, storeVars>>
      BY <1>12, <2>2 DEF Verify
    <3>2. o \in BOOLEAN
      OBVIOUS
    <3> HIDE DEF o
    <3>3. r \in Requests /\ r.token <= pushed
      BY <1>1, <3>2, AnsweredRequest DEF Steps
    <3>4. QED
      BY <1>11, <3>1, <3>3
  <2>3. QED
    BY <2>1, <2>2
<1>13. CASE RedisThrows(q)
  <2>1. /\ Answer(q, "failed") \in Requests
        /\ Answer(q, "failed").token <= pushed
        /\ [Answer(q, "error") EXCEPT !.token = None] \in Requests
        /\ [Answer(q, "error") EXCEPT !.token = None].token <= pushed
    BY <1>1, AnsweredRequest DEF Steps
  <2>2. UNCHANGED <<tabVars, storeVars>>
        /\ \/ call' = [call EXCEPT ![q] = Answer(q, "failed")]
           \/ call' = [call EXCEPT ![q] = [Answer(q, "error") EXCEPT !.token = None]]
    BY <1>13 DEF RedisThrows
  <2>3. QED
    BY <1>11, <2>1, <2>2
<1>14. QED
  BY <1>4, <1>5, <1>6, <1>7, <1>8, <1>9, <1>10, <1>12, <1>13 DEF ServerStep

LEMMA TypeStep ==
  ASSUME TypeInv, [Next]_vars
  PROVE  TypeInv'
<1>1. CASE UNCHANGED vars
  BY <1>1 DEF vars, storeVars, tabVars, TypeInv, TypeOK, Known, NewestFirst
<1>2. CASE ListExpires
  <2>1. Len(tokens') = 0 /\ tokens' \in Seq(1 .. MaxPushes)
    BY <1>2, EmptySeq DEF ListExpires
  <2>2. mortal' = FALSE /\ fresh' = 0 /\ UNCHANGED <<pushed, token, page, call>>
    BY <1>2 DEF ListExpires, tabVars
  <2>3. 0 \in Tokens /\ 0 <= pushed
    BY ConsoleAssumption DEF TypeInv, TypeOK, Tokens
  <2>4. TypeOK'
    BY <2>1, <2>2, <2>3 DEF TypeInv, TypeOK
  <2>5. Known'
    BY <2>2, <2>3 DEF TypeInv, Known
  <2>6. NewestFirst'
    BY <2>1 DEF NewestFirst
  <2>7. QED
    BY <2>4, <2>5, <2>6 DEF TypeInv
<1>3. QED
  BY <1>1, <1>2, UserType, BrowserType, ServerType DEF Next

(***************************************************************************)
(* Types hold throughout: a run reaches no state the browser or the TM could   *)
(* not be in.                                                                  *)
(***************************************************************************)
THEOREM ConsoleTypeCorrect == Spec => []TypeOK
<1>1. TypeInv => TypeOK
  BY DEF TypeInv
<1>2. QED
  BY InitType, TypeStep, <1>1, PTL DEF Spec

-----------------------------------------------------------------------------
(***************************************************************************)
(* A login that has pushed brings a token, and only such a login is answered    *)
(* without an error.                                                           *)
(***************************************************************************)
BringsToken(r) ==
  r.kind = "login" /\ r.step \in {"pushed", "lasting", "sized", "ok"} => r.token # None

PageInv == \A q \in Calls : BringsToken(call[q])

LEMMA InitPage == Init => PageInv
BY DEF Init, PageInv, BringsToken, Idle

\* In the browser, a place gets a new call or becomes idle.
New(r) == r.kind = "idle" \/ (r.kind \in {"ask", "login"} /\ r.step = "sent")

CallsChange ==
  \/ UNCHANGED call
  \/ \E q \in Calls : \E r : New(r) /\ call' = [call EXCEPT ![q] = r]

LEMMA ClientCalls ==
  ASSUME \/ \E b \in Tabs : UserStep(b)
         \/ \E q \in Calls : BrowserStep(q)
  PROVE  CallsChange /\ UNCHANGED storeVars
<1>1. /\ New(Idle)
      /\ \A b, t : New(Ask(b, t)) /\ New(Delete(b, t)) /\ New(Login(b))
  BY DEF New, Idle, Ask, Delete, Login
<1>2. ASSUME NEW b \in Tabs, UserStep(b) PROVE CallsChange /\ UNCHANGED storeVars
  <2>1. CASE OpenLogin(b) \/ Exit(b)
    BY <2>1 DEF OpenLogin, Exit, CallsChange
  <2>2. ASSUME NEW q \in Calls, OpenPage(b, q) PROVE CallsChange /\ UNCHANGED storeVars
    BY <1>1, <2>2 DEF OpenPage, CallsChange
  <2>3. ASSUME NEW q \in Calls, OpenWithoutToken(b, q)
        PROVE  CallsChange /\ UNCHANGED storeVars
    BY <1>1, <2>3 DEF OpenWithoutToken, CallsChange
  <2>4. ASSUME NEW q \in Calls, UsePage(b, q) PROVE CallsChange /\ UNCHANGED storeVars
    BY <1>1, <2>4 DEF UsePage, CallsChange
  <2>5. ASSUME NEW q \in Calls, SendPassword(b, q) PROVE CallsChange /\ UNCHANGED storeVars
    BY <1>1, <2>5 DEF SendPassword, CallsChange
  <2>6. QED
    BY <1>2, <2>1, <2>2, <2>3, <2>4, <2>5 DEF UserStep
<1>3. ASSUME NEW q \in Calls, BrowserStep(q) PROVE CallsChange /\ UNCHANGED storeVars
  <2>1. CASE LoginAnswered(q)
    BY <1>1, <2>1 DEF LoginAnswered, CallsChange
  <2>2. CASE RowDeleted(q)
    BY <1>1, <2>2 DEF RowDeleted, CallsChange
  <2>3. CASE CallAnswered(q) \/ Answered401(q)
    BY <1>1, <2>3 DEF CallAnswered, Answered401, CallsChange
  <2>4. QED
    BY <1>3, <2>1, <2>2, <2>3 DEF BrowserStep
<1>4. QED
  BY <1>2, <1>3

LEMMA PageTabs ==
  ASSUME TypeInv, PageInv, NEW q \in Calls, NEW r, BringsToken(r),
         call' = [call EXCEPT ![q] = r]
  PROVE  PageInv'
BY DEF TypeInv, TypeOK, PageInv

LEMMA ClientPage ==
  ASSUME TypeInv, PageInv, CallsChange
  PROVE  PageInv'
<1>1. \A r : New(r) => BringsToken(r)
  BY DEF New, BringsToken
<1>2. CASE UNCHANGED call
  BY <1>2 DEF PageInv
<1>3. QED
  BY <1>1, <1>2, PageTabs DEF CallsChange

LEMMA ServerPage ==
  ASSUME TypeInv, PageInv, NEW q \in Calls, ServerStep(q)
  PROVE  PageInv'
<1>2. call[q] \in Requests /\ BringsToken(call[q])
  BY AtIsRequest DEF ServerStep, RefusePassword, PushToken, ExtendLife, CountTokens,
     DropOldest, RefuseNone, ReadSize, Verify, RedisThrows, At, TypeInv, PageInv
<1>3. ASSUME NEW s \in Steps, call' = [call EXCEPT ![q].step = s],
             call[q].kind = "login" /\ s \in {"pushed", "lasting", "sized", "ok"} =>
               call[q].token # None
      PROVE  PageInv'
  <2>1. BringsToken([call[q] EXCEPT !.step = s])
    BY <1>2, <1>3 DEF BringsToken, Requests
  <2>2. call' = [call EXCEPT ![q] = [call[q] EXCEPT !.step = s]]
    BY <1>3
  <2>3. QED
    BY <2>1, <2>2, PageTabs
<1>4. CASE RefusePassword(q)
  BY <1>2, <1>3, <1>4 DEF RefusePassword, Steps
<1>5. CASE PushToken(q)
  <2> DEFINE r == [call[q] EXCEPT !.step = "pushed", !.token = pushed + 1]
  <2>1. call' = [call EXCEPT ![q] = r]
    BY <1>5 DEF PushToken
  <2>2. r.token = pushed + 1 /\ pushed + 1 # None
    BY <1>2, ConsoleAssumption DEF Requests, None, TypeInv, TypeOK, Tokens
  <2>3. BringsToken(r)
    BY <2>2 DEF BringsToken
  <2>4. QED
    BY <2>1, <2>3, PageTabs
<1>6. CASE ExtendLife(q)
  BY <1>2, <1>3, <1>6 DEF ExtendLife, BringsToken, Steps, At
<1>7. CASE CountTokens(q)
  BY <1>2, <1>3, <1>7 DEF CountTokens, BringsToken, Steps, At
<1>8. CASE DropOldest(q)
  BY <1>2, <1>3, <1>8 DEF DropOldest, BringsToken, Steps, At
<1>9. CASE RefuseNone(q)
  BY <1>2, <1>3, <1>9 DEF RefuseNone, BringsToken, Steps, At
<1>10. CASE ReadSize(q)
  <2> DEFINE r == [call[q] EXCEPT !.step = "sized", !.size = Len(tokens), !.since = pushed]
  <2>1. call' = [call EXCEPT ![q] = r]
    BY <1>10 DEF ReadSize
  <2>2. BringsToken(r)
    BY <1>2, <1>10 DEF ReadSize, BringsToken, Requests, At
  <2>3. QED
    BY <2>1, <2>2, PageTabs
<1>11. CASE Verify(q)
  <2>1. call[q].kind = "ask"
    BY <1>11 DEF Verify, At
  <2>2. /\ BringsToken([Answer(q, "ok") EXCEPT !.token = None])
        /\ \A o : BringsToken([Answer(q, "refused") EXCEPT !.overtaken = o])
    BY <1>2, <2>1 DEF BringsToken, Answer, Requests
  <2>3. CASE FoundAmong(q, call[q].size + 1)
    BY <1>11, <2>2, <2>3, PageTabs DEF Verify
  <2>4. CASE ~FoundAmong(q, call[q].size + 1)
    BY <1>11, <2>2, <2>4, PageTabs DEF Verify
  <2>5. QED
    BY <2>3, <2>4
<1>12. CASE RedisThrows(q)
  <2>1. /\ BringsToken([Answer(q, "error") EXCEPT !.token = None])
        /\ BringsToken(Answer(q, "failed"))
    BY <1>2 DEF BringsToken, Answer, Requests
  <2>2. QED
    BY <1>12, <2>1, PageTabs DEF RedisThrows
<1>13. QED
  BY <1>4, <1>5, <1>6, <1>7, <1>8, <1>9, <1>10, <1>11, <1>12 DEF ServerStep

LEMMA PageStep ==
  ASSUME TypeInv, PageInv, [Next]_vars
  PROVE  PageInv'
<1>1. CASE UNCHANGED vars
  BY <1>1 DEF vars, PageInv
<1>2. CASE ListExpires
  BY <1>2 DEF ListExpires, PageInv
<1>3. QED
  BY <1>1, <1>2, ClientCalls, ClientPage, ServerPage DEF Next

(***************************************************************************)
(* No tab comes to a page without a token, and only the 401 to a row's deletion   *)
(* takes the token of a tab that stays on its page (index.js).  The invariant      *)
(* says that a login which is answered well brings a token.                        *)
(***************************************************************************)
THEOREM ConsoleNoTokenNoPage == Spec => NoTokenNoPage
<1> DEFINE Kept ==
      \A b \in Tabs : (token'[b] = None /\ page'[b] # "/login") =>
        /\ page'[b] = page[b]
        /\ \/ token[b] = None
           \/ \E q \in Calls :
                /\ Answered401(q)
                /\ call[q].tab = b
                /\ call[q].quiet
<1>1. TypeInv /\ PageInv /\ [Next]_vars => [Kept]_vars
  <2> SUFFICES ASSUME TypeInv, PageInv, Next PROVE Kept
    OBVIOUS
  <2> SUFFICES ASSUME NEW b \in Tabs, token'[b] = None, page'[b] # "/login"
               PROVE  /\ page'[b] = page[b]
                      /\ \/ token[b] = None
                         \/ \E q \in Calls :
                              /\ Answered401(q)
                              /\ call[q].tab = b
                              /\ call[q].quiet
    OBVIOUS
  <2>1. token \in [Tabs -> Tokens] /\ page \in [Tabs -> Pages]
    BY DEF TypeInv, TypeOK
  <2>2. CASE UNCHANGED tabVars
    BY <2>2 DEF tabVars
  <2>3. ASSUME NEW a \in Tabs, UserStep(a)
        PROVE  UNCHANGED tabVars \/ (token'[b] = token[b] /\ page'[b] = page[b])
    BY <2>1, <2>3 DEF UserStep, OpenLogin, Exit, OpenPage, OpenWithoutToken, UsePage,
                      SendPassword, GoTo, tabVars
  <2>4. ASSUME NEW q \in Calls, LoginAnswered(q)
        PROVE  token'[b] = token[b] /\ page'[b] = page[b]
    <3>1. call[q].token # None
      BY <2>4 DEF LoginAnswered, At, PageInv, BringsToken
    <3>2. call[q].tab # b
      BY <2>1, <2>4, <3>1 DEF LoginAnswered
    <3>3. QED
      BY <2>1, <2>4, <3>2 DEF LoginAnswered, GoTo
  <2>5. ASSUME NEW q \in Calls, RowDeleted(q)
        PROVE  token'[b] = token[b] /\ page'[b] = page[b]
    BY <2>1, <2>5 DEF RowDeleted, GoTo
  <2>6. ASSUME NEW q \in Calls, Answered401(q)
        PROVE  /\ page'[b] = page[b]
               /\ token'[b] = token[b] \/ (call[q].tab = b /\ call[q].quiet)
    BY <2>1, <2>6 DEF Answered401, GoTo
  <2>7. ASSUME NEW q \in Calls, CallAnswered(q) \/ ServerStep(q) PROVE UNCHANGED tabVars
    BY <2>7 DEF CallAnswered, ServerStep, RefusePassword, PushToken, ExtendLife,
                CountTokens, DropOldest, RefuseNone, ReadSize, Verify, RedisThrows
  <2>8. ASSUME ListExpires PROVE UNCHANGED tabVars
    BY <2>8 DEF ListExpires
  <2>9. QED
    BY <2>2, <2>3, <2>4, <2>5, <2>6, <2>7, <2>8 DEF Next, BrowserStep
<1>2. QED
  BY InitType, TypeStep, InitPage, PageStep, <1>1, PTL DEF Spec, NoTokenNoPage

-----------------------------------------------------------------------------
(***************************************************************************)
(* The logins that have found the list too long and not yet dropped a token.    *)
(* As long as the list keeps fewer than all fresh tokens it has room for what    *)
(* all calls together may drop.                                                *)
(***************************************************************************)
Dropping == {q \in Calls : At(q, "login", "sized")}

CountInv ==
  \/ fresh + Cardinality(Dropping) <= Len(tokens)
  \/ MaxTokens + 1 + Cardinality(Dropping) <= Len(tokens) + Cardinality(Calls)

LEMMA Counted ==
  /\ IsFiniteSet(Dropping)
  /\ Cardinality(Dropping) \in Nat
  /\ Cardinality(Calls) \in Nat
  /\ Cardinality(Dropping) <= Cardinality(Calls)
<1>1. IsFiniteSet(Calls) /\ Dropping \subseteq Calls
  BY ConsoleAssumption DEF Dropping
<1>2. QED
  BY <1>1, FS_Subset, FS_CardinalityType

LEMMA CountTypes ==
  ASSUME TypeInv
  PROVE  fresh \in Nat /\ Len(tokens) \in Nat /\ MaxTokens \in Nat
BY ConsoleAssumption, LenProperties DEF TypeInv, TypeOK, Tokens

\* The lemmas below compare the sets before and after a step.
LEMMA NoMoreDropping ==
  ASSUME TypeInv, CountInv, Dropping' \subseteq Dropping,
         fresh' = fresh, Len(tokens') = Len(tokens)
  PROVE  CountInv'
<1>1. Cardinality(Dropping') \in Nat /\ Cardinality(Dropping') <= Cardinality(Dropping)
  BY Counted, FS_Subset, FS_CardinalityType
<1>2. QED
  BY <1>1, Counted, CountTypes DEF CountInv

LEMMA OthersStay ==
  ASSUME TypeInv, NEW q \in Calls, NEW r, call' = [call EXCEPT ![q] = r],
         ~(r.kind = "login" /\ r.step = "sized")
  PROVE  Dropping' \subseteq Dropping \ {q}
<1>1. call' \in [Calls -> {call[p] : p \in Calls} \cup {r}]
      /\ call'[q] = r /\ \A p \in Calls \ {q} : call'[p] = call[p]
  BY DEF TypeInv, TypeOK
<1>2. QED
  BY <1>1 DEF Dropping, At

LEMMA InitCount == Init => CountInv
<1> SUFFICES ASSUME Init PROVE CountInv
  OBVIOUS
<1>1. Dropping = {}
  BY DEF Init, Dropping, At, Idle
<1>2. QED
  BY <1>1, FS_EmptySet, EmptySeq DEF Init, CountInv

LEMMA ClientCount ==
  ASSUME TypeInv, CountInv, CallsChange, UNCHANGED storeVars
  PROVE  CountInv'
<1>1. Dropping' \subseteq Dropping
  <2>1. CASE UNCHANGED call
    BY <2>1 DEF Dropping, At
  <2>2. ASSUME NEW q \in Calls, NEW r, New(r), call' = [call EXCEPT ![q] = r]
        PROVE  Dropping' \subseteq Dropping
    BY <2>2, OthersStay DEF New
  <2>3. QED
    BY <2>1, <2>2 DEF CallsChange
<1>2. QED
  BY <1>1, NoMoreDropping DEF storeVars

LEMMA ServerCount ==
  ASSUME TypeInv, CountInv, NEW q \in Calls, ServerStep(q)
  PROVE  CountInv'
<1>0. call[q] \in Requests
  BY AtIsRequest DEF ServerStep, RefusePassword, PushToken, ExtendLife, CountTokens,
     DropOldest, RefuseNone, ReadSize, Verify, RedisThrows, At, TypeInv
<1>1. ASSUME NEW s, call' = [call EXCEPT ![q].step = s],
             call[q].kind = "ask" \/ s # "sized"
      PROVE  Dropping' \subseteq Dropping \ {q}
  <2> DEFINE r == [call[q] EXCEPT !.step = s]
  <2>1. call' = [call EXCEPT ![q] = r] /\ r.kind = call[q].kind /\ r.step = s
    BY <1>0, <1>1 DEF Requests
  <2>2. ~(r.kind = "login" /\ r.step = "sized")
    BY <1>1, <2>1
  <2>3. QED
    BY <2>1, <2>2, OthersStay
<1>2. CASE RefusePassword(q)
  BY <1>1, <1>2, NoMoreDropping DEF RefusePassword, storeVars
<1>3. CASE PushToken(q)
  <2> DEFINE r == [call[q] EXCEPT !.step = "pushed", !.token = pushed + 1]
  <2>1. call' = [call EXCEPT ![q] = r] /\ r.step = "pushed"
    BY <1>0, <1>3 DEF PushToken, Requests
  <2>2. Dropping' \subseteq Dropping
    BY <2>1, OthersStay
  <2>3. fresh' = fresh + 1 /\ Len(tokens') = Len(tokens) + 1
    BY <1>3, PushedList DEF PushToken
  <2>4. Cardinality(Dropping') \in Nat /\ Cardinality(Dropping') <= Cardinality(Dropping)
    BY <2>2, Counted, FS_Subset, FS_CardinalityType
  <2>5. QED
    BY <2>3, <2>4, Counted, CountTypes DEF CountInv
<1>4. CASE ExtendLife(q)
  BY <1>1, <1>4, NoMoreDropping DEF ExtendLife
<1>5. CASE CountTokens(q)
  <2>1. CASE Len(tokens) > MaxTokens
    <3>1. Dropping' \subseteq Dropping \cup {q} /\ q \notin Dropping
          /\ Len(tokens') = Len(tokens) /\ fresh' = fresh
      BY <1>5 DEF CountTokens, Dropping, At, TypeInv, TypeOK, storeVars
    <3>2. Cardinality(Dropping \cup {q}) = Cardinality(Dropping) + 1
          /\ IsFiniteSet(Dropping \cup {q})
      BY <3>1, Counted, FS_AddElement
    <3>3. Cardinality(Dropping \cup {q}) <= Cardinality(Calls)
      BY ConsoleAssumption, FS_Subset DEF Dropping
    <3>4. Cardinality(Dropping') \in Nat
          /\ Cardinality(Dropping') <= Cardinality(Calls)
      BY <3>1, <3>2, <3>3, Counted, FS_Subset, FS_CardinalityType
    <3>5. MaxTokens + 1 + Cardinality(Dropping') <= Len(tokens') + Cardinality(Calls)
      BY <2>1, <3>1, <3>4, Counted, CountTypes
    <3>6. QED
      BY <3>5 DEF CountInv
  <2>2. CASE ~(Len(tokens) > MaxTokens)
    BY <1>1, <1>5, <2>2, NoMoreDropping DEF CountTokens, storeVars
  <2>3. QED
    BY <2>1, <2>2
<1>6. CASE DropOldest(q)
  <2>1. q \in Dropping /\ Dropping' \subseteq Dropping \ {q} /\ fresh' = fresh
    BY <1>1, <1>6 DEF DropOldest, Dropping
  <2>2. Cardinality(Dropping \ {q}) = Cardinality(Dropping) - 1
        /\ IsFiniteSet(Dropping \ {q})
    BY <2>1, Counted, FS_RemoveElement
  <2>3. Cardinality(Dropping') \in Nat /\ Cardinality(Dropping') <= Cardinality(Dropping) - 1
    BY <2>1, <2>2, FS_Subset, FS_CardinalityType
  <2>4. Len(tokens') = IF Len(tokens) = 0 THEN 0 ELSE Len(tokens) - 1
    BY <1>6, PoppedList DEF DropOldest
  <2>5. QED
    BY <2>1, <2>3, <2>4, Counted, CountTypes DEF CountInv
<1>7. CASE RefuseNone(q)
  BY <1>1, <1>7, NoMoreDropping DEF RefuseNone, storeVars
<1>8. CASE ReadSize(q)
  <2> DEFINE r == [call[q] EXCEPT !.step = "sized", !.size = Len(tokens), !.since = pushed]
  <2>1. call' = [call EXCEPT ![q] = r] /\ r.kind = "ask"
    BY <1>0, <1>8 DEF ReadSize, At, Requests
  <2>2. QED
    BY <1>8, <2>1, OthersStay, NoMoreDropping DEF ReadSize, storeVars
<1>9. CASE Verify(q)
  <2>1. call[q].kind = "ask"
    BY <1>9 DEF Verify, At
  <2>2. /\ [Answer(q, "ok") EXCEPT !.token = None].kind = "ask"
        /\ \A o : [Answer(q, "refused") EXCEPT !.overtaken = o].kind = "ask"
    BY <1>0, <2>1 DEF Answer, Requests
  <2>3. CASE FoundAmong(q, call[q].size + 1)
    BY <1>9, <2>2, <2>3, OthersStay, NoMoreDropping DEF Verify, storeVars
  <2>4. CASE ~FoundAmong(q, call[q].size + 1)
    BY <1>9, <2>2, <2>4, OthersStay, NoMoreDropping DEF Verify, storeVars
  <2>5. QED
    BY <2>3, <2>4
<1>10. CASE RedisThrows(q)
  <2>1. /\ [Answer(q, "error") EXCEPT !.token = None].step = "error"
        /\ Answer(q, "failed").step = "failed"
    BY <1>0 DEF Answer, Requests
  <2>2. QED
    BY <1>10, <2>1, OthersStay, NoMoreDropping DEF RedisThrows, storeVars
<1>11. QED
  BY <1>2, <1>3, <1>4, <1>5, <1>6, <1>7, <1>8, <1>9, <1>10 DEF ServerStep

(***************************************************************************)
(* Concurrent logins never drop the newest tokens (RedisStorage.saveToken): of  *)
(* the tokens pushed since the list last expired, the newest MaxTokens + 1 less  *)
(* the number of calls at once are in the list.                                  *)
(***************************************************************************)
THEOREM ConsoleNewestTokensKept == Spec => []NewestTokensKept
<1>1. TypeInv /\ CountInv /\ [Next]_vars => CountInv'
  <2> SUFFICES ASSUME TypeInv, CountInv, [Next]_vars PROVE CountInv'
    OBVIOUS
  <2>1. CASE UNCHANGED vars
    BY <2>1 DEF vars, storeVars, CountInv, Dropping, At
  <2>2. CASE ListExpires
    <3>1. Dropping' = {} /\ tokens' = <<>> /\ fresh' = 0
      BY <2>2 DEF ListExpires, Dropping, At
    <3>2. Cardinality(Dropping') = 0 /\ Len(tokens') = 0
      BY <3>1, FS_EmptySet, EmptySeq
    <3>3. QED
      BY <3>1, <3>2 DEF CountInv
  <2>3. QED
    BY <2>1, <2>2, ClientCalls, ClientCount, ServerCount DEF Next
<1>2. TypeInv /\ CountInv => NewestTokensKept
  <2> SUFFICES ASSUME TypeInv, CountInv, NEW i \in 0 .. pushed,
                      i < fresh, i + Cardinality(Calls) <= MaxTokens
               PROVE  pushed - i \in Held
    BY DEF NewestTokensKept
  <2>1. i + 1 <= Len(tokens)
    BY Counted, CountTypes DEF CountInv
  <2>2. i + 1 \in 1 .. Len(tokens) /\ pushed + 1 - (i + 1) = pushed - i
    BY <2>1, CountTypes, ConsoleAssumption DEF TypeInv, TypeOK, Tokens
  <2>3. QED
    BY <2>2 DEF TypeInv, NewestFirst, Held
<1>3. QED
  BY InitType, TypeStep, InitCount, <1>1, <1>2, PTL DEF Spec

-----------------------------------------------------------------------------
(***************************************************************************)
(* A check that has read the size knows how long the list can have become since *)
(* then; a check that refused a token, and was not overtaken by two pushes,       *)
(* refused one that is not in the list and will not be again.                    *)
(***************************************************************************)
CheckOk(q) ==
  /\ At(q, "ask", "sized") =>
       /\ call[q].since <= pushed
       /\ Len(tokens) <= call[q].size + (pushed - call[q].since)
  /\ At(q, "ask", "refused") /\ ~call[q].overtaken => call[q].token \notin Held

CheckInv == \A q \in Calls : CheckOk(q)

LEMMA HeldArePushed ==
  ASSUME TypeInv
  PROVE  0 \notin Held
<1>1. \A i \in 1 .. Len(tokens) : tokens[i] \in 1 .. MaxPushes
  BY ElementOfSeq DEF TypeInv, TypeOK
<1>2. 0 \notin 1 .. MaxPushes
  BY ConsoleAssumption
<1>3. QED
  BY <1>1, <1>2 DEF Held

\* The list grows with the pushes only.
ListGrows ==
  /\ pushed \in Nat /\ pushed' \in Nat /\ pushed <= pushed'
  /\ Len(tokens) \in Nat /\ Len(tokens') \in Nat
  /\ Len(tokens') <= Len(tokens) + (pushed' - pushed)
  /\ \A t \in Held' : t \in Held \/ t > pushed

LEMMA StepGrows ==
  ASSUME TypeInv, [Next]_vars
  PROVE  ListGrows
<1>1. TypeInv'
  BY TypeStep
<1>2. pushed \in Nat /\ pushed' \in Nat /\ Len(tokens) \in Nat /\ Len(tokens') \in Nat
  BY <1>1, ConsoleAssumption, LenProperties DEF TypeInv, TypeOK, Tokens
<1>3. CASE UNCHANGED <<tokens, pushed>>
  BY <1>2, <1>3 DEF ListGrows, Held
<1>4. CASE ListExpires
  <2>1. tokens' = <<>> /\ pushed' = pushed
    BY <1>4 DEF ListExpires
  <2>2. Len(tokens') = 0 /\ Held' = {}
    BY <2>1, EmptySeq DEF Held
  <2>3. QED
    BY <1>2, <2>1, <2>2 DEF ListGrows
<1>5. ASSUME NEW q \in Calls, PushToken(q) PROVE ListGrows
  BY <1>2, <1>5, PushedList DEF PushToken, ListGrows
<1>6. ASSUME NEW q \in Calls, DropOldest(q) PROVE ListGrows
  BY <1>2, <1>6, PoppedList DEF DropOldest, ListGrows
<1>7. QED
  BY <1>3, <1>4, <1>5, <1>6, ClientCalls
     DEF Next, vars, storeVars, ServerStep, RefusePassword, ExtendLife, CountTokens,
         RefuseNone, ReadSize, Verify, RedisThrows

LEMMA OtherChecks ==
  ASSUME TypeInv, CheckInv, ListGrows, NEW q \in Calls, call'[q] = call[q]
  PROVE  CheckOk(q)'
<1>0. At(q, "ask", "sized") \/ At(q, "ask", "refused") =>
        /\ call[q].token <= pushed /\ call[q].token \in Nat
        /\ call[q].since \in Nat /\ call[q].size \in Nat
  BY AtIsRequest DEF At, TypeInv, Known, Requests, Tokens
<1>1. ASSUME At(q, "ask", "sized")
      PROVE  /\ call[q].since <= pushed'
             /\ Len(tokens') <= call[q].size + (pushed' - call[q].since)
  <2>1. /\ call[q].since <= pushed
        /\ Len(tokens) <= call[q].size + (pushed - call[q].since)
    BY <1>1 DEF CheckInv, CheckOk
  <2>2. QED
    BY <1>0, <1>1, <2>1 DEF ListGrows
<1>2. ASSUME At(q, "ask", "refused"), ~call[q].overtaken
      PROVE  call[q].token \notin Held'
  <2>1. call[q].token \notin Held
    BY <1>2 DEF CheckInv, CheckOk
  <2>2. ~(call[q].token > pushed)
    BY <1>0, <1>2 DEF ListGrows
  <2>3. QED
    BY <2>1, <2>2 DEF ListGrows
<1>3. QED
  BY <1>1, <1>2 DEF CheckOk, At

LEMMA ChangedCheck ==
  ASSUME TypeInv, CheckInv, ListGrows, NEW q \in Calls, NEW r,
         call' = [call EXCEPT ![q] = r], CheckOk(q)'
  PROVE  CheckInv'
<1>1. \A p \in Calls \ {q} : call'[p] = call[p]
  BY DEF TypeInv, TypeOK
<1>2. QED
  BY <1>1, OtherChecks DEF CheckInv

LEMMA NoCheck ==
  ASSUME TypeInv, CheckInv, ListGrows, NEW q \in Calls, NEW r,
         call' = [call EXCEPT ![q] = r],
         r.kind = "ask" => r.step \notin {"sized", "refused"}
  PROVE  CheckInv'
<1>1. call'[q] = r
  BY DEF TypeInv, TypeOK
<1>2. CheckOk(q)'
  BY <1>1 DEF CheckOk, At
<1>3. QED
  BY <1>2, ChangedCheck

LEMMA InitCheck == Init => CheckInv
BY DEF Init, CheckInv, CheckOk, At, Idle

LEMMA ClientCheck ==
  ASSUME TypeInv, CheckInv, ListGrows, CallsChange
  PROVE  CheckInv'
<1>1. CASE UNCHANGED call
  BY <1>1, OtherChecks DEF CheckInv
<1>2. ASSUME NEW q \in Calls, NEW r, New(r), call' = [call EXCEPT ![q] = r]
      PROVE  CheckInv'
  BY <1>2, NoCheck DEF New
<1>3. QED
  BY <1>1, <1>2 DEF CallsChange

LEMMA ServerCheck ==
  ASSUME TypeInv, CheckInv, ListGrows, NEW q \in Calls, ServerStep(q)
  PROVE  CheckInv'
<1>0. call[q] \in Requests /\ call \in [Calls -> Requests \cup {Idle}]
  BY AtIsRequest DEF ServerStep, RefusePassword, PushToken, ExtendLife, CountTokens,
     DropOldest, RefuseNone, ReadSize, Verify, RedisThrows, At, TypeInv, TypeOK
<1>1. ASSUME NEW s, call' = [call EXCEPT ![q].step = s],
             call[q].kind = "ask" => s \notin {"sized", "refused"}
      PROVE  CheckInv'
  <2> DEFINE r == [call[q] EXCEPT !.step = s]
  <2>1. call' = [call EXCEPT ![q] = r] /\ r.kind = call[q].kind /\ r.step = s
    BY <1>0, <1>1 DEF Requests
  <2>2. QED
    BY <1>1, <2>1, NoCheck
<1>2. CASE RefusePassword(q)
  BY <1>1, <1>2 DEF RefusePassword
<1>3. CASE PushToken(q)
  <2> DEFINE r == [call[q] EXCEPT !.step = "pushed", !.token = pushed + 1]
  <2>1. call' = [call EXCEPT ![q] = r] /\ r.step = "pushed"
    BY <1>0, <1>3 DEF PushToken, Requests
  <2>2. QED
    BY <2>1, NoCheck
<1>4. CASE ExtendLife(q)
  BY <1>1, <1>4 DEF ExtendLife
<1>5. CASE CountTokens(q)
  BY <1>1, <1>5 DEF CountTokens, At
<1>6. CASE DropOldest(q)
  BY <1>1, <1>6 DEF DropOldest
<1>7. CASE RefuseNone(q)
  <2> DEFINE r == [call[q] EXCEPT !.step = "refused"]
  <2>1. call' = [call EXCEPT ![q] = r] /\ r.token = 0 /\ r.step = "refused"
        /\ tokens' = tokens
    BY <1>0, <1>7 DEF RefuseNone, Requests, None, storeVars
  <2>2. call'[q] = r
    BY <1>0, <2>1
  <2>3. 0 \notin Held
    BY HeldArePushed
  <2>4. CheckOk(q)'
    BY <2>1, <2>2, <2>3 DEF CheckOk, At, Held
  <2>5. QED
    BY <2>1, <2>4, ChangedCheck
<1>8. CASE ReadSize(q)
  <2> DEFINE r == [call[q] EXCEPT !.step = "sized", !.size = Len(tokens), !.since = pushed]
  <2>1. call' = [call EXCEPT ![q] = r] /\ r.size = Len(tokens) /\ r.since = pushed
        /\ r.step = "sized" /\ tokens' = tokens /\ pushed' = pushed
    BY <1>0, <1>8 DEF ReadSize, Requests, storeVars
  <2>2. call'[q] = r
    BY <1>0, <2>1
  <2>3. CheckOk(q)'
    BY <2>1, <2>2 DEF CheckOk, At, ListGrows
  <2>4. QED
    BY <2>1, <2>3, ChangedCheck
<1>9. CASE Verify(q)
  <2>1. CASE FoundAmong(q, call[q].size + 1)
    <3> DEFINE r == [Answer(q, "ok") EXCEPT !.token = None]
    <3>1. call' = [call EXCEPT ![q] = r] /\ r.step = "ok"
      BY <1>0, <1>9, <2>1 DEF Verify, Answer, Requests
    <3>2. QED
      BY <3>1, NoCheck
  <2>2. CASE ~FoundAmong(q, call[q].size + 1)
    <3> DEFINE r == [Answer(q, "refused") EXCEPT !.overtaken = pushed >= call[q].since + 2]
    <3>1. call' = [call EXCEPT ![q] = r]
          /\ r.step = "refused" /\ r.token = call[q].token
          /\ r.overtaken = (pushed >= call[q].since + 2)
          /\ tokens' = tokens /\ pushed' = pushed
      BY <1>0, <1>9, <2>2 DEF Verify, Answer, Requests, storeVars
    <3>2. call'[q] = r
      BY <1>0, <3>1
    <3>3. ASSUME ~(pushed >= call[q].since + 2) PROVE call[q].token \notin Held
      <4>1. call[q].since \in Nat /\ call[q].size \in Nat
        BY <1>0 DEF Requests, Tokens
      <4>2. /\ pushed \in Nat /\ call[q].since <= pushed
            /\ Len(tokens) \in Nat
            /\ Len(tokens) <= call[q].size + (pushed - call[q].since)
        BY <1>9 DEF Verify, CheckInv, CheckOk, ListGrows
      <4>3. Len(tokens) <= call[q].size + 1
        BY <3>3, <4>1, <4>2
      <4>4. Lesser(call[q].size + 1, Len(tokens)) = Len(tokens)
        BY <4>1, <4>2, <4>3 DEF Lesser
      <4>5. QED
        BY <2>2, <4>4 DEF FoundAmong, Held
    <3>4. CheckOk(q)'
      BY <3>1, <3>2, <3>3 DEF CheckOk, At, Held
    <3>5. QED
      BY <3>1, <3>4, ChangedCheck
  <2>3. QED
    BY <2>1, <2>2
<1>10. CASE RedisThrows(q)
  <2>1. /\ [Answer(q, "error") EXCEPT !.token = None].step = "error"
        /\ Answer(q, "failed").step = "failed"
    BY <1>0 DEF Answer, Requests
  <2>2. QED
    BY <1>10, <2>1, NoCheck DEF RedisThrows
<1>11. QED
  BY <1>2, <1>3, <1>4, <1>5, <1>6, <1>7, <1>8, <1>9, <1>10 DEF ServerStep

LEMMA CheckStep ==
  ASSUME TypeInv, CheckInv, [Next]_vars
  PROVE  CheckInv'
<1>1. ListGrows
  BY StepGrows
<1>2. CASE UNCHANGED vars
  BY <1>1, <1>2, OtherChecks DEF vars, CheckInv
<1>3. CASE ListExpires
  BY <1>1, <1>3, OtherChecks DEF ListExpires, CheckInv
<1>4. QED
  BY <1>1, <1>2, <1>3, ClientCalls, ClientCheck, ServerCheck DEF Next

(***************************************************************************)
(* A tab whose token is in the list is logged out by its user, by the late       *)
(* answer to a call that carried another token, by a check that Redis failed,    *)
(* or by one that two pushes overtook between its two reads: never by an         *)
(* expiry or a trim of the list itself, and never by one push                    *)
(* (DefaultTokenStorage.exist, RedisStorage.findTokens).                         *)
(***************************************************************************)
THEOREM ConsoleLiveSessionsStay == Spec => LiveSessionsStay
<1> DEFINE Kept ==
      \A b \in Tabs : (token[b] \in Held /\ token'[b] = None) =>
        \/ Exit(b)
        \/ \E q \in Calls :
             /\ Answered401(q)
             /\ call[q].tab = b
             /\ \/ call[q].token # token[b]
                \/ call[q].step = "failed"
                \/ call[q].overtaken
<1>1. TypeInv /\ PageInv /\ CheckInv /\ [Next]_vars => [Kept]_vars
  <2> SUFFICES ASSUME TypeInv, PageInv, CheckInv, Next PROVE Kept
    OBVIOUS
  <2> SUFFICES ASSUME NEW b \in Tabs, token[b] \in Held, token'[b] = None, ~Exit(b)
               PROVE  \E q \in Calls :
                        /\ Answered401(q)
                        /\ call[q].tab = b
                        /\ \/ call[q].token # token[b]
                           \/ call[q].step = "failed"
                           \/ call[q].overtaken
    OBVIOUS
  <2>1. token[b] # None /\ token \in [Tabs -> Tokens]
    BY HeldArePushed DEF None, TypeInv, TypeOK
  <2>2. token' # token
    BY <2>1
  <2>3. ASSUME NEW a \in Tabs PROVE ~UserStep(a)
    BY <2>1, <2>2 DEF UserStep, OpenLogin, Exit, OpenPage, OpenWithoutToken, UsePage,
                      SendPassword, tabVars, GoTo
  <2>4. ASSUME NEW q \in Calls PROVE ~LoginAnswered(q)
    BY <2>1 DEF LoginAnswered, At, PageInv, BringsToken
  <2>5. PICK q \in Calls : Answered401(q)
    BY <2>2, <2>3, <2>4
       DEF Next, BrowserStep, CallAnswered, RowDeleted, ServerStep, RefusePassword, PushToken,
           ExtendLife, CountTokens, DropOldest, RefuseNone, ReadSize, Verify,
           RedisThrows, ListExpires, tabVars
  <2>6. call[q].tab = b
    BY <2>1, <2>5 DEF Answered401
  <2>7. \/ call[q].token # token[b] \/ call[q].step = "failed" \/ call[q].overtaken
    BY <2>5 DEF Answered401, CheckInv, CheckOk, At
  <2>8. QED
    BY <2>5, <2>6, <2>7
<1>2. QED
  BY InitType, TypeStep, InitPage, PageStep, InitCheck, CheckStep, <1>1, PTL
     DEF Spec, LiveSessionsStay
=============================================================================
