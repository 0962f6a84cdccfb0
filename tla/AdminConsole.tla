---------------------------- MODULE AdminConsole ----------------------------
(***************************************************************************)
(* The sessions of the admin console: the browser tabs that run              *)
(* static/admin/js/index.js, their calls, and the tokens the TM keeps for     *)
(* them in one Redis list.  A request thread of a TM handles a call, one Redis *)
(* command at a time, so the handlers of several calls interleave.             *)
(*                                                                          *)
(* A token is named after its place in the order of the pushes.               *)
(***************************************************************************)
EXTENDS Naturals, Sequences, FiniteSets

CONSTANTS
  Tabs,         \* browser tabs, each with a sessionStorage of its own
  Calls,        \* the places for HTTP calls that are under way at once
  MaxTokens,    \* how many tokens saveToken keeps
  MaxPushes,    \* bound: logins that push their token
  Faults        \* what the environment does in a run, a subset of FaultKinds

\* "expire": the list reaches its time to live.  "redis": a Redis command throws.
FaultKinds == {"expire", "redis"}

ASSUME ConsoleAssumption ==
  /\ IsFiniteSet(Calls)
  /\ MaxTokens \in Nat
  /\ MaxPushes \in Nat
  /\ Faults \subseteq FaultKinds

VARIABLES
  tokens,    \* the Redis list, the newest token first
  mortal,    \* the list has a time to live
  pushed,    \* tokens pushed so far
  fresh,     \* of these, the ones pushed since the list last expired
  token,     \* token[b]: the token in the sessionStorage of tab b
  page,      \* page[b]: "/login", "/MonitorDetail", or "/" for every other route
  call       \* call[q]: the call in place q, or Idle

storeVars == <<tokens, mortal, pushed, fresh>>
tabVars == <<token, page>>
vars == <<storeVars, tabVars, call>>

None == 0
Tokens == 0 .. MaxPushes

Idle == [kind |-> "idle"]

\* me() reads the token when it sends a request
Ask(b, t) ==
  [kind |-> "ask", tab |-> b, step |-> "sent", token |-> t, quiet |-> FALSE, size |-> 0,
   since |-> 0, overtaken |-> FALSE]

\* the button of the detail page: the only request whose caller ignores that it failed
Delete(b, t) == [Ask(b, t) EXCEPT !.quiet = TRUE]

Login(b) ==
  [kind |-> "login", tab |-> b, step |-> "sent", token |-> None, quiet |-> FALSE, size |-> 0,
   since |-> 0, overtaken |-> FALSE]

Steps == {"sent", "pushed", "lasting", "sized", "ok", "refused", "failed", "error"}

Requests == [kind : {"ask", "login"}, tab : Tabs, step : Steps, token : Tokens,
             quiet : BOOLEAN, size : Nat, since : Tokens, overtaken : BOOLEAN]

Routes == {"/", "/MonitorDetail"}
Pages == Routes \cup {"/login"}

\* What is left of a call that is answered: the readings of its thread are gone.
Answer(q, step) == [call[q] EXCEPT !.step = step, !.size = 0, !.since = 0]

At(q, kind, step) ==
  /\ call[q].kind = kind
  /\ call[q].step = step

Fault(f) == f \in Faults

Held == {tokens[i] : i \in 1 .. Len(tokens)}

Lesser(m, n) == IF m < n THEN m ELSE n

TypeOK ==
  /\ tokens \in Seq(1 .. MaxPushes)
  /\ mortal \in BOOLEAN
  /\ pushed \in Tokens
  /\ fresh \in Tokens
  /\ token \in [Tabs -> Tokens]
  /\ page \in [Tabs -> Pages]
  /\ call \in [Calls -> Requests \cup {Idle}]

Init ==
  /\ tokens = <<>>
  /\ mortal = FALSE
  /\ pushed = 0
  /\ fresh = 0
  /\ token = [b \in Tabs |-> None]
  /\ page = [b \in Tabs |-> "/login"]
  /\ call = [q \in Calls |-> Idle]

-----------------------------------------------------------------------------
(***************************************************************************)
(* The browser.                                                              *)
(***************************************************************************)
GoTo(b, p) == page' = [page EXCEPT ![b] = p]

OpenLogin(b) ==
  /\ page[b] # "/login"
  /\ GoTo(b, "/login")
  /\ UNCHANGED <<token, storeVars, call>>

Exit(b) ==
  /\ page[b] # "/login"
  /\ token' = [token EXCEPT ![b] = None]
  /\ GoTo(b, "/login")
  /\ UNCHANGED <<storeVars, call>>

\* from the login page, or from page to page
OpenPage(b, q) ==
  /\ token[b] # None
  /\ call[q] = Idle
  /\ call' = [call EXCEPT ![q] = Ask(b, token[b])]
  /\ \E p \in Routes : GoTo(b, p)
  /\ UNCHANGED <<token, storeVars>>

\* A list is turned, or a button pressed: the page asks with whatever token there is.
UsePage(b, q) ==
  /\ page[b] # "/login"
  /\ call[q] = Idle
  /\ \/ call' = [call EXCEPT ![q] = Ask(b, token[b])]
     \/ /\ page[b] = "/MonitorDetail"
        /\ call' = [call EXCEPT ![q] = Delete(b, token[b])]
  /\ UNCHANGED <<tabVars, storeVars>>

\* The header of a page sends a tab without a token to the login page; the list of
\* clients has made its request by then, the home page makes none.
OpenWithoutToken(b, q) ==
  /\ token[b] = None
  /\ GoTo(b, "/login")
  /\ \/ UNCHANGED call
     \/ /\ call[q] = Idle
        /\ call' = [call EXCEPT ![q] = Ask(b, None)]
  /\ UNCHANGED <<token, storeVars>>

\* The login button, or Enter on any page: every login page that has been mounted
\* leaves a key listener on the document, and each sends a login of its own.
SendPassword(b, q) ==
  /\ call[q] = Idle
  /\ call' = [call EXCEPT ![q] = Login(b)]
  /\ UNCHANGED <<tabVars, storeVars>>

\* push("/") mounts the home page, which asks with the new token, save where the
\* home page is shown already
LoginAnswered(q) ==
  /\ At(q, "login", "ok")
  /\ LET b == call[q].tab IN
       /\ token' = [token EXCEPT ![b] = call[q].token]
       /\ GoTo(b, "/")
       /\ \/ call' = [call EXCEPT ![q] = Ask(b, call[q].token)]
          \/ /\ page[b] = "/"
             /\ call' = [call EXCEPT ![q] = Idle]
  /\ UNCHANGED storeVars

\* an error without the code 401 only shows a message
CallAnswered(q) ==
  /\ \/ At(q, "login", "error")
     \/ At(q, "ask", "ok") /\ ~call[q].quiet
  /\ call' = [call EXCEPT ![q] = Idle]
  /\ UNCHANGED <<tabVars, storeVars>>

\* push("/task") once the row is deleted: the page asks when it is mounted, and its
\* header sends a tab without a token to the login page; nothing happens where the
\* page is shown already
RowDeleted(q) ==
  /\ At(q, "ask", "ok")
  /\ call[q].quiet
  /\ LET b == call[q].tab IN
       \/ /\ call' = [call EXCEPT ![q] = Ask(b, token[b])]
          /\ GoTo(b, IF token[b] = None THEN "/login" ELSE "/")
       \/ /\ page[b] = "/"
          /\ call' = [call EXCEPT ![q] = Idle]
          /\ UNCHANGED page
  /\ UNCHANGED <<token, storeVars>>

\* variant: the answer 401 removes the token and leaves the tab where it is
Answered401AndStay(q) ==
  /\ At(q, "ask", "refused") \/ At(q, "ask", "failed")
  /\ token' = [token EXCEPT ![call[q].tab] = None]
  /\ call' = [call EXCEPT ![q] = Idle]
  /\ UNCHANGED <<page, storeVars>>

\* me() removes the token; where the tab goes is up to the caller
Answered401(q) ==
  /\ At(q, "ask", "refused") \/ At(q, "ask", "failed")
  /\ LET b == call[q].tab IN
       /\ token' = [token EXCEPT ![b] = None]
       /\ GoTo(b, IF call[q].quiet THEN page[b] ELSE "/login")
  /\ call' = [call EXCEPT ![q] = Idle]
  /\ UNCHANGED storeVars

-----------------------------------------------------------------------------
(***************************************************************************)
(* AdminServiceImpl.login: a wrong password, or the four commands of          *)
(* saveToken.                                                                 *)
(***************************************************************************)
RefusePassword(q) ==
  /\ At(q, "login", "sent")
  /\ call' = [call EXCEPT ![q].step = "error"]
  /\ UNCHANGED <<tabVars, storeVars>>

\* variant: the token pushed is the one drawn before
PushTokenDrawn(q) ==
  /\ At(q, "login", "sent")
  /\ pushed < MaxPushes
  /\ pushed' = pushed + 1
  /\ fresh' = fresh + 1
  /\ tokens' = <<pushed>> \o tokens
  /\ call' = [call EXCEPT ![q].step = "pushed", ![q].token = pushed]
  /\ UNCHANGED <<mortal, tabVars>>

PushToken(q) ==
  /\ At(q, "login", "sent")
  /\ pushed < MaxPushes
  /\ pushed' = pushed + 1
  /\ fresh' = fresh + 1
  /\ tokens' = <<pushed + 1>> \o tokens
  /\ call' = [call EXCEPT ![q].step = "pushed", ![q].token = pushed + 1]
  /\ UNCHANGED <<mortal, tabVars>>

ExtendLife(q) ==
  /\ At(q, "login", "pushed")
  /\ call' = [call EXCEPT ![q].step = "lasting"]
  /\ mortal' = (tokens # <<>>)
  /\ UNCHANGED <<tokens, pushed, fresh, tabVars>>

\* variant: the oldest token is dropped whatever the size
CountNothing(q) ==
  /\ At(q, "login", "lasting")
  /\ call' = [call EXCEPT ![q].step = "sized"]
  /\ UNCHANGED <<tabVars, storeVars>>

CountTokens(q) ==
  /\ At(q, "login", "lasting")
  /\ call' = [call EXCEPT ![q].step = IF Len(tokens) > MaxTokens THEN "sized" ELSE "ok"]
  /\ UNCHANGED <<tabVars, storeVars>>

DropOldest(q) ==
  /\ At(q, "login", "sized")
  /\ call' = [call EXCEPT ![q].step = "ok"]
  /\ tokens' = SubSeq(tokens, 1, Len(tokens) - 1)
  /\ mortal' = (mortal /\ Len(tokens) > 1)
  /\ UNCHANGED <<pushed, fresh, tabVars>>

(***************************************************************************)
(* TokenInterceptor.preHandle: a token is looked for in the list, which is    *)
(* read by two commands, its size and then that range and one more.            *)
(***************************************************************************)
RefuseNone(q) ==
  /\ At(q, "ask", "sent")
  /\ call[q].token = None
  /\ call' = [call EXCEPT ![q].step = "refused"]
  /\ UNCHANGED <<tabVars, storeVars>>

ReadSize(q) ==
  /\ At(q, "ask", "sent")
  /\ call[q].token # None
  /\ call' = [call EXCEPT ![q].step = "sized", ![q].size = Len(tokens), ![q].since = pushed]
  /\ UNCHANGED <<tabVars, storeVars>>

\* variant: the range ends with the last token that was counted
FoundBefore(q, n) == \E i \in 1 .. Lesser(n - 1, Len(tokens)) : tokens[i] = call[q].token

FoundAmong(q, n) == \E i \in 1 .. Lesser(n, Len(tokens)) : tokens[i] = call[q].token

Verify(q) ==
  /\ At(q, "ask", "sized")
  /\ call' = [call EXCEPT ![q] =
                IF FoundAmong(q, call[q].size + 1)
                THEN [Answer(q, "ok") EXCEPT !.token = None]
                ELSE [Answer(q, "refused") EXCEPT
                        !.overtaken = pushed >= call[q].since + 2]]
  /\ UNCHANGED <<tabVars, storeVars>>

\* a login answers an error, whatever it has done so far; a check answers 401
RedisThrows(q) ==
  /\ Fault("redis")
  /\ \/ /\ call[q].kind = "login"
        /\ call[q].step \in {"sent", "pushed", "lasting", "sized"}
        /\ call' = [call EXCEPT ![q] = [Answer(q, "error") EXCEPT !.token = None]]
     \/ /\ call[q].kind = "ask"
        /\ call[q].step \in {"sent", "sized"}
        /\ call[q].token # None
        /\ call' = [call EXCEPT ![q] = Answer(q, "failed")]
  /\ UNCHANGED <<tabVars, storeVars>>

\* Not between the command that sets the twenty minutes and the end of its login.  By
\* the bound MaxPushes, before the last of the pushes.
ListExpires ==
  /\ Fault("expire")
  /\ pushed < MaxPushes
  /\ mortal
  /\ \A q \in Calls : ~At(q, "login", "lasting") /\ ~At(q, "login", "sized")
  /\ tokens' = <<>>
  /\ mortal' = FALSE
  /\ fresh' = 0
  /\ UNCHANGED <<pushed, tabVars, call>>

-----------------------------------------------------------------------------
BrowserStep(q) == LoginAnswered(q) \/ CallAnswered(q) \/ RowDeleted(q) \/ Answered401(q)

ServerStep(q) ==
  \/ RefusePassword(q)
  \/ PushToken(q)
  \/ ExtendLife(q)
  \/ CountTokens(q)
  \/ DropOldest(q)
  \/ RefuseNone(q)
  \/ ReadSize(q)
  \/ Verify(q)
  \/ RedisThrows(q)

UserStep(b) ==
  \/ OpenLogin(b)
  \/ Exit(b)
  \/ \E q \in Calls :
       \/ OpenPage(b, q)
       \/ OpenWithoutToken(b, q)
       \/ UsePage(b, q)
       \/ SendPassword(b, q)

Next ==
  \/ \E b \in Tabs : UserStep(b)
  \/ \E q \in Calls : BrowserStep(q) \/ ServerStep(q)
  \/ ListExpires

Spec == Init /\ [][Next]_vars

\* Servers handle calls and tabs handle answers; what users do is up to them.
FairSpec == Spec /\ \A q \in Calls : WF_vars(BrowserStep(q) \/ ServerStep(q))

-----------------------------------------------------------------------------
(***************************************************************************)
(* Logins that run at the same time may each find the list too long and drop   *)
(* more than is too much, but never the newest tokens: with K calls at once,     *)
(* the newest MaxTokens + 1 - K pushed since the list last expired are there      *)
(* (RedisStorage.saveToken).                                                     *)
(***************************************************************************)
NewestTokensKept ==
  \A i \in 0 .. pushed : i < fresh /\ i + Cardinality(Calls) <= MaxTokens => pushed - i \in Held

(***************************************************************************)
(* No tab comes to a page without a token, whatever order answers arrive in and  *)
(* whichever login or 401 they belong to; and only the 401 to a row's deletion,   *)
(* which the detail page ignores, takes the token of a tab that stays on its page *)
(* (me and its callers in index.js).                                              *)
(***************************************************************************)
NoTokenNoPage ==
  [][\A b \in Tabs : (token'[b] = None /\ page'[b] # "/login") =>
       /\ page'[b] = page[b]
       /\ \/ token[b] = None
          \/ \E q \in Calls :
               /\ Answered401(q)
               /\ call[q].tab = b
               /\ call[q].quiet]_vars

(***************************************************************************)
(* A tab whose token is in the list is logged out only by its user, by the      *)
(* late answer to a call that carried another token, by a check that Redis        *)
(* failed, or by one that two logins overtook between its two reads               *)
(* (DefaultTokenStorage.exist, RedisStorage.findTokens).                          *)
(***************************************************************************)
LiveSessionsStay ==
  [][\A b \in Tabs : (token[b] \in Held /\ token'[b] = None) =>
       \/ Exit(b)
       \/ \E q \in Calls :
            /\ Answered401(q)
            /\ call[q].tab = b
            /\ \/ call[q].token # token[b]
               \/ call[q].step = "failed"
               \/ call[q].overtaken]_vars

(***************************************************************************)
(* A tab that asks with a token the TM no longer has loses it and comes to the   *)
(* login page; the deletion of a row, whose caller ignores that it failed, does    *)
(* not promise that (TokenInterceptor.preHandle answers 401, me and its callers    *)
(* act on it).                                                                    *)
(***************************************************************************)
AsksInVain(q, b) ==
  /\ call[q].kind = "ask"
  /\ call[q].step \in {"sent", "sized"}
  /\ ~call[q].quiet
  /\ call[q].tab = b
  /\ call[q].token \notin Held

DeadSessionsEnd ==
  \A b \in Tabs :
    (\E q \in Calls : AsksInVain(q, b)) ~> (token[b] = None /\ page[b] = "/login")
=============================================================================
