--------------------------- MODULE ThreadContext ---------------------------
(***************************************************************************)
(* tx-tracing and the aspect of tx-tc: which group the code a request thread *)
(* runs belongs to.  A TransactionLocalContext is an object kept in a          *)
(* ThreadLocal; the interceptor of an incoming call creates one that joins      *)
(* the caller's group, runTransaction uses the one it finds or creates one for  *)
(* a new group, and clears the ThreadLocal when its end did not throw.  Threads  *)
(* are pooled: what a request leaves behind, the next one finds.                 *)
(***************************************************************************)
EXTENDS Naturals, Sequences

CONSTANTS
  Threads,   \* request threads
  Contexts,  \* TransactionLocalContext objects that may be created
  None,      \* no context, no group, no thread
  MaxDepth   \* bound on runTransaction executions nested on one thread

(***************************************************************************)
(* What applications may do besides running one transaction per request.       *)
(* "endFails": tryEndTransaction throws, as it does for every unit that         *)
(* failed.  "nested": a transactional method calls another on its thread.        *)
(* "repeated": a request runs several, one after the other.  "plain": a request  *)
(* runs none.                                                                    *)
(***************************************************************************)
Habits == {"endFails", "nested", "repeated", "plain"}

ASSUME ContextAssumption ==
  /\ None \notin Threads \cup Contexts
  /\ MaxDepth \in Nat \ {0}

VARIABLES
  busy,      \* the threads that serve a request
  current,   \* current[w]: the ThreadLocal of thread w
  header,    \* header[w]: the group the request of w names, or None
  caller,    \* caller[w]: the thread that waits for w, None for a user's request and
             \* for a call whose caller waits no more
  frames,    \* frames[w]: the contexts of the runTransaction executions of w
  ran,       \* ran[w]: the request of w has run a transaction
  groupOf,   \* groupOf[c]: the group of context c, named after the context
             \* that created it; None while c does not exist
  phase,     \* phase[c]: its TransactionPropagationState
  notified,  \* the groups whose initiator has sent notify-group
  shown      \* history: the habits applications have shown so far

requestVars == <<busy, header, caller>>
vars == <<requestVars, current, frames, ran, groupOf, phase, notified, shown>>

TypeOK ==
  /\ busy \in SUBSET Threads
  /\ current \in [Threads -> Contexts \cup {None}]
  /\ header \in [Threads -> Contexts \cup {None}]
  /\ caller \in [Threads -> Threads \cup {None}]
  /\ frames \in [Threads -> Seq(Contexts)]
  /\ ran \in [Threads -> BOOLEAN]
  /\ groupOf \in [Contexts -> Contexts \cup {None}]
  /\ phase \in [Contexts -> {"none", "create", "join", "notify"}]
  /\ notified \in SUBSET Contexts
  /\ shown \in SUBSET Habits

Init ==
  /\ busy = {}
  /\ current = [w \in Threads |-> None]
  /\ header = [w \in Threads |-> None]
  /\ caller = [w \in Threads |-> None]
  /\ frames = [w \in Threads |-> <<>>]
  /\ ran = [w \in Threads |-> FALSE]
  /\ groupOf = [c \in Contexts |-> None]
  /\ phase = [c \in Contexts |-> "none"]
  /\ notified = {}
  /\ shown = {}

Show(h) == shown' = shown \cup {h}

Running(w) == w \in busy /\ \A v \in busy : caller[v] # w

Inner(w) == frames[w][Len(frames[w])]

\* variant: group and state are mixed up
NewContextSwapped(w, c, g, state) ==
  /\ groupOf[c] = None
  /\ groupOf' = [groupOf EXCEPT ![c] = state]
  /\ phase' = [phase EXCEPT ![c] = g]
  /\ current' = [current EXCEPT ![w] = c]

\* The constructors of TransactionLocalContext push the new object.
NewContext(w, c, g, state) ==
  /\ groupOf[c] = None
  /\ groupOf' = [groupOf EXCEPT ![c] = g]
  /\ phase' = [phase EXCEPT ![c] = state]
  /\ current' = [current EXCEPT ![w] = c]

(***************************************************************************)
(* preHandle: a request with a group header gets a context that joins it,        *)
(* unless the thread has a context.                                              *)
(***************************************************************************)
Serve(w, g, v) ==
  /\ w \notin busy
  /\ busy' = busy \cup {w}
  /\ header' = [header EXCEPT ![w] = g]
  /\ caller' = [caller EXCEPT ![w] = v]
  /\ ran' = [ran EXCEPT ![w] = FALSE]
  /\ \/ /\ g # None
        /\ current[w] = None
        /\ \E c \in Contexts : NewContext(w, c, g, "join")
     \/ /\ g = None \/ current[w] # None
        /\ UNCHANGED <<groupOf, phase, current>>
  /\ UNCHANGED <<frames, notified, shown>>

UserRequest(w) == Serve(w, None, None)

\* build: the group of the calling thread, which must have a context.
Header(v) == groupOf[current[v]]

\* variant: the caller's context is handed over as it is
RemoteCallShared(v, w) ==
  /\ Running(v)
  /\ current[v] # None
  /\ w \notin busy
  /\ busy' = busy \cup {w}
  /\ header' = [header EXCEPT ![w] = Header(v)]
  /\ caller' = [caller EXCEPT ![w] = v]
  /\ ran' = [ran EXCEPT ![w] = FALSE]
  /\ current' = [current EXCEPT ![w] = current[v]]
  /\ UNCHANGED <<frames, groupOf, phase, notified, shown>>

\* A feign or RestTemplate call: the interceptor sends the header along, or throws
\* when the calling thread has no context.
RemoteCall(v, w) ==
  /\ Running(v)
  /\ current[v] # None
  /\ Serve(w, Header(v), v)

\* The call times out at its caller, which goes on, to a fallback or an exception; the
\* thread that was called knows nothing of it and works on.
GiveUp(w) ==
  /\ w \in busy
  /\ caller[w] # None
  /\ caller' = [caller EXCEPT ![w] = None]
  /\ UNCHANGED <<busy, header, current, frames, ran, groupOf, phase, notified, shown>>

\* What entering a transaction shows of the application.
Enter(w) ==
  \/ frames[w] # <<>> /\ Show("nested")
  \/ frames[w] = <<>> /\ ran[w] /\ Show("repeated")
  \/ frames[w] = <<>> /\ ~ran[w] /\ UNCHANGED shown

\* variant: every transaction creates a group
RunTransactionAnew(w) ==
  /\ Running(w)
  /\ Len(frames[w]) < MaxDepth
  /\ Enter(w)
  /\ ran' = [ran EXCEPT ![w] = TRUE]
  /\ \E c \in Contexts : /\ NewContext(w, c, c, "create")
                        /\ frames' = [frames EXCEPT ![w] = Append(@, c)]
  /\ UNCHANGED <<requestVars, notified>>

(***************************************************************************)
(* runTransaction up to the business call: the context in use, or a new one for   *)
(* a new group.                                                                   *)
(***************************************************************************)
RunTransaction(w) ==
  /\ Running(w)
  /\ Len(frames[w]) < MaxDepth
  /\ Enter(w)
  /\ ran' = [ran EXCEPT ![w] = TRUE]
  /\ \/ /\ current[w] # None
        /\ frames' = [frames EXCEPT ![w] = Append(@, current[w])]
        /\ UNCHANGED <<groupOf, phase, current>>
     \/ /\ current[w] = None
        /\ \E c \in Contexts : /\ NewContext(w, c, c, "create")
                               /\ frames' = [frames EXCEPT ![w] = Append(@, c)]
  /\ UNCHANGED <<requestVars, notified>>

\* variant: every end notifies the group
EndNotifies(w) ==
  /\ Running(w)
  /\ frames[w] # <<>>
  /\ phase' = [phase EXCEPT ![Inner(w)] = "notify"]
  /\ notified' = notified \cup {groupOf[Inner(w)]}
  /\ frames' = [frames EXCEPT ![w] = SubSeq(@, 1, Len(@) - 1)]
  /\ current' = [current EXCEPT ![w] = None]
  /\ UNCHANGED <<requestVars, ran, groupOf, shown>>

\* variant: the ThreadLocal is cleared by the initiator only
EndClearsOwn(w) ==
  /\ Running(w)
  /\ frames[w] # <<>>
  /\ LET c == Inner(w)
         isStart == groupOf[c] = c
     IN  /\ phase' = [phase EXCEPT ![c] = IF isStart THEN "notify" ELSE "join"]
         /\ notified' = IF isStart THEN notified \cup {c} ELSE notified
         /\ current' = IF isStart THEN [current EXCEPT ![w] = None] ELSE current
  /\ frames' = [frames EXCEPT ![w] = SubSeq(@, 1, Len(@) - 1)]
  /\ UNCHANGED <<requestVars, ran, groupOf, shown>>

(***************************************************************************)
(* tryEndTransaction and cleanTransaction: the initiator's context notifies, any  *)
(* other joins; the ThreadLocal is cleared unless the end throws.                 *)
(***************************************************************************)
EndTransaction(w) ==
  /\ Running(w)
  /\ frames[w] # <<>>
  /\ LET c == Inner(w)
         isStart == groupOf[c] = c
     IN  /\ phase' = [phase EXCEPT ![c] = IF isStart THEN "notify" ELSE "join"]
         /\ notified' = IF isStart THEN notified \cup {c} ELSE notified
  /\ frames' = [frames EXCEPT ![w] = SubSeq(@, 1, Len(@) - 1)]
  /\ \/ /\ current' = [current EXCEPT ![w] = None]
        /\ UNCHANGED shown
     \/ /\ Show("endFails")
        /\ UNCHANGED current
  /\ UNCHANGED <<requestVars, ran, groupOf>>

Respond(w) ==
  /\ Running(w)
  /\ frames[w] = <<>>
  /\ \/ ran[w] /\ UNCHANGED shown
     \/ ~ran[w] /\ Show("plain")
  /\ busy' = busy \ {w}
  /\ header' = [header EXCEPT ![w] = None]
  /\ caller' = [caller EXCEPT ![w] = None]
  /\ UNCHANGED <<current, frames, ran, groupOf, phase, notified>>

Next ==
  \E w \in Threads :
    \/ UserRequest(w)
    \/ \E v \in Threads : RemoteCall(v, w)
    \/ GiveUp(w)
    \/ RunTransaction(w)
    \/ EndTransaction(w)
    \/ Respond(w)

Spec == Init /\ [][Next]_vars

-----------------------------------------------------------------------------
(***************************************************************************)
(* A context, which has no lock of its own, is used by one thread: it is in the    *)
(* ThreadLocal and on the stack of no other (TransactionLocalContextThreadLocal).   *)
(***************************************************************************)
Uses(w, c) == current[w] = c \/ \E n \in 1..Len(frames[w]) : frames[w][n] = c

ContextsAreConfined ==
  \A c \in Contexts : \A v, w \in Threads : (Uses(v, c) /\ Uses(w, c)) => v = w

(***************************************************************************)
(* While every request runs one transaction that ends normally, a transaction    *)
(* that serves a call of a group runs in that group: its writes go to that        *)
(* group's connection and its join-group names it                                 *)
(* (TransactionPropagation.REQUIRED: "if there is a distributed transaction,       *)
(* join").                                                                         *)
(***************************************************************************)
WorksForCaller ==
  shown = {} =>
    \A w \in Threads :
      (frames[w] # <<>> /\ header[w] # None) => groupOf[Inner(w)] = header[w]

(***************************************************************************)
(* "Notify at last, by the initiator" (TransactionServiceExecutor): once a group   *)
(* has been notified, no thread still runs a transaction of it, unless a call of    *)
(* the group timed out and the thread it was made to, which nobody waits for,       *)
(* still is at work.  Requests that run several transactions in turn do it no harm. *)
(***************************************************************************)
Orphan(w) == w \in busy /\ header[w] # None /\ caller[w] = None

NotifyIsLast ==
  shown \subseteq {"repeated"} =>
    \A w \in Threads : \A n \in 1..Len(frames[w]) :
      groupOf[frames[w][n]] \in notified =>
        \E v \in Threads : Orphan(v) /\ header[v] = groupOf[frames[w][n]]

(***************************************************************************)
(* While ends do not throw and every request runs a transaction, a thread back in   *)
(* its pool has no context.                                                          *)
(***************************************************************************)
CleanAfterOrdinaryEnds ==
  shown \subseteq {"nested", "repeated"} =>
    \A w \in Threads : w \notin busy => current[w] = None
=============================================================================
