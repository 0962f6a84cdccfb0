---------------------------- MODULE GroupOutcome ----------------------------
(***************************************************************************)
(* What the group protocol promises whatever fails: the group is decided at  *)
(* most once, a connection commits only once that decision is commit, and an  *)
(* outcome is final.  A connection may be rolled back at any time: a failed    *)
(* join, a delay task, a lost process or the database does so on its own.      *)
(***************************************************************************)
CONSTANTS Connections

VARIABLES verdict, outcome

States == {"none", "open", "committed", "rolledback"}

Init ==
  /\ verdict = "none"
  /\ outcome = [c \in Connections |-> "none"]

Open(c) ==
  /\ outcome[c] = "none"
  /\ outcome' = [outcome EXCEPT ![c] = "open"]
  /\ UNCHANGED verdict

Decide(d) ==
  /\ verdict = "none"
  /\ verdict' = d
  /\ UNCHANGED outcome

Commit(c) ==
  /\ verdict = "commit"
  /\ outcome[c] = "open"
  /\ outcome' = [outcome EXCEPT ![c] = "committed"]
  /\ UNCHANGED verdict

RollBack(S) ==
  /\ \A c \in S : outcome[c] = "open"
  /\ outcome' = [c \in Connections |-> IF c \in S THEN "rolledback" ELSE outcome[c]]
  /\ UNCHANGED verdict

Next ==
  \/ \E c \in Connections : Open(c) \/ Commit(c)
  \/ \E d \in {"commit", "rollback"} : Decide(d)
  \/ \E S \in SUBSET Connections : RollBack(S)

Spec == Init /\ [][Next]_<<verdict, outcome>>
=============================================================================
