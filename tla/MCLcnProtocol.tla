--------------------------- MODULE MCLcnProtocol ---------------------------
(***************************************************************************)
(* Deployments for model checking: a unit or two, and the processes they run  *)
(* in.                                                                      *)
(***************************************************************************)
EXTENDS LcnProtocol

CONSTANTS a, u1, u2, i0, i1, i2

OneUnit == {u1}
TwoUnits == {u1, u2}
MCInstances == {i0, i1, i2}
MCApps == {"appA", "appB", "appC"}

\* each unit is the only instance of its module
HostApart == [p \in Parties |-> CASE p = a -> i0 [] p = u1 -> i1 [] p = u2 -> i2]
AppApart == [i \in MCInstances |-> CASE i = i0 -> "appA" [] i = i1 -> "appB" [] i = i2 -> "appC"]
FirstApart == [x \in MCApps |-> CASE x = "appA" -> i0 [] x = "appB" -> i1 [] x = "appC" -> i2]

\* both units are calls of one process
HostShared == [p \in Parties |-> IF p = a THEN i0 ELSE i1]

\* the first unit is a call the initiator's process makes to itself
HostNested == [p \in Parties |-> IF p = u2 THEN i1 ELSE i0]

\* the units run in two processes of one module
AppReplicas == [i \in MCInstances |-> IF i = i0 THEN "appA" ELSE "appB"]
FirstReplicas == [x \in MCApps |-> CASE x = "appA" -> i0 [] x = "appB" -> i1 [] x = "appC" -> i2]
=============================================================================
