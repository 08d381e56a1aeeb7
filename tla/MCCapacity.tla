----------------------------- MODULE MCCapacity -----------------------------
(* Values of the constants of Capacity for TLC: calls that compete for two *)
(* executors and for the quota of their organizations.                     *)
EXTENDS Capacity, TLC

CONSTANTS c1, c2, c3, e1, e2, o1, o2

MCExecutors   == {e1, e2}
MCOrgs        == {o1, o2}
MCMaxInFlight == (e1 :> 1) @@ (e2 :> 2)
MCOrgMax      == (o1 :> 2) @@ (o2 :> 1)

\* Three calls of one organization, whose quota is 2.
ThreeCalls    == {c1, c2, c3}
ThreeOrgOf    == [c \in ThreeCalls |-> o1]
ThreeEligible == [c \in ThreeCalls |-> MCExecutors]

\* Two calls of an organization whose quota is 1, and one of another; the
\* last one names its executor.
MixedOrgOf    == (c1 :> o2) @@ (c2 :> o2) @@ (c3 :> o1)
MixedEligible == [ThreeEligible EXCEPT ![c3] = {e1}]
=============================================================================
