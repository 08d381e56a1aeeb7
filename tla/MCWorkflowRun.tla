--------------------------- MODULE MCWorkflowRun ---------------------------
(***************************************************************************)
(* Small workflows for TLC.  The policy and the set of remote nodes of a   *)
(* run are chosen in its .cfg among the definitions below.                 *)
(***************************************************************************)
EXTENDS WorkflowRun, TLC

\* Every node is allowed.
AllAllowed == [n \in Nodes |-> "allow"]

\* Node 1 needs an approval; the others are allowed.
FirstGated == [AllAllowed EXCEPT ![1] = "require_approval"]

\* Node 2 is denied.
SecondDenied == [AllAllowed EXCEPT ![2] = "deny"]
=============================================================================
