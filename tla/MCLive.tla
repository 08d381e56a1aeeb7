------------------------------- MODULE MCLive -------------------------------
(***************************************************************************)
(* What must happen in the end, in one run: a behaviour is about a run of  *)
(* local nodes, a run with a remote node, the answers to a session's       *)
(* messages, or the invocations of tools in one workspace, and the others  *)
(* stay as they begin.                                                     *)
(***************************************************************************)
EXTENDS WorkflowRun, FiniteSets, TLC

CONSTANTS
    None,
    p1, p2,             \* continuation slots, brains or calls
    e1, e2,             \* executors
    g1, g2              \* requests

VARIABLES
    scene,
    remStatus, remAttemptCount, remCursor, remSteps, remBlocked, remPending, remJobState,
    remAttemptsMade, remJobAttempts, remStalls, remPc, remWAttempt, remWCursor, remWSteps,
    remWPending, remApi, remApprovals, remGw, remContq, remCont, remErrors, remCrashes,
    ansStream, ansLock, ansOverran, ansPin, ansSelector, ansPc, ansBatch, ansPrior, ansExec, ansToExec,
    ansOnline, ansCtx, ansRunning, ansOpenReply, ansTurnReply, ansPosted, ansAnswers, ansFinal,
    ansCompleted, ansControls, ansCrashes, ansDrops,
    invRow, invObjects, invPc, invSeen, invExec, invResponse, invResults, invReply, invTask,
    invVerdict, invDir, invSnapshot, invCommitted, invEnded, invRaced, invFaults, invRequestOf

TwoKinds == (p1 :> "agent.execute") @@ (p2 :> "agent.run")
\* A dispatch that is repeated, or two.
OneOrTwo == {(p1 :> g1) @@ (p2 :> g1), (p1 :> g1) @@ (p2 :> g2)}

\* The run of local nodes: the policy allows them.
AllAllowed == [n \in Nodes |-> "allow"]

Rem == INSTANCE WorkflowRun WITH
    NodeCount <- 2, Remote <- {1}, Policy <- <<"allow", "deny">>, MaxAttempts <- 2, Push <- TRUE,
    Conts <- {p1, p2}, MaxErrors <- 0, MaxCrashes <- 0, MaxApprovals <- 0, AttemptCap <- 3,
    status <- remStatus, attemptCount <- remAttemptCount, cursor <- remCursor, steps <- remSteps,
    blocked <- remBlocked, pending <- remPending, jobState <- remJobState,
    attemptsMade <- remAttemptsMade, jobAttempts <- remJobAttempts, stalls <- remStalls,
    pc <- remPc, wAttempt <- remWAttempt, wCursor <- remWCursor, wSteps <- remWSteps,
    wPending <- remWPending, api <- remApi, approvals <- remApprovals, gw <- remGw,
    contq <- remContq, cont <- remCont, errors <- remErrors, crashes <- remCrashes

Ans == INSTANCE SessionTurn WITH
    Brains <- {p1}, NoBrain <- None, Executors <- {e1, e2}, NoExecutor <- None, Managed <- {e2},
    Selectors <- {"byon", "managed"}, Refusals <- TRUE, MaxTurns <- 8,
    MaxMsgs <- 2, MaxExtras <- 1, MaxCrashes <- 0, MaxDrops <- 1, MaxTogether <- 2,
    stream <- ansStream, lock <- ansLock, overran <- ansOverran, pin <- ansPin,
    selector <- ansSelector, pc <- ansPc,
    batch <- ansBatch, prior <- ansPrior, exec <- ansExec, toExec <- ansToExec, online <- ansOnline,
    ctx <- ansCtx, running <- ansRunning, openReply <- ansOpenReply, turnReply <- ansTurnReply,
    posted <- ansPosted, answers <- ansAnswers, final <- ansFinal, completed <- ansCompleted,
    controls <- ansControls, crashes <- ansCrashes, drops <- ansDrops

Inv == INSTANCE ToolInvocation WITH
    Calls <- {p1, p2}, Requests <- {g1, g2}, Dispatches <- OneOrTwo, Kind <- TwoKinds,
    Executors <- {e1}, NoCall <- None, NoExecutor <- None, MaxAtOnce <- 2, MaxFaults <- 1,
    row <- invRow, objects <- invObjects, pc <- invPc, seen <- invSeen, exec <- invExec,
    response <- invResponse, results <- invResults, reply <- invReply, task <- invTask,
    verdict <- invVerdict, dir <- invDir, snapshot <- invSnapshot, committed <- invCommitted,
    ended <- invEnded, raced <- invRaced, faults <- invFaults, requestOf <- invRequestOf

remVars == <<remStatus, remAttemptCount, remCursor, remSteps, remBlocked, remPending, remJobState,
             remAttemptsMade, remJobAttempts, remStalls, remPc, remWAttempt, remWCursor, remWSteps,
             remWPending, remApi, remApprovals, remGw, remContq, remCont, remErrors, remCrashes>>
ansVars == <<ansStream, ansLock, ansOverran, ansPin, ansSelector, ansPc, ansBatch, ansPrior,
             ansExec, ansToExec, ansOnline, ansCtx, ansRunning, ansOpenReply, ansTurnReply, ansPosted, ansAnswers,
             ansFinal, ansCompleted, ansControls, ansCrashes, ansDrops>>
invVars == <<invRow, invObjects, invPc, invSeen, invExec, invResponse, invResults, invReply,
             invTask, invVerdict, invDir, invSnapshot, invCommitted, invEnded, invRaced, invFaults,
             invRequestOf>>

LiveInit ==
    /\ scene \in {"local", "remote", "answers", "invocations"}
    /\ Init /\ Rem!Init /\ Ans!Init /\ Inv!Init
    /\ scene # "answers" => ansSelector = "byon"
    /\ scene # "invocations" => invRequestOf[p1] = invRequestOf[p2]

\* Resets and cancels, but no message that is sent again.
SentOnce == \A m \in 1..2 : ansPosted'[m] <= 1

LiveNext ==
    \/ /\ scene = "local" /\ Next
       /\ UNCHANGED <<scene, remVars, ansVars, invVars>>
    \/ /\ scene = "remote" /\ Rem!Next
       /\ UNCHANGED <<scene, vars, ansVars, invVars>>
    \/ /\ scene = "answers" /\ Ans!Next /\ SentOnce
       /\ UNCHANGED <<scene, vars, remVars, invVars>>
    \/ /\ scene = "invocations" /\ Inv!Next
       /\ UNCHANGED <<scene, vars, remVars, ansVars>>

\* The fairness of each specification, for the behaviours that are about it.
LiveFairness ==
    /\ WF_vars(scene = "local" /\ ApiStep) /\ WF_vars(scene = "local" /\ RunnerStep)
    /\ WF_remVars(scene = "remote" /\ Rem!ApiStep) /\ WF_remVars(scene = "remote" /\ Rem!RunnerStep)
    /\ \A r \in {q \in Rem!Requests : q.node = 1} :
          WF_remVars(scene = "remote" /\ \E s \in {"succeeded", "failed"} : Rem!GatewayAnswer(r, s))
    /\ \A c \in {p1, p2} : /\ WF_remVars(scene = "remote" /\ Rem!ContStep(c))
                          /\ SF_remVars(scene = "remote" /\ Rem!ContDecide(c))
    /\ WF_ansVars(scene = "answers" /\ Ans!Brain(p1))
    /\ WF_ansVars(scene = "answers" /\ Ans!LockExpires)
    /\ \A c \in {p1, p2} : /\ WF_invVars(scene = "invocations" /\ Inv!BrainStep(c))
                          /\ WF_invVars(scene = "invocations" /\ Inv!TaskStep(c))
    /\ WF_invVars(scene = "invocations" /\ Inv!LockExpires)

LiveSpec == LiveInit /\ [][LiveNext]_<<scene, vars, remVars, ansVars, invVars>> /\ LiveFairness

-----------------------------------------------------------------------------
\* A run blocked on a remote request does not stay blocked on it: the result,
\* the failure or the deadline ends the block.
RemoteBlockResolves == Rem!BlockResolves

\* Every message the edge accepts gets an answer, agent_final or an error:
\* a handler that ends always leaves the session free for the next message.
\* It needs a single brain that does not die.
Answered == Ans!Answered

\* A call that a brain takes is answered, unless that brain dies under it, and
\* whoever had locked the workspace, it is free again.
DispatchAnswered == Inv!DispatchAnswered
=============================================================================
