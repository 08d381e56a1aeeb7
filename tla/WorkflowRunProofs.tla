------------------------- MODULE WorkflowRunProofs -------------------------
(***************************************************************************)
(* TLAPS proofs about WorkflowRun, for every workflow, policy, number of   *)
(* attempts, number of continuation workers and bound on faults.           *)
(***************************************************************************)
EXTENDS WorkflowRun, SequenceTheorems, TLAPS

\* Where the runner is in the middle of an attempt it has started.
Live == {"node", "ckpt", "block", "poll", "approve", "blockAppr", "succeed"}

\* The runner's attempt is the row's, and is about to become it at "start".
AttemptInv ==
    /\ pc = "start" => wAttempt = attemptCount + 1
    /\ pc \in Live => wAttempt = attemptCount /\ wAttempt > 0
    /\ status = "running" => attemptCount > 0

\* p is no result, or the one of the remote node after the first k.
OwnPending(p, k, a) == p # NoBlock => p = Req(k + 1, a) /\ k + 1 \in Remote

\* What the runner holds in memory.
LocalInv ==
    /\ pc \in Live =>
        /\ OwnSteps(wSteps, wCursor, wAttempt) /\ OwnPending(wPending, wCursor, wAttempt)
        /\ pc # "poll" => blocked = NoBlock
        /\ pc \in {"block", "poll"} => wCursor + 1 \in Remote
        /\ pc \in {"approve", "blockAppr"} => wCursor < NodeCount
        /\ pc = "succeed" => wCursor = NodeCount
    /\ pc = "start" => wSteps = << >> /\ wCursor = 0 /\ wPending = NoBlock

\* What the row holds.
RowInv ==
    /\ blocked.kind = "req" => blocked = Req(cursor + 1, attemptCount) /\ cursor + 1 \in Remote
    /\ status = "running" =>
        OwnSteps(steps, cursor, attemptCount) /\ OwnPending(pending, cursor, attemptCount)
    /\ status = "succeeded" =>
        /\ OwnSteps(steps, NodeCount, attemptCount)
        /\ blocked = NoBlock /\ pc \notin Live \cup {"start"}

\* What a continuation worker read from the row it is about to update.
ContInv ==
    \A c \in Conts : cont[c].pc \in {"checked", "clear"} =>
        OwnSteps(cont[c].steps, cont[c].job.req.node - 1, cont[c].job.req.no)

IInv == TypeOK /\ AttemptInv /\ LocalInv /\ RowInv /\ ContInv

-----------------------------------------------------------------------------
(* Facts about the data types.                                             *)

\* The values written to the columns have the columns' types.
LEMMA BlockTypes ==
    /\ NoBlock \in Blocks
    /\ \A n, a \in Nat : Req(n, a) \in Blocks /\ Appr(n, a) \in Blocks
    /\ Requests \subseteq Blocks
    /\ << >> \in Seq(Step)
  BY NodeAssumption, BoundAssumption DEF NoBlock, Req, Appr, Blocks, Requests, Nodes

\* A step appended to a list of steps makes a list of steps.
LEMMA AppendType ==
    ASSUME NEW ss \in Seq(Step), NEW n \in Nat, NEW v \in Blocks
    PROVE  Append(ss, [node |-> n, via |-> v]) \in Seq(Step)
  BY DEF Step

\* The request of a remote node is a request.
LEMMA RequestType ==
    ASSUME NEW n \in Remote, NEW a \in 1..AttemptCap
    PROVE  Req(n, a) \in Requests
  BY NodeAssumption DEF Req, Requests

\* A continuation worker at work has a job.
LEMMA ContTypes ==
    ASSUME cont \in [Conts -> ContState], NEW c \in Conts
    PROVE  /\ [cont EXCEPT ![c] = IdleCont] \in [Conts -> ContState]
           /\ cont[c].pc # "idle" =>
                cont[c].job \in ContJob /\ cont[c].steps \in Seq(Step)
  BY DEF ContState, IdleCont

\* It stays well typed when it moves.
LEMMA SetContType ==
    ASSUME cont \in [Conts -> ContState], NEW c \in Conts, cont[c].pc # "idle",
           NEW p \in ContPcs, SetCont(c, p)
    PROVE  cont' \in [Conts -> ContState]
  BY DEF ContState, IdleCont, SetCont

\* It changes its control point and nothing else.
LEMMA SetContEffect ==
    ASSUME cont \in [Conts -> ContState], NEW c \in Conts, NEW p, SetCont(c, p)
    PROVE  /\ cont'[c].pc = p /\ cont'[c].job = cont[c].job /\ cont'[c].steps = cont[c].steps
           /\ \A d \in Conts \ {c} : cont'[d] = cont[d]
  BY DEF ContState, IdleCont, SetCont

\* An approval request stays well typed when it is decided.
LEMMA SetApprovalType ==
    ASSUME approvals \in Seq(Approval), NEW k \in 1..Len(approvals),
           NEW v \in Verdicts, NEW g \in Stages, SetApproval(k, v, g)
    PROVE  approvals' \in Seq(Approval)
  <1>1. approvals[k] \in Approval
    BY ElementOfSeq
  <1>2. [approvals[k] EXCEPT !.status = v, !.stage = g] \in Approval
    BY <1>1 DEF Approval
  <1> QED
    BY <1>2, ExceptSeq DEF SetApproval

\* Nor does it lose its type when its handler goes on.
LEMMA SetStageType ==
    ASSUME approvals \in Seq(Approval), NEW k \in 1..Len(approvals),
           NEW g \in Stages, SetStage(k, g)
    PROVE  approvals' \in Seq(Approval)
  <1>1. approvals[k] \in Approval
    BY ElementOfSeq
  <1>2. [approvals[k] EXCEPT !.stage = g] \in Approval
    BY <1>1 DEF Approval
  <1> QED
    BY <1>2, ExceptSeq DEF SetStage

-----------------------------------------------------------------------------
\* Every step keeps the types, given the rest of the invariant.
LEMMA TypeStep ==
    ASSUME IInv, [Next]_vars
    PROVE  TypeOK'
  <1> TypeOK
    BY DEF IInv
  <1> MaxAttempts \in Nat /\ AttemptCap \in Nat
    BY BoundAssumption
  <1> USE BlockTypes
  <1> USE DEF rowVars, jobVars, localVars, apiVars, remoteVars, faultVars,
              TypeOK, Statuses, JobStates, Pcs, TryPcs
  <1>1. CASE ApiCreateRun
    BY <1>1 DEF ApiCreateRun
  <1>2. CASE ApiEnqueueRun
    BY <1>2 DEF ApiEnqueueRun, queueAdd
  <1>3. CASE ApiEnqueueRunFails
    BY <1>3 DEF ApiEnqueueRunFails, queueAdd
  <1>4. CASE deleteQueuedWorkflowRun
    BY <1>4 DEF deleteQueuedWorkflowRun
  <1>5. CASE RunnerTake
    BY <1>5 DEF RunnerTake
  <1>6. CASE RunnerNothingToDo
    BY <1>6 DEF RunnerNothingToDo, RunnerOnly
  <1>7. CASE RunnerBegin
    BY <1>7 DEF RunnerBegin, RunnerOnly
  <1>8. CASE RunnerResume
    BY <1>8 DEF RunnerResume, RunnerOnly
  <1>9. CASE RunnerStart
    <2>1. CASE status = "none"
      BY <1>9, <2>1 DEF RunnerStart
    <2>2. CASE status # "none"
      BY <1>9, <2>2 DEF RunnerStart, markWorkflowRunRunning
    <2> QED
      BY <2>1, <2>2
  <1>10. CASE RunnerAllNodesDone
    BY <1>10 DEF RunnerAllNodesDone, RunnerOnly
  <1>11. CASE RunnerNotCleared
    BY <1>11 DEF RunnerNotCleared, RunnerOnly
  <1>13. CASE RunnerExecuteLocal
    <2>1. CASE PushStep(NoBlock) /\ UNCHANGED wPending
      BY <1>13, <2>1, AppendType DEF RunnerExecuteLocal, RunnerOnly, PushStep, Current
    <2>2. CASE pc' = "catch" /\ UNCHANGED localVars
      BY <1>13, <2>2 DEF RunnerExecuteLocal, RunnerOnly
    <2> QED
      BY <1>13, <2>1, <2>2 DEF RunnerExecuteLocal
  <1>14. CASE RunnerConsumeResult
    BY <1>14, AppendType DEF RunnerConsumeResult, RunnerOnly, PushStep, Current
  <1>15. CASE RunnerDispatch
    BY <1>15 DEF RunnerDispatch, Current
  <1>16. CASE RunnerCheckpoint
    BY <1>16 DEF RunnerCheckpoint, updateWorkflowRunProgress
  <1>17. CASE RunnerBlock
    BY <1>17 DEF RunnerBlock, markWorkflowRunBlocked, Current
  <1>18. CASE RunnerEnqueuePoll
    <2>1. Req(wCursor + 1, wAttempt) \in Requests
      BY <1>18, RequestType DEF RunnerEnqueuePoll, IInv, AttemptInv, LocalInv, Live
    <2>2. [type |-> "poll", req |-> Req(wCursor + 1, wAttempt), result |-> "none"] \in ContJob
      BY <2>1 DEF ContJob
    <2> QED
      BY <1>18, <2>2 DEF RunnerEnqueuePoll, Current
  <1>19. CASE createWorkflowApprovalRequest
    BY <1>19 DEF createWorkflowApprovalRequest, Current, Approval, Verdicts, Stages
  <1>20. CASE RunnerBlockOnApproval
    BY <1>20 DEF RunnerBlockOnApproval, markWorkflowRunBlocked, Current
  <1>21. CASE RunnerSucceed
    BY <1>21 DEF RunnerSucceed, markWorkflowRunSucceeded
  <1>22. CASE RunnerFinish
    BY <1>22 DEF RunnerFinish, RunnerOnly
  <1>23. CASE RunnerCatch
    BY <1>23 DEF RunnerCatch, markWorkflowRunQueuedForRetry, markWorkflowRunFailed
  <1>24. CASE RunnerAck
    BY <1>24 DEF RunnerAck, RunnerEnds
  <1>25. CASE RunnerNack
    BY <1>25 DEF RunnerNack, RunnerEnds
  <1>26. CASE RunnerThrows
    BY <1>26 DEF RunnerThrows
  <1>27. CASE RunnerCrash
    BY <1>27 DEF RunnerCrash, RunnerEnds
  <1>28. CASE QueueEvict
    BY <1>28 DEF QueueEvict
  <1>29. ASSUME NEW r \in Requests, NEW s \in {"succeeded", "failed"}, GatewayAnswer(r, s)
        PROVE  TypeOK'
    BY <1>29 DEF GatewayAnswer, ContJob
  <1>30. ASSUME NEW c \in Conts, ContTake(c)
        PROVE  TypeOK'
    BY <1>30 DEF ContTake, ContState, ContJob, ContPcs
  <1>31. ASSUME NEW c \in Conts, ContDecide(c)
        PROVE  TypeOK'
    <2>1. cont' \in [Conts -> ContState]
      BY <1>31, SetContType DEF ContDecide, ContPcs
    <2> QED
      BY <1>31, <2>1 DEF ContDecide
  <1>32. ASSUME NEW c \in Conts, ContNotReady(c)
        PROVE  TypeOK'
    BY <1>32, ContTypes DEF ContNotReady
  <1>33. ASSUME NEW c \in Conts, clearWorkflowRunBlock(c)
        PROVE  TypeOK'
    <2>1. cont[c].job.req \in Requests /\ cont[c].steps \in Seq(Step)
      BY <1>33, ContTypes DEF clearWorkflowRunBlock, ContJob
    <2>2. cont' \in [Conts -> ContState]
      BY <1>33, ContTypes, SetContType DEF clearWorkflowRunBlock, ContPcs
    <2> QED
      BY <1>33, <2>1, <2>2 DEF clearWorkflowRunBlock
  <1>34. ASSUME NEW c \in Conts, applyRemoteFailure(c)
        PROVE  TypeOK'
    <2>1. cont' \in [Conts -> ContState]
      BY <1>34, ContTypes, SetContType DEF applyRemoteFailure, ContPcs
    <2> QED
      BY <1>34, <2>1
         DEF applyRemoteFailure, markWorkflowRunFailed, markWorkflowRunQueuedForRetry
  <1>35. ASSUME NEW c \in Conts, ContEnqueue(c)
        PROVE  TypeOK'
    BY <1>35, ContTypes DEF ContEnqueue, enqueue
  <1>36. ASSUME NEW c \in Conts, ContCrash(c)
        PROVE  TypeOK'
    <2>1. cont[c].job \in ContJob /\ cont' \in [Conts -> ContState]
      BY <1>36, ContTypes DEF ContCrash
    <2>2. contq' \in SUBSET ContJob
      BY <1>36, <2>1 DEF ContCrash
    <2> QED
      BY <1>36, <2>1, <2>2 DEF ContCrash
  <1>37. ASSUME NEW k \in 1..Len(approvals), ApprovalLapses(k)
        PROVE  TypeOK'
    <2>1. approvals[k] \in Approval
      BY ElementOfSeq
    <2>2. [approvals[k] EXCEPT !.lapsed = TRUE] \in Approval
      BY <2>1 DEF Approval
    <2>3. approvals' \in Seq(Approval)
      BY <1>37, <2>2, ExceptSeq DEF ApprovalLapses
    <2> QED
      BY SMTT(30), <1>37, <2>3 DEF ApprovalLapses, ApprovalOnly
  <1>38. ASSUME NEW k \in 1..Len(approvals), Approve(k)
        PROVE  TypeOK'
    <2>1. approvals' \in Seq(Approval)
      BY <1>38, SetApprovalType DEF Approve, Stages, Verdicts
    <2> QED
      BY <1>38, <2>1 DEF Approve, ApprovalOnly
  <1>39. ASSUME NEW k \in 1..Len(approvals), Reject(k)
        PROVE  TypeOK'
    <2>1. approvals' \in Seq(Approval)
      BY <1>39, SetApprovalType DEF Reject, Stages, Verdicts
    <2> QED
      BY <1>39, <2>1 DEF Reject, ApprovalOnly
  <1>40. ASSUME NEW k \in 1..Len(approvals), ClearApprovalBlock(k)
        PROVE  TypeOK'
    <2>1. approvals' \in Seq(Approval)
      BY <1>40, SetStageType DEF ClearApprovalBlock, Stages, Verdicts
    <2> QED
      BY <1>40, <2>1 DEF ClearApprovalBlock
  <1>41. ASSUME NEW k \in 1..Len(approvals), ApproveEnqueue(k)
        PROVE  TypeOK'
    <2>1. approvals' \in Seq(Approval)
      BY <1>41, SetStageType DEF ApproveEnqueue, Stages, Verdicts
    <2> QED
      BY <1>41, <2>1 DEF ApproveEnqueue, queueAdd
  <1>42. ASSUME NEW k \in 1..Len(approvals), ApproveEnqueueFails(k)
        PROVE  TypeOK'
    <2>1. approvals' \in Seq(Approval)
      BY <1>42, SetStageType DEF ApproveEnqueueFails, Stages
    <2>2. CASE queueAdd(MaxAttempts)
      BY SMTT(30), <1>42, <2>1, <2>2 DEF ApproveEnqueueFails, queueAdd
    <2>3. CASE UNCHANGED jobVars
      BY <1>42, <2>1, <2>3 DEF ApproveEnqueueFails
    <2> QED
      BY <1>42, <2>2, <2>3 DEF ApproveEnqueueFails
  <1>43. ASSUME NEW k \in 1..Len(approvals), DecisionThrows(k)
        PROVE  TypeOK'
    <2>1. approvals' \in Seq(Approval)
      BY <1>43, SetStageType DEF DecisionThrows, Stages, Verdicts
    <2> QED
      BY <1>43, <2>1 DEF DecisionThrows
  <1>44. ASSUME NEW k \in 1..Len(approvals), FailAfterDecision(k)
        PROVE  TypeOK'
    <2>1. approvals' \in Seq(Approval)
      BY <1>44, SetStageType DEF FailAfterDecision, Stages, Verdicts
    <2> QED
      BY <1>44, <2>1 DEF FailAfterDecision, markWorkflowRunFailed
  <1>45. CASE UNCHANGED vars
    BY <1>45 DEF vars
  <1>46. ASSUME NEW k \in 1..Len(approvals), FindBlockedRun(k)
        PROVE  TypeOK'
    <2>1. approvals' \in Seq(Approval)
      BY <1>46, SetStageType DEF FindBlockedRun, Stages, Verdicts
    <2> QED
      BY <1>46, <2>1 DEF FindBlockedRun, ApprovalOnly
  <1>47. QED
    BY <1>1, <1>2, <1>3, <1>4, <1>5, <1>6, <1>7, <1>8, <1>9, <1>10, <1>11, <1>13, <1>14, <1>15, <1>16, <1>17, <1>18, <1>19, <1>20, <1>21, <1>22, <1>23, <1>24, <1>25, <1>26, <1>27, <1>28, <1>29, <1>30, <1>31, <1>32, <1>33, <1>34, <1>35, <1>36, <1>37, <1>38, <1>39, <1>40, <1>41, <1>42, <1>43, <1>44, <1>45, <1>46
       DEF Next, ApiStep, RunnerStep, ContStep, ApprovalStep

-----------------------------------------------------------------------------
(* The processes other than the runner leave its local state alone, and    *)
(* change the row only as follows.                                         *)

\* A step of the API, the queue, the gateway, a continuation or an approval.
Others ==
    \/ ApiStep \/ QueueEvict
    \/ \E r \in Requests, s \in {"succeeded", "failed"} : GatewayAnswer(r, s)
    \/ \E c \in Conts : ContStep(c) \/ ContCrash(c)
    \/ \E k \in 1..Len(approvals) : ApprovalStep(k)

\* No process but the runner starts an attempt, sets a block or succeeds.
LEMMA OthersFrame ==
    ASSUME Others
    PROVE  /\ UNCHANGED <<pc, wAttempt, wCursor, wSteps, wPending, attemptCount>>
           /\ blocked' \in {blocked, NoBlock}
           /\ status' \in {status, "none", "queued", "failed"}
  <1> USE DEF rowVars, jobVars, localVars, apiVars, remoteVars, faultVars
  <1>1. CASE ApiStep
    BY <1>1 DEF ApiStep, ApiCreateRun, ApiEnqueueRun, ApiEnqueueRunFails, deleteQueuedWorkflowRun
  <1>2. CASE QueueEvict
    BY <1>2 DEF QueueEvict
  <1>3. CASE \E r \in Requests, s \in {"succeeded", "failed"} : GatewayAnswer(r, s)
    BY <1>3 DEF GatewayAnswer
  <1>4. ASSUME NEW c \in Conts, ContStep(c) \/ ContCrash(c)
        PROVE  /\ UNCHANGED <<pc, wAttempt, wCursor, wSteps, wPending, attemptCount>>
               /\ blocked' \in {blocked, NoBlock}
               /\ status' \in {status, "none", "queued", "failed"}
    BY <1>4 DEF ContStep, ContTake, ContDecide, ContNotReady, clearWorkflowRunBlock,
                applyRemoteFailure, ContEnqueue, ContCrash,
                markWorkflowRunFailed, markWorkflowRunQueuedForRetry
  <1>5. ASSUME NEW k \in 1..Len(approvals), ApprovalStep(k)
        PROVE  /\ UNCHANGED <<pc, wAttempt, wCursor, wSteps, wPending, attemptCount>>
               /\ blocked' \in {blocked, NoBlock}
               /\ status' \in {status, "none", "queued", "failed"}
    BY <1>5 DEF ApprovalStep, ApprovalLapses, Approve, Reject, FindBlockedRun, ClearApprovalBlock, ApproveEnqueue,
                ApproveEnqueueFails, DecisionThrows, FailAfterDecision, ApprovalOnly,
                markWorkflowRunFailed
  <1> QED
    BY <1>1, <1>2, <1>3, <1>4, <1>5 DEF Others

\* The runner's attempt stays the row's.
LEMMA AttemptStep ==
    ASSUME IInv, [Next]_vars
    PROVE  AttemptInv'
  <1> TypeOK /\ AttemptInv
    BY DEF IInv
  <1> USE DEF rowVars, jobVars, localVars, apiVars, remoteVars, faultVars, TypeOK,
              AttemptInv, Live, RunnerOnly
  <1>1. CASE Others
    BY <1>1, OthersFrame
  <1>2. CASE UNCHANGED vars
    BY <1>2 DEF vars
  <1>3. CASE RunnerBegin
    BY <1>3 DEF RunnerBegin
  <1>4. CASE RunnerResume
    BY <1>4 DEF RunnerResume
  <1>5. CASE RunnerStart
    BY <1>5 DEF RunnerStart, markWorkflowRunRunning
  <1>6. CASE RunnerTake \/ RunnerNothingToDo \/ RunnerThrows \/ RunnerFinish
    BY <1>6 DEF RunnerTake, RunnerNothingToDo, RunnerThrows, RunnerFinish, TryPcs
  <1>7. CASE RunnerAck \/ RunnerNack \/ RunnerCrash
    BY <1>7 DEF RunnerAck, RunnerNack, RunnerCrash, RunnerEnds
  <1>8. CASE RunnerAllNodesDone \/ RunnerNotCleared
    BY <1>8 DEF RunnerAllNodesDone, RunnerNotCleared
  <1>9. CASE RunnerExecuteLocal \/ RunnerConsumeResult \/ RunnerDispatch
    BY <1>9 DEF RunnerExecuteLocal, RunnerConsumeResult, RunnerDispatch, PushStep
  <1>10. CASE RunnerCheckpoint \/ RunnerBlock \/ RunnerEnqueuePoll
    BY <1>10 DEF RunnerCheckpoint, RunnerBlock, RunnerEnqueuePoll,
                 updateWorkflowRunProgress, markWorkflowRunBlocked
  <1>11. CASE createWorkflowApprovalRequest \/ RunnerBlockOnApproval
    BY <1>11 DEF createWorkflowApprovalRequest, RunnerBlockOnApproval, markWorkflowRunBlocked
  <1>12. CASE RunnerSucceed \/ RunnerCatch
    BY <1>12 DEF RunnerSucceed, RunnerCatch, markWorkflowRunSucceeded,
                 markWorkflowRunQueuedForRetry, markWorkflowRunFailed
  <1> QED
    BY <1>1, <1>2, <1>3, <1>4, <1>5, <1>6, <1>7, <1>8, <1>9, <1>10, <1>11, <1>12
       DEF Next, RunnerStep, Others

-----------------------------------------------------------------------------
(* How the list of steps grows.                                            *)

\* A new attempt has no steps.
LEMMA OwnEmpty == \A a : OwnSteps(<< >>, 0, a)
  BY NodeAssumption DEF OwnSteps

\* The step of the next node continues the list.
LEMMA OwnAppend ==
    ASSUME NEW ss \in Seq(Step), NEW k \in Nat, NEW a \in Nat, NEW v \in Blocks,
           OwnSteps(ss, k, a), k < NodeCount,
           v = IF k + 1 \in Remote THEN Req(k + 1, a) ELSE NoBlock
    PROVE  OwnSteps(Append(ss, [node |-> k + 1, via |-> v]), k + 1, a)
  <1> DEFINE e == [node |-> k + 1, via |-> v]
             t == Append(ss, e)
  <1>1. e \in Step /\ Len(ss) = k
    BY DEF Step, OwnSteps
  <1>2. Len(t) = k + 1 /\ k + 1 <= NodeCount
    BY <1>1, NodeAssumption
  <1>3. ASSUME NEW i \in 1..(k + 1)
        PROVE  t[i] = [node |-> i, via |-> IF i \in Remote THEN Req(i, a) ELSE NoBlock]
    <2>1. CASE i = k + 1
      BY <1>1, <2>1
    <2>2. CASE i \in 1..k
      BY <1>1, <2>2 DEF OwnSteps
    <2>3. i = k + 1 \/ i \in 1..k
      OBVIOUS
    <2> QED
      BY <2>1, <2>2, <2>3, Zenon
  <1> QED
    BY <1>2, <1>3 DEF OwnSteps

\* What the runner holds stays the output of its own attempt.
LEMMA LocalStep ==
    ASSUME IInv, [Next]_vars
    PROVE  LocalInv'
  <1> TypeOK /\ AttemptInv /\ LocalInv /\ RowInv
    BY DEF IInv
  <1> NodeCount \in Nat /\ Remote \subseteq 1..NodeCount
    BY NodeAssumption DEF Nodes
  <1> USE DEF rowVars, jobVars, localVars, apiVars, remoteVars, faultVars, TypeOK,
              LocalInv, Live, RunnerOnly
  <1>1. CASE Others
    BY <1>1, OthersFrame
  <1>2. CASE UNCHANGED vars
    BY <1>2 DEF vars
  <1>3. CASE RunnerBegin \/ RunnerTake \/ RunnerNothingToDo \/ RunnerThrows \/ RunnerFinish
    BY <1>3 DEF RunnerBegin, RunnerTake, RunnerNothingToDo, RunnerThrows, RunnerFinish, TryPcs
  <1>4. CASE RunnerResume
    BY <1>4 DEF RunnerResume, RowInv
  <1>5. CASE RunnerStart
    <2>1. CASE status = "none"
      BY <1>5, <2>1 DEF RunnerStart
    <2>2. CASE status # "none"
      BY <1>5, <2>2, OwnEmpty DEF RunnerStart, markWorkflowRunRunning, OwnPending
    <2> QED
      BY <2>1, <2>2
  <1>6. CASE RunnerAck \/ RunnerNack \/ RunnerCrash
    BY <1>6 DEF RunnerAck, RunnerNack, RunnerCrash, RunnerEnds
  <1>7. CASE RunnerAllNodesDone
    BY <1>7 DEF RunnerAllNodesDone, OwnSteps
  <1>8. CASE RunnerNotCleared
    BY <1>8 DEF RunnerNotCleared
  <1>9. CASE RunnerExecuteLocal
    <2>1. CASE PushStep(NoBlock) /\ UNCHANGED wPending
      <3>1. OwnSteps(wSteps', wCursor', wAttempt')
        BY <1>9, <2>1, OwnAppend, BlockTypes DEF RunnerExecuteLocal, PushStep, Current
      <3>2. wPending = NoBlock
        BY <1>9 DEF RunnerExecuteLocal, OwnPending, Current
      <3> QED
        BY <1>9, <2>1, <3>1, <3>2 DEF RunnerExecuteLocal, PushStep, OwnPending
    <2>2. CASE pc' = "catch" /\ UNCHANGED localVars
      BY <2>2
    <2> QED
      BY <1>9, <2>1, <2>2 DEF RunnerExecuteLocal
  <1>10. CASE RunnerConsumeResult
    <2>1. wPending = Req(wCursor + 1, wAttempt) /\ wCursor + 1 \in Remote
      BY <1>10 DEF RunnerConsumeResult, OwnPending
    <2>2. OwnSteps(wSteps', wCursor', wAttempt')
      BY <1>10, <2>1, OwnAppend DEF RunnerConsumeResult, PushStep, Current
    <2> QED
      BY <1>10, <2>2 DEF RunnerConsumeResult, PushStep, OwnPending
  <1>11. CASE RunnerDispatch
    BY <1>11 DEF RunnerDispatch, Current
  <1>12. CASE RunnerCheckpoint \/ RunnerBlock
    BY <1>12 DEF RunnerCheckpoint, RunnerBlock, updateWorkflowRunProgress, markWorkflowRunBlocked
  <1>13. CASE RunnerEnqueuePoll \/ RunnerBlockOnApproval \/ RunnerSucceed \/ RunnerCatch
    BY <1>13 DEF RunnerEnqueuePoll, RunnerBlockOnApproval, RunnerSucceed, RunnerCatch
  <1>14. CASE createWorkflowApprovalRequest
    BY <1>14 DEF createWorkflowApprovalRequest
  <1> QED
    BY <1>1, <1>2, <1>3, <1>4, <1>5, <1>6, <1>7, <1>8, <1>9, <1>10, <1>11, <1>12, <1>13, <1>14
       DEF Next, RunnerStep, Others

\* What the row holds stays the output of the row's attempt.
LEMMA RowStep ==
    ASSUME IInv, [Next]_vars
    PROVE  RowInv'
  <1> TypeOK /\ AttemptInv /\ LocalInv /\ RowInv /\ ContInv
    BY DEF IInv
  <1> NodeCount \in Nat /\ Remote \subseteq 1..NodeCount
    BY NodeAssumption DEF Nodes
  <1> NoBlock.kind # "req"
    BY DEF NoBlock
  <1> USE DEF rowVars, jobVars, localVars, apiVars, remoteVars, faultVars, RowInv, Live, RunnerOnly
  <1>1. CASE ApiStep
    BY <1>1 DEF ApiStep, ApiCreateRun, ApiEnqueueRun, ApiEnqueueRunFails, deleteQueuedWorkflowRun
  <1>2. CASE QueueEvict \/ UNCHANGED vars
    BY <1>2 DEF QueueEvict, vars
  <1>3. CASE \E r \in Requests, s \in {"succeeded", "failed"} : GatewayAnswer(r, s)
    BY <1>3 DEF GatewayAnswer
  <1>4. CASE RunnerBegin \/ RunnerResume \/ RunnerTake \/ RunnerNothingToDo \/ RunnerFinish
    BY <1>4 DEF RunnerBegin, RunnerResume, RunnerTake, RunnerNothingToDo, RunnerFinish
  <1>5. CASE RunnerStart
    <2>1. CASE status = "none"
      BY <1>5, <2>1 DEF RunnerStart
    <2>2. CASE status # "none"
      BY <1>5, <2>2, OwnEmpty DEF RunnerStart, markWorkflowRunRunning, OwnPending
    <2> QED
      BY <2>1, <2>2
  <1>6. CASE RunnerAck \/ RunnerNack \/ RunnerCrash \/ RunnerThrows
    BY <1>6 DEF RunnerAck, RunnerNack, RunnerCrash, RunnerEnds, RunnerThrows, TryPcs
  <1>7. CASE RunnerAllNodesDone \/ RunnerNotCleared
    BY <1>7 DEF RunnerAllNodesDone, RunnerNotCleared
  <1>8. CASE RunnerExecuteLocal \/ RunnerConsumeResult \/ RunnerDispatch
    BY <1>8 DEF RunnerExecuteLocal, RunnerConsumeResult, RunnerDispatch, PushStep
  <1>9. CASE RunnerEnqueuePoll \/ createWorkflowApprovalRequest
    BY <1>9 DEF RunnerEnqueuePoll, createWorkflowApprovalRequest
  <1>10. CASE RunnerCheckpoint
    BY <1>10 DEF RunnerCheckpoint, updateWorkflowRunProgress, LocalInv, AttemptInv
  <1>11. CASE RunnerBlock
    BY <1>11 DEF RunnerBlock, markWorkflowRunBlocked, LocalInv, AttemptInv, Current
  <1>12. CASE RunnerBlockOnApproval
    BY <1>12 DEF RunnerBlockOnApproval, markWorkflowRunBlocked, LocalInv, AttemptInv, Appr
  <1>13. CASE RunnerSucceed
    BY <1>13 DEF RunnerSucceed, markWorkflowRunSucceeded, LocalInv, AttemptInv
  <1>14. CASE RunnerCatch
    BY <1>14 DEF RunnerCatch, markWorkflowRunQueuedForRetry, markWorkflowRunFailed
  <1>15. ASSUME NEW c \in Conts, ContStep(c) \/ ContCrash(c)
         PROVE  RowInv'
    <2>1. CASE clearWorkflowRunBlock(c) /\ blocked = cont[c].job.req
      <3>1. blocked.kind = "req"
        BY <2>1, ContTypes DEF TypeOK, clearWorkflowRunBlock, ContJob, Requests
      <3>2. /\ cont[c].job.req = Req(cursor + 1, attemptCount) /\ cursor + 1 \in Remote
            /\ status # "succeeded"
        BY <2>1, <3>1
      <3>3. cont[c].job.req.node - 1 = cursor /\ cont[c].job.req.no = attemptCount
        BY <3>2 DEF Req, TypeOK
      <3>4. OwnSteps(cont[c].steps, cursor, attemptCount)
        BY <2>1, <3>3 DEF ContInv, clearWorkflowRunBlock
      <3> QED
        BY <2>1, <3>2, <3>4 DEF clearWorkflowRunBlock, OwnPending
    <2>2. CASE clearWorkflowRunBlock(c) /\ blocked # cont[c].job.req
      BY <2>2 DEF clearWorkflowRunBlock
    <2>3. CASE applyRemoteFailure(c)
      BY <2>3 DEF applyRemoteFailure, markWorkflowRunFailed, markWorkflowRunQueuedForRetry
    <2>4. CASE ContTake(c) \/ ContDecide(c) \/ ContNotReady(c) \/ ContEnqueue(c) \/ ContCrash(c)
      BY <2>4 DEF ContTake, ContDecide, ContNotReady, ContEnqueue, ContCrash
    <2> QED
      BY <1>15, <2>1, <2>2, <2>3, <2>4 DEF ContStep
  <1>16. ASSUME NEW k \in 1..Len(approvals), ApprovalStep(k)
         PROVE  RowInv'
    <2>1. CASE ClearApprovalBlock(k)
      BY <2>1 DEF ClearApprovalBlock
    <2>2. CASE FailAfterDecision(k)
      BY <2>2 DEF FailAfterDecision, markWorkflowRunFailed
    <2>3. CASE ApprovalLapses(k) \/ Approve(k) \/ Reject(k) \/ FindBlockedRun(k)
      BY <2>3 DEF ApprovalLapses, Approve, Reject, FindBlockedRun, ApprovalOnly
    <2>4. CASE ApproveEnqueue(k) \/ ApproveEnqueueFails(k) \/ DecisionThrows(k)
      BY <2>4 DEF ApproveEnqueue, ApproveEnqueueFails, DecisionThrows
    <2> QED
      BY <1>16, <2>1, <2>2, <2>3, <2>4 DEF ApprovalStep
  <1> QED
    BY <1>1, <1>2, <1>3, <1>4, <1>5, <1>6, <1>7, <1>8, <1>9, <1>10, <1>11, <1>12,
       <1>13, <1>14, <1>15, <1>16 DEF Next, RunnerStep

\* What a continuation read stays the output below the node it waits for.
LEMMA ContInvStep ==
    ASSUME IInv, [Next]_vars
    PROVE  ContInv'
  <1> TypeOK /\ RowInv /\ ContInv
    BY DEF IInv
  <1> USE DEF rowVars, jobVars, localVars, apiVars, remoteVars, faultVars, ContInv
  <1>1. CASE UNCHANGED cont
    BY <1>1
  <1>2. CASE ApiStep \/ QueueEvict \/ UNCHANGED vars
    BY <1>1, <1>2 DEF ApiStep, ApiCreateRun, ApiEnqueueRun, ApiEnqueueRunFails,
                      deleteQueuedWorkflowRun, QueueEvict, vars
  <1>3. CASE \E r \in Requests, s \in {"succeeded", "failed"} : GatewayAnswer(r, s)
    BY <1>1, <1>3 DEF GatewayAnswer
  <1>4. CASE RunnerStep \/ RunnerThrows \/ RunnerCrash
    BY <1>1, <1>4
       DEF RunnerStep, RunnerOnly, RunnerTake, RunnerNothingToDo, RunnerBegin, RunnerResume,
           RunnerStart, RunnerAllNodesDone, RunnerNotCleared, RunnerExecuteLocal,
           RunnerConsumeResult, RunnerDispatch, RunnerCheckpoint, RunnerBlock, RunnerEnqueuePoll,
           createWorkflowApprovalRequest, RunnerBlockOnApproval, RunnerSucceed, RunnerFinish,
           RunnerCatch, RunnerAck, RunnerNack, RunnerThrows, RunnerCrash
  <1>5. ASSUME NEW k \in 1..Len(approvals), ApprovalStep(k)
        PROVE  ContInv'
    BY <1>1, <1>5 DEF ApprovalStep, ApprovalLapses, Approve, Reject, FindBlockedRun, ClearApprovalBlock,
                      ApproveEnqueue, ApproveEnqueueFails, DecisionThrows, FailAfterDecision,
                      ApprovalOnly
  <1>6. ASSUME NEW c \in Conts, ContStep(c) \/ ContCrash(c)
        PROVE  ContInv'
    <2>1. CASE ContTake(c)
      <3>1. PICK j \in contq :
              IF status = "running" /\ blocked = j.req /\ attemptCount = j.req.no
              THEN cont' = [cont EXCEPT ![c] = [pc |-> "checked", job |-> j, steps |-> steps]]
              ELSE UNCHANGED cont
        BY <2>1 DEF ContTake
      <3>2. CASE ~(status = "running" /\ blocked = j.req /\ attemptCount = j.req.no)
        BY <1>1, <3>1, <3>2
      <3>3. CASE status = "running" /\ blocked = j.req /\ attemptCount = j.req.no
        <4>1. j.req = Req(cursor + 1, attemptCount)
          BY <3>3 DEF RowInv, TypeOK, ContJob, Requests
        <4>2. OwnSteps(steps, j.req.node - 1, j.req.no)
          BY <3>3, <4>1 DEF RowInv, TypeOK, Req
        <4> QED
          BY <3>1, <3>3, <4>2 DEF TypeOK
      <3> QED
        BY <3>2, <3>3
    <2>2. CASE cont' = [cont EXCEPT ![c] = IdleCont]
      BY <2>2 DEF IdleCont, TypeOK
    <2>3. ASSUME NEW p \in ContPcs, SetCont(c, p), p = "clear" => cont[c].pc = "checked",
                 p # "checked"
          PROVE  ContInv'
      BY <2>3, SetContEffect DEF TypeOK
    <2>4. CASE ContDecide(c)
      BY <2>3, <2>4 DEF ContDecide, ContPcs
    <2>5. CASE clearWorkflowRunBlock(c) \/ applyRemoteFailure(c)
      BY <2>2, <2>3, <2>5 DEF clearWorkflowRunBlock, applyRemoteFailure, ContPcs
    <2>6. CASE ContNotReady(c) \/ ContEnqueue(c) \/ ContCrash(c)
      BY <2>2, <2>6 DEF ContNotReady, ContEnqueue, ContCrash
    <2> QED
      BY <1>6, <2>1, <2>4, <2>5, <2>6 DEF ContStep
  <1> QED
    BY <1>2, <1>3, <1>4, <1>5, <1>6 DEF Next

-----------------------------------------------------------------------------
(* The theorems.                                                           *)

\* The invariant holds when nothing has happened yet.
LEMMA InitInv == Init => IInv
  BY NodeAssumption, BoundAssumption, BlockTypes
     DEF Init, IInv, TypeOK, AttemptInv, LocalInv, RowInv, ContInv, Live, Statuses, JobStates,
         Pcs, TryPcs, ContState, IdleCont, NoBlock

\* It is inductive.
LEMMA Inductive == Spec => []IInv
  <1>1. IInv /\ [Next]_vars => IInv'
    BY TypeStep, AttemptStep, LocalStep, RowStep, ContInvStep DEF IInv
  <1> QED
    BY InitInv, <1>1, PTL DEF Spec

\* Every variable of the run, its job and its processes keeps its type.
THEOREM TypeCorrect == Spec => []TypeOK
  <1>1. IInv => TypeOK
    BY DEF IInv
  <1> QED
    BY Inductive, <1>1, PTL

\* Whatever the interleaving of workers, continuations, retries and crashes,
\* the stored output of a running run is exactly that of the nodes below its
\* cursor, in its current attempt.
THEOREM ProgressIsIntact == Spec => []ProgressIntact
  <1>1. IInv => ProgressIntact
    BY DEF IInv, RowInv, ProgressIntact
  <1> QED
    BY Inductive, <1>1, PTL

\* A succeeded run has executed every node, each once, in its last attempt.
THEOREM SuccessIsComplete == Spec => []SucceededComplete
  <1>1. IInv => SucceededComplete
    BY DEF IInv, RowInv, SucceededComplete
  <1> QED
    BY Inductive, <1>1, PTL

-----------------------------------------------------------------------------
(* The policy.  An approval that was granted stays granted, so it is       *)
(* enough to look at the moment a node is executed or dispatched.          *)

Ok(n) == Policy[n] = "allow" \/ (Policy[n] = "require_approval" /\ Granted(n))

OkSteps(ss) == \A i \in 1..Len(ss) : Ok(ss[i].node)

\* The lists of steps there are.
Lists == {<< >>, steps, wSteps} \cup {cont[c].steps : c \in Conts}

GateInv ==
    /\ \A r \in Requests : gw[r] # "none" => Ok(r.node)
    /\ \A ss \in Lists : OkSteps(ss)

\* A granted approval is never taken back.
LEMMA GrantedStays ==
    ASSUME TypeOK, [Next]_vars, NEW n, Granted(n)
    PROVE  Granted(n)'
  <1> USE DEF rowVars, jobVars, localVars, apiVars, remoteVars, faultVars
  <1>1. PICK j \in 1..Len(approvals) : approvals[j].node = n /\ approvals[j].status = "approved"
    BY DEF Granted
  <1>2. CASE UNCHANGED approvals
    BY <1>2 DEF Granted
  <1>3. CASE createWorkflowApprovalRequest
    <2>1. PICK e : approvals' = Append(approvals, e)
      BY <1>3 DEF createWorkflowApprovalRequest
    <2>2. Len(approvals') = Len(approvals) + 1 /\ approvals'[j] = approvals[j]
      BY <2>1 DEF TypeOK
    <2> QED
      BY <1>1, <2>2 DEF Granted, TypeOK
  <1>4. ASSUME NEW k \in 1..Len(approvals), ApprovalStep(k)
        PROVE  Granted(n)'
    <2>1. approvals \in Seq(Approval) /\ approvals[k] \in Approval
      BY ElementOfSeq DEF TypeOK
    <2>2. /\ Len(approvals') = Len(approvals)
          /\ approvals'[j].node = approvals[j].node
          /\ approvals[j].status = "approved" => approvals'[j].status = "approved"
      <3> USE <2>1 DEF Approval
      <3>1. CASE ApprovalLapses(k)
        <4>1. approvals' = [approvals EXCEPT ![k] = [approvals[k] EXCEPT !.lapsed = TRUE]]
          BY <3>1 DEF ApprovalLapses
        <4> QED
          BY <4>1
      <3>2. CASE approvals[k].status = "pending" /\ \E v \in Verdicts, g \in Stages : SetApproval(k, v, g)
        <4>1. PICK v \in Verdicts, g \in Stages :
                approvals' = [approvals EXCEPT ![k] = [approvals[k] EXCEPT !.status = v, !.stage = g]]
          BY <3>2 DEF SetApproval
        <4>2. j # k
          BY <1>1, <3>2
        <4> QED
          BY <4>1, <4>2
      <3>6. CASE Approve(k) \/ Reject(k)
        BY <3>2, <3>6 DEF Approve, Reject, Verdicts, Stages
      <3>3. CASE \E g \in Stages : SetStage(k, g)
        BY <3>3 DEF SetStage
      <3>4. CASE FindBlockedRun(k) \/ ClearApprovalBlock(k) \/ ApproveEnqueue(k)
        BY <3>3, <3>4 DEF FindBlockedRun, ClearApprovalBlock, ApproveEnqueue, Stages
      <3>5. CASE ApproveEnqueueFails(k) \/ DecisionThrows(k) \/ FailAfterDecision(k)
        BY <3>3, <3>5 DEF ApproveEnqueueFails, DecisionThrows, FailAfterDecision, Stages
      <3> QED
        BY <1>4, <3>1, <3>4, <3>5, <3>6 DEF ApprovalStep
    <2> QED
      BY <1>1, <2>2 DEF Granted
  <1>5. CASE \/ ApiStep \/ QueueEvict \/ UNCHANGED vars
             \/ \E r \in Requests, s \in {"succeeded", "failed"} : GatewayAnswer(r, s)
    BY <1>2, <1>5 DEF ApiStep, ApiCreateRun, ApiEnqueueRun, ApiEnqueueRunFails,
                      deleteQueuedWorkflowRun, QueueEvict, vars, GatewayAnswer
  <1>6. CASE RunnerStep \/ RunnerThrows \/ RunnerCrash
    BY <1>2, <1>3, <1>6
       DEF RunnerStep, RunnerOnly, RunnerTake, RunnerNothingToDo, RunnerBegin, RunnerResume,
           RunnerStart, RunnerAllNodesDone, RunnerNotCleared, RunnerExecuteLocal,
           RunnerConsumeResult, RunnerDispatch, RunnerCheckpoint, RunnerBlock, RunnerEnqueuePoll,
           RunnerBlockOnApproval, RunnerSucceed, RunnerFinish,
           RunnerCatch, RunnerAck, RunnerNack, RunnerThrows, RunnerCrash
  <1>7. ASSUME NEW c \in Conts, ContStep(c) \/ ContCrash(c)
        PROVE  Granted(n)'
    BY <1>2, <1>7 DEF ContStep, ContTake, ContDecide, ContNotReady, clearWorkflowRunBlock,
                      applyRemoteFailure, ContEnqueue, ContCrash
  <1> QED
    BY <1>4, <1>5, <1>6, <1>7 DEF Next

\* So a node that may be executed now may be executed later.
LEMMA OkStays ==
    ASSUME TypeOK, [Next]_vars
    PROVE  \A n : Ok(n) => Ok(n)'
  BY GrantedStays DEF Ok

\* Where the lists of steps of the next state come from.
LEMMA ListsStep ==
    ASSUME TypeOK, [Next]_vars
    PROVE  /\ steps' \in Lists
           /\ wSteps' \in Lists \/ (\E v : Ok(Current) /\ PushStep(v))
           /\ \A c \in Conts : cont'[c].steps \in Lists
  <1> USE DEF rowVars, jobVars, localVars, apiVars, remoteVars, faultVars, Lists, RunnerOnly
  <1>1. CASE UNCHANGED <<steps, wSteps, cont>>
    BY <1>1
  <1>2. CASE \/ ApiStep \/ QueueEvict \/ UNCHANGED vars
             \/ \E r \in Requests, s \in {"succeeded", "failed"} : GatewayAnswer(r, s)
    BY <1>1, <1>2 DEF ApiStep, ApiCreateRun, ApiEnqueueRun, ApiEnqueueRunFails,
                      deleteQueuedWorkflowRun, QueueEvict, vars, GatewayAnswer
  <1>3. CASE RunnerTake \/ RunnerNothingToDo \/ RunnerFinish \/ RunnerThrows
             \/ RunnerAllNodesDone \/ RunnerNotCleared \/ RunnerDispatch
             \/ RunnerEnqueuePoll \/ createWorkflowApprovalRequest
    BY <1>1, <1>3 DEF RunnerTake, RunnerNothingToDo, RunnerFinish, RunnerThrows,
             RunnerAllNodesDone, RunnerNotCleared, RunnerDispatch,
             RunnerEnqueuePoll, createWorkflowApprovalRequest
  <1>4. CASE RunnerBegin \/ RunnerResume \/ RunnerAck \/ RunnerNack \/ RunnerCrash
    BY <1>4 DEF RunnerBegin, RunnerResume, RunnerAck, RunnerNack, RunnerCrash, RunnerEnds
  <1>5. CASE RunnerStart \/ RunnerCatch
    BY <1>5 DEF RunnerStart, RunnerCatch, markWorkflowRunRunning, markWorkflowRunFailed,
                markWorkflowRunQueuedForRetry
  <1>6. CASE RunnerCheckpoint \/ RunnerBlock \/ RunnerBlockOnApproval \/ RunnerSucceed
    BY <1>6 DEF RunnerCheckpoint, RunnerBlock, RunnerBlockOnApproval, RunnerSucceed,
                updateWorkflowRunProgress, markWorkflowRunBlocked, markWorkflowRunSucceeded
  <1>7. CASE RunnerExecuteLocal \/ RunnerConsumeResult
    <2>1. Cleared(Current) => Ok(Current)
      BY DEF Cleared, Ok, Granted, hasApprovedWorkflowApprovalForRunNode
    <2>2. wSteps' = wSteps \/ \E v : PushStep(v)
      BY <1>7 DEF RunnerExecuteLocal, RunnerConsumeResult
    <2> QED
      BY <1>7, <2>1, <2>2 DEF RunnerExecuteLocal, RunnerConsumeResult
  <1>8. ASSUME NEW c \in Conts, ContStep(c) \/ ContCrash(c)
        PROVE  /\ steps' \in Lists /\ wSteps' = wSteps
               /\ \A d \in Conts : cont'[d].steps \in Lists
    <2>1. steps' \in Lists /\ wSteps' = wSteps
      BY <1>8 DEF ContStep, ContTake, ContDecide, ContNotReady, clearWorkflowRunBlock,
                  applyRemoteFailure, ContEnqueue, ContCrash,
                  markWorkflowRunFailed, markWorkflowRunQueuedForRetry
    <2>2. \/ UNCHANGED cont \/ cont' = [cont EXCEPT ![c] = IdleCont]
          \/ \E j : cont' = [cont EXCEPT ![c] = [pc |-> "checked", job |-> j, steps |-> steps]]
          \/ \E p : SetCont(c, p)
      BY <1>8 DEF ContStep, ContTake, ContDecide, ContNotReady, clearWorkflowRunBlock,
                  applyRemoteFailure, ContEnqueue, ContCrash
    <2>3. CASE \E p : SetCont(c, p)
      BY <2>1, <2>3, SetContEffect DEF TypeOK
    <2>4. CASE ~ \E p : SetCont(c, p)
      BY <2>1, <2>2, <2>4 DEF TypeOK, IdleCont
    <2> QED
      BY <2>3, <2>4
  <1>9. ASSUME NEW k \in 1..Len(approvals), ApprovalStep(k)
        PROVE  UNCHANGED <<steps, wSteps, cont>>
    BY <1>9 DEF ApprovalStep, ApprovalLapses, Approve, Reject, FindBlockedRun, ClearApprovalBlock,
                ApproveEnqueue, ApproveEnqueueFails, DecisionThrows, FailAfterDecision,
                ApprovalOnly, markWorkflowRunFailed
  <1> QED
    BY <1>1, <1>2, <1>3, <1>4, <1>5, <1>6, <1>7, <1>8, <1>9 DEF Next, RunnerStep

\* Only the dispatch of a node that may be executed sends a request.
LEMMA DispatchStep ==
    ASSUME TypeOK, [Next]_vars, NEW r \in Requests, gw'[r] # "none"
    PROVE  gw[r] # "none" \/ (r = Req(Current, wAttempt) /\ Cleared(Current))
  <1> USE DEF rowVars, jobVars, localVars, apiVars, remoteVars, faultVars
  <1>1. CASE RunnerDispatch
    BY <1>1 DEF RunnerDispatch, TypeOK
  <1>2. CASE \E q \in Requests, s \in {"succeeded", "failed"} : GatewayAnswer(q, s)
    BY <1>2 DEF GatewayAnswer, TypeOK
  <1>3. CASE ApiStep \/ QueueEvict \/ UNCHANGED vars
    BY <1>3 DEF ApiStep, ApiCreateRun, ApiEnqueueRun, ApiEnqueueRunFails,
                deleteQueuedWorkflowRun, QueueEvict, vars
  <1>4. CASE (RunnerStep /\ ~RunnerDispatch) \/ RunnerThrows \/ RunnerCrash
    BY <1>4
       DEF RunnerStep, RunnerOnly, RunnerTake, RunnerNothingToDo, RunnerBegin, RunnerResume,
           RunnerStart, RunnerAllNodesDone, RunnerNotCleared, RunnerExecuteLocal,
           RunnerConsumeResult, RunnerCheckpoint, RunnerBlock, RunnerEnqueuePoll,
           createWorkflowApprovalRequest, RunnerBlockOnApproval, RunnerSucceed, RunnerFinish,
           RunnerCatch, RunnerAck, RunnerNack, RunnerThrows, RunnerCrash
  <1>5. ASSUME NEW c \in Conts, ContStep(c) \/ ContCrash(c)
        PROVE  gw' = gw
    BY <1>5 DEF ContStep, ContTake, ContDecide, ContNotReady, clearWorkflowRunBlock,
                applyRemoteFailure, ContEnqueue, ContCrash
  <1>6. ASSUME NEW k \in 1..Len(approvals), ApprovalStep(k)
        PROVE  gw' = gw
    BY <1>6 DEF ApprovalStep, ApprovalLapses, Approve, Reject, FindBlockedRun, ClearApprovalBlock,
                ApproveEnqueue, ApproveEnqueueFails, DecisionThrows, FailAfterDecision,
                ApprovalOnly
  <1> QED
    BY <1>1, <1>2, <1>3, <1>4, <1>5, <1>6 DEF Next

\* The gates hold after every step.
LEMMA GateStep ==
    ASSUME IInv, GateInv, [Next]_vars
    PROVE  GateInv'
  <1>1. TypeOK
    BY DEF IInv
  <1>2. ASSUME NEW ss \in Lists
        PROVE  \A i \in 1..Len(ss) : Ok(ss[i].node)'
    BY <1>1, <1>2, OkStays DEF GateInv, OkSteps
  <1>3. ASSUME NEW ss \in Lists', NEW i \in 1..Len(ss)
        PROVE  Ok(ss[i].node)'
    <2>1. CASE ss \in Lists
      BY <1>2, <2>1
    <2>2. CASE ss \notin Lists
      <3>1. ss = wSteps' /\ \E v : Ok(Current) /\ PushStep(v)
        BY <1>1, <2>2, ListsStep DEF Lists
      <3>2. PICK v : Ok(Current) /\ ss = Append(wSteps, [node |-> Current, via |-> v])
        BY <3>1 DEF PushStep
      <3>3. CASE i \in 1..Len(wSteps)
        BY <1>1, <1>2, <3>2, <3>3 DEF TypeOK, Lists
      <3>4. CASE i = Len(wSteps) + 1
        BY <1>1, <3>2, <3>4, OkStays DEF TypeOK
      <3> QED
        BY <1>1, <3>2, <3>3, <3>4 DEF TypeOK
    <2> QED
      BY <2>1, <2>2
  <1>4. ASSUME NEW r \in Requests, gw'[r] # "none"
        PROVE  Ok(r.node)'
    <2>1. gw[r] # "none" \/ (r = Req(Current, wAttempt) /\ Cleared(Current))
      BY <1>1, <1>4, DispatchStep
    <2>2. Cleared(Current) => Ok(Current)
      BY DEF Cleared, Ok, Granted, hasApprovedWorkflowApprovalForRunNode
    <2> QED
      BY <1>1, <2>1, <2>2, OkStays DEF GateInv, Req
  <1> QED
    BY <1>3, <1>4 DEF GateInv, OkSteps

\* No interleaving, retry or crash lets a node be dispatched, or leave a step,
\* that the policy denies or that needs an approval nobody granted.
THEOREM PolicyIsRespected == Spec => []PolicyRespected
  <1>1. Init => GateInv
    BY DEF Init, GateInv, Lists, OkSteps, IdleCont
  <1>2. GateInv /\ IInv /\ [Next]_vars => GateInv'
    BY GateStep
  <1>3. GateInv => PolicyRespected
    BY NodeAssumption DEF GateInv, Lists, OkSteps, Ok, PolicyRespected
  <1> QED
    BY Inductive, <1>1, <1>2, <1>3, PTL DEF Spec

-----------------------------------------------------------------------------
(* A run of local nodes that the policy allows, with no call failing: its  *)
(* workers may crash.  It follows the abstract lifecycle, and as long as   *)
(* its job has stalled once at most, it always has a job or is over.       *)

Local == Remote = {} /\ (\A n \in Nodes : Policy[n] = "allow") /\ MaxErrors = 0

\* Nothing but the API, the queue and the runner has a part in it.
Quiet ==
    /\ blocked = NoBlock /\ approvals = << >> /\ contq = {} /\ errors = 0
    /\ \A c \in Conts : cont[c].pc = "idle"
    /\ \A r \in Requests : gw[r] = "none"
    /\ api \in {"new", "created", "accepted"}
    /\ pc \notin {"block", "poll", "approve", "blockAppr", "deny"}

\* Where the runner is when the run has a status.
StatusInv ==
    /\ api = "new" => status = "none"
    /\ api = "created" => status = "queued" /\ attemptCount = 0
    /\ api # "accepted" => jobState = "absent"
    /\ api = "accepted" => status # "none"
    /\ pc = "idle" <=> jobState # "active"
    /\ pc \in {"start", "nack"} => status = "queued"
    /\ pc \in {"node", "ckpt", "succeed", "catch"} => status = "running" /\ wAttempt = attemptCount
    /\ pc \in {"event", "ack"} => status \in Terminal
    /\ status = "queued" => attemptCount < MaxAttempts
    /\ status = "none" => attemptCount = 0

\* BullMQ has counted no more attempts than the row, so a job that fails while
\* the row waits for its next attempt is tried again.
JobInv ==
    /\ jobState \in {"waiting", "active"} => jobAttempts = MaxAttempts
    /\ attemptsMade <= attemptCount
    /\ status = "running" \/ pc = "nack" => attemptsMade < attemptCount
    /\ stalls <= crashes /\ crashes <= MaxCrashes
    /\ MaxCrashes <= 1 /\ api = "accepted" => jobState \in {"waiting", "active"} \/ status \in Terminal

LocalRunInv == IInv /\ Quiet /\ StatusInv /\ JobInv

\* The steps such a run can take.
LocalRunStep ==
    \/ ApiCreateRun \/ ApiEnqueueRun \/ QueueEvict
    \/ RunnerTake \/ RunnerNothingToDo \/ RunnerBegin \/ RunnerResume \/ RunnerStart
    \/ RunnerAllNodesDone \/ RunnerExecuteLocal \/ RunnerCheckpoint \/ RunnerSucceed \/ RunnerFinish
    \/ RunnerCatch \/ RunnerAck \/ RunnerNack \/ RunnerCrash

\* No other step is possible.
LEMMA OnlyLocalRunSteps ==
    ASSUME Local, TypeOK, Quiet, Next
    PROVE  LocalRunStep
  <1>1. ~ApiEnqueueRunFails /\ ~deleteQueuedWorkflowRun /\ ~RunnerThrows
    BY DEF Local, Quiet, ApiEnqueueRunFails, deleteQueuedWorkflowRun, RunnerThrows
  <1>2. ~RunnerNotCleared
    <2>1. wCursor < NodeCount => Cleared(Current)
      BY NodeAssumption DEF Local, Cleared, Current, Nodes, TypeOK
    <2> QED
      BY <2>1 DEF RunnerNotCleared
  <1>3. ~RunnerConsumeResult /\ ~RunnerDispatch
    BY DEF Local, RunnerConsumeResult, RunnerDispatch
  <1>4. ~RunnerBlock /\ ~RunnerEnqueuePoll /\ ~createWorkflowApprovalRequest /\ ~RunnerBlockOnApproval
    BY DEF Quiet, RunnerBlock, RunnerEnqueuePoll, createWorkflowApprovalRequest, RunnerBlockOnApproval
  <1>5. ~ \E r \in Requests, s \in {"succeeded", "failed"} : GatewayAnswer(r, s)
    BY DEF Quiet, GatewayAnswer
  <1>6. ~ \E c \in Conts : ContStep(c) \/ ContCrash(c)
    BY DEF Quiet, ContStep, ContCrash, ContTake, ContDecide, ContNotReady, clearWorkflowRunBlock,
           applyRemoteFailure, ContEnqueue
  <1>7. ~ \E k \in 1..Len(approvals) : ApprovalStep(k)
    <2>1. Len(approvals) = 0
      BY DEF Quiet
    <2> QED
      BY <2>1
  <1> QED
    BY <1>1, <1>2, <1>3, <1>4, <1>5, <1>6, <1>7 DEF Next, ApiStep, RunnerStep, LocalRunStep

\* None of them wakes the others.
LEMMA StaysQuiet ==
    ASSUME Quiet, LocalRunStep
    PROVE  Quiet'
  <1> USE DEF Quiet, rowVars, jobVars, localVars, apiVars, remoteVars, faultVars, RunnerOnly
  <1>1. CASE ApiCreateRun \/ ApiEnqueueRun \/ QueueEvict
    BY <1>1 DEF ApiCreateRun, ApiEnqueueRun, QueueEvict
  <1>2. CASE RunnerTake \/ RunnerNothingToDo \/ RunnerBegin \/ RunnerResume
    BY <1>2 DEF RunnerTake, RunnerNothingToDo, RunnerBegin, RunnerResume
  <1>3. CASE RunnerStart
    BY <1>3 DEF RunnerStart, markWorkflowRunRunning
  <1>4. CASE RunnerAllNodesDone \/ RunnerExecuteLocal \/ RunnerFinish
    BY <1>4 DEF RunnerAllNodesDone, RunnerExecuteLocal, RunnerFinish, PushStep
  <1>5. CASE RunnerCheckpoint \/ RunnerSucceed \/ RunnerCatch
    BY <1>5 DEF RunnerCheckpoint, RunnerSucceed, RunnerCatch, updateWorkflowRunProgress,
                markWorkflowRunSucceeded, markWorkflowRunQueuedForRetry, markWorkflowRunFailed
  <1>6. CASE RunnerAck \/ RunnerNack \/ RunnerCrash
    BY <1>6 DEF RunnerAck, RunnerNack, RunnerCrash, RunnerEnds
  <1> QED
    BY <1>1, <1>2, <1>3, <1>4, <1>5, <1>6 DEF LocalRunStep

\* The status, the job and the runner stay in step.
LEMMA StaysInStep ==
    ASSUME LocalRunInv, LocalRunStep
    PROVE  StatusInv' /\ JobInv'
  <1> USE DEF StatusInv, JobInv, Terminal, rowVars, jobVars, localVars, apiVars, remoteVars,
              faultVars, RunnerOnly
  <1>0. /\ StatusInv /\ JobInv /\ Quiet /\ TypeOK /\ MaxAttempts \in Nat \ {0} /\ MaxCrashes \in Nat
        /\ status \in Statuses /\ attemptCount \in Nat /\ wAttempt \in Nat /\ attemptsMade \in Nat
        /\ jobAttempts \in Nat /\ stalls \in Nat /\ crashes \in Nat /\ jobState \in JobStates
    BY BoundAssumption DEF LocalRunInv, IInv, TypeOK
  <1>1. CASE ApiCreateRun
    BY <1>0, <1>1 DEF ApiCreateRun, Quiet
  <1>2. CASE ApiEnqueueRun
    BY <1>0, <1>2 DEF ApiEnqueueRun, queueAdd
  <1>3. CASE QueueEvict
    BY <1>0, <1>3 DEF QueueEvict
  <1>4. CASE RunnerTake
    BY <1>0, <1>4 DEF RunnerTake
  <1>5. CASE RunnerNothingToDo
    BY <1>0, <1>5 DEF RunnerNothingToDo, Quiet
  <1>6. CASE RunnerBegin
    BY <1>0, <1>6 DEF RunnerBegin
  <1>7. CASE RunnerResume
    BY <1>0, <1>7 DEF RunnerResume
  <1>8. CASE RunnerStart
    <2>1. wAttempt = attemptCount + 1
      BY <1>8 DEF RunnerStart, LocalRunInv, IInv, AttemptInv
    <2> QED
      BY <1>0, <1>8, <2>1 DEF RunnerStart, markWorkflowRunRunning
  <1>9. CASE RunnerAllNodesDone \/ RunnerFinish
    BY <1>0, <1>9 DEF RunnerAllNodesDone, RunnerFinish
  <1>10. CASE RunnerExecuteLocal
    BY <1>0, <1>10 DEF RunnerExecuteLocal, PushStep
  <1>11. CASE RunnerCheckpoint
    BY <1>0, <1>11 DEF RunnerCheckpoint, updateWorkflowRunProgress
  <1>12. CASE RunnerSucceed
    BY <1>0, <1>12 DEF RunnerSucceed, markWorkflowRunSucceeded
  <1>13. CASE RunnerCatch
    <2>1. pc = "catch" /\ status = "running" /\ wAttempt = attemptCount
      BY <1>0, <1>13 DEF RunnerCatch, Quiet
    <2>2. CASE wAttempt < MaxAttempts
      BY <1>0, <1>13, <2>1, <2>2 DEF RunnerCatch, markWorkflowRunQueuedForRetry
    <2>3. CASE ~(wAttempt < MaxAttempts)
      BY <1>0, <1>13, <2>1, <2>3 DEF RunnerCatch, markWorkflowRunFailed
    <2> QED
      BY <2>2, <2>3
  <1>14. CASE RunnerAck
    BY <1>0, <1>14 DEF RunnerAck, RunnerEnds
  <1>15. CASE RunnerNack
    <2>1. jobState = "active" /\ attemptsMade + 1 < jobAttempts
      BY <1>0, <1>15 DEF RunnerNack, JobStates
    <2> QED
      BY <1>0, <1>15, <2>1 DEF RunnerNack, RunnerEnds
  <1>16. CASE RunnerCrash
    <2>1. MaxCrashes <= 1 => stalls = 0
      BY <1>0, <1>16 DEF RunnerCrash
    <2>2. jobState = "active"
      BY <1>0, <1>16 DEF RunnerCrash, JobStates
    <2> QED
      BY <1>0, <1>16, <2>1, <2>2 DEF RunnerCrash, RunnerEnds
  <1> QED
    BY <1>1, <1>2, <1>3, <1>4, <1>5, <1>6, <1>7, <1>8, <1>9, <1>10, <1>11, <1>12, <1>13, <1>14, <1>15,
       <1>16 DEF LocalRunStep

\* The invariant of a local run.
LEMMA LocalInductive == ASSUME Local PROVE Spec => []LocalRunInv
  <1>1. Init => Quiet /\ StatusInv /\ JobInv
    BY BoundAssumption
       DEF Init, Quiet, StatusInv, JobInv, NoBlock, IdleCont, Terminal
  <1>2. LocalRunInv /\ [Next]_vars => LocalRunInv'
    <2> SUFFICES ASSUME LocalRunInv, [Next]_vars PROVE LocalRunInv'
      OBVIOUS
    <2>1. IInv'
      BY TypeStep, AttemptStep, LocalStep, RowStep, ContInvStep DEF LocalRunInv, IInv
    <2>2. CASE Next
      <3>1. LocalRunStep
        BY <2>2, OnlyLocalRunSteps DEF LocalRunInv, IInv
      <3> QED
        BY <2>1, <3>1, StaysQuiet, StaysInStep DEF LocalRunInv
    <2>3. CASE UNCHANGED vars
      BY <2>1, <2>3 DEF LocalRunInv, Quiet, StatusInv, JobInv, vars, rowVars, jobVars, apiVars,
                        remoteVars, faultVars, localVars
    <2> QED
      BY <2>2, <2>3
  <1> QED
    BY InitInv, <1>1, <1>2, PTL DEF Spec, LocalRunInv

\* Whoever put such a run back for another attempt, and whichever worker died,
\* left a job behind that goes on with it; a second stall would not.
THEOREM LocalRunsGoOn ==
    ASSUME Local, MaxCrashes <= 1
    PROVE  Spec => []NotOrphaned
  <1>1. LocalRunInv => NotOrphaned
    BY DEF LocalRunInv, Quiet, StatusInv, JobInv, NotOrphaned, ToBeEnqueued, Terminal
  <1> QED
    BY LocalInductive, <1>1, PTL

\* Its status and attempts are those of RunLifecycle, however often its workers
\* crash: every step of the run is a step of the lifecycle or none.
THEOREM LocalRunsFollowLifecycle ==
    ASSUME Local
    PROVE  Spec => LifecycleSpec
  <1>1. Init => Lifecycle!RunInit
    BY DEF Init, Lifecycle!RunInit
  <1>2. LocalRunInv /\ [Next]_vars => [Lifecycle!RunNext]_(Lifecycle!lifecycle)
    <2> SUFFICES ASSUME LocalRunInv, [Next]_vars
                 PROVE  [Lifecycle!RunNext]_(Lifecycle!lifecycle)
      OBVIOUS
    <2> USE DEF rowVars, RunnerOnly, Lifecycle!lifecycle, Lifecycle!RunNext
    <2>0. Quiet /\ StatusInv /\ JobInv /\ AttemptInv /\ TypeOK /\ attemptCount \in Nat /\ MaxAttempts \in Nat
      BY BoundAssumption DEF LocalRunInv, IInv, TypeOK
    <2>1. CASE ApiCreateRun
      BY <2>0, <2>1 DEF ApiCreateRun, Lifecycle!Create, StatusInv
    <2>2. CASE RunnerStart
      BY <2>0, <2>2 DEF RunnerStart, markWorkflowRunRunning, Lifecycle!Start, StatusInv, AttemptInv
    <2>3. CASE RunnerSucceed
      BY <2>0, <2>3 DEF RunnerSucceed, markWorkflowRunSucceeded, Lifecycle!Succeed, StatusInv
    <2>4. CASE RunnerCatch
      <3>1. pc = "catch" /\ status = "running" /\ wAttempt = attemptCount
        BY <2>0, <2>4 DEF RunnerCatch, Quiet, StatusInv
      <3>2. CASE wAttempt < MaxAttempts
        BY <2>0, <2>4, <3>1, <3>2 DEF RunnerCatch, markWorkflowRunQueuedForRetry, Lifecycle!Retry
      <3>3. CASE ~(wAttempt < MaxAttempts)
        BY <2>0, <2>4, <3>1, <3>3 DEF RunnerCatch, markWorkflowRunFailed, Lifecycle!Fail
      <3> QED
        BY <3>2, <3>3
    <2>5. CASE \/ ApiEnqueueRun \/ QueueEvict
               \/ RunnerTake \/ RunnerNothingToDo \/ RunnerBegin \/ RunnerResume
               \/ RunnerAllNodesDone \/ RunnerExecuteLocal \/ RunnerCheckpoint \/ RunnerFinish
               \/ RunnerAck \/ RunnerNack \/ RunnerCrash \/ UNCHANGED vars
      BY <2>5 DEF ApiEnqueueRun, QueueEvict, RunnerTake, RunnerNothingToDo, RunnerBegin, RunnerResume,
            RunnerAllNodesDone, RunnerExecuteLocal, RunnerCheckpoint, RunnerFinish, RunnerAck,
            RunnerNack, RunnerCrash, updateWorkflowRunProgress, vars
    <2>6. LocalRunStep \/ UNCHANGED vars
      BY <2>0, OnlyLocalRunSteps
    <2> QED
      BY <2>1, <2>2, <2>3, <2>4, <2>5, <2>6 DEF LocalRunStep
  <1> QED
    BY LocalInductive, <1>1, <1>2, PTL DEF Spec, LifecycleSpec, Lifecycle!RunSpec
=============================================================================
