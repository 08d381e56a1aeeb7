---------------------------- MODULE WorkflowRun ----------------------------
(***************************************************************************)
(* The life of ONE workflow run: its row in workflow_runs (PostgreSQL),    *)
(* the BullMQ job whose id is the run id, the worker that executes the     *)
(* job (apps/worker/src/main.ts), the continuation workers that resume a   *)
(* blocked run (apps/worker/src/continuations/worker.ts), the API that     *)
(* creates the run and decides its approval requests                       *)
(* (apps/api/src/server.ts), and the gateway as the worker sees it.        *)
(*                                                                         *)
(* Every await of the code that touches shared state is a step of its own, *)
(* so the model has every interleaving of the processes.  Runs do not      *)
(* share state (all keys contain the run id), so one run is enough.  The   *)
(* workflow is the v2 form: a list of nodes and a cursor.  Event rows and  *)
(* log lines are left out, except that writing one may fail.               *)
(***************************************************************************)
EXTENDS Integers, Sequences

CONSTANTS
    NodeCount,      \* length of dsl.nodes
    Remote,         \* the nodes with execution.mode = "executor"
    Policy,         \* evaluateNodePolicy of each node
    MaxAttempts,    \* workflow_runs.max_attempts
    Push,           \* the gateway has REDIS_URL: results are also pushed
    Conts,          \* slots of the continuation workers (all processes)
    MaxErrors,      \* bound: failed database, Redis or gateway calls
    MaxCrashes,     \* bound: crashed workers
    MaxApprovals,   \* bound: approval requests created
    AttemptCap      \* bound: attempts started

Nodes == 1..NodeCount

Decisions == {"allow", "require_approval", "deny"}

ASSUME NodeAssumption ==
    /\ NodeCount \in Nat
    /\ Remote \subseteq Nodes
    /\ Policy \in [Nodes -> Decisions]

ASSUME BoundAssumption ==
    /\ MaxAttempts \in Nat \ {0}
    /\ Push \in BOOLEAN
    /\ MaxErrors \in Nat
    /\ MaxCrashes \in Nat
    /\ MaxApprovals \in Nat
    /\ AttemptCap \in Nat \ {0}

VARIABLES
    \* The columns of the run's row; status "none" is an absent row.
    status, attemptCount, cursor, steps, blocked, pending,
    \* The BullMQ job whose jobId is the run id.
    jobState, attemptsMade, jobAttempts, stalls,
    \* The execution of processWorkflowRunJob that holds the job's lock.
    pc, wAttempt, wCursor, wSteps, wPending,
    \* The request handler that creates the run; workflow_approval_requests.
    api, approvals,
    \* The gateway's results store, the continuation queue and its workers.
    gw, contq, cont,
    \* What the bounds count.
    errors, crashes

rowVars    == <<status, attemptCount, cursor, steps, blocked, pending>>
jobVars    == <<jobState, attemptsMade, jobAttempts, stalls>>
localVars  == <<wAttempt, wCursor, wSteps, wPending>>
apiVars    == <<api, approvals>>
remoteVars == <<gw, contq, cont>>
faultVars  == <<errors, crashes>>
vars == <<rowVars, jobVars, pc, localVars, apiVars, remoteVars, faultVars>>

-----------------------------------------------------------------------------
(* What a run can be blocked on: a remote request, named                   *)
(* runId:nodeId:attemptCount, or an approval request.                      *)

NoBlock    == [kind |-> "none", node |-> 0, no |-> 0]
Req(n, a)  == [kind |-> "req",  node |-> n, no |-> a]
Appr(n, k) == [kind |-> "appr", node |-> n, no |-> k]

Requests == [kind : {"req"}, node : Nodes, no : 1..AttemptCap]
Blocks   == [kind : {"none", "req", "appr"}, node : Nat, no : Nat]

\* A step of the run's output: its node and the remote result it came from.
Step == [node : Nat, via : Blocks]

Statuses  == {"none", "queued", "running", "succeeded", "failed"}
Terminal  == {"succeeded", "failed"}
JobStates == {"absent", "waiting", "active", "done"}

\* An approval request: its node and status, whether expiresAt has passed, and
\* how far the handler that decided it has come.
Verdicts == {"pending", "approved", "rejected", "expired"}
Stages   == {"none", "decided", "found", "cleared", "failing", "over"}
Approval == [node : Nat, status : Verdicts, lapsed : BOOLEAN, stage : Stages]

ContJob  == [type : {"poll", "apply"}, req : Requests,
             result : {"none", "succeeded", "failed"}]
ContPcs  == {"checked", "clear", "fail", "enqueue"}
IdleCont == [pc |-> "idle",
             job |-> [type |-> "poll", req |-> Req(0, 0), result |-> "none"],
             steps |-> << >>]
ContState == {IdleCont} \cup [pc : ContPcs, job : ContJob, steps : Seq(Step)]

\* Control points of processWorkflowRunJob, and those inside its try block.
TryPcs == {"node", "ckpt", "block", "poll", "approve", "blockAppr", "succeed", "event"}
Pcs    == TryPcs \cup {"idle", "load", "start", "deny", "catch", "ack", "nack"}

Init ==
    /\ status = "none" /\ attemptCount = 0 /\ cursor = 0
    /\ steps = << >> /\ blocked = NoBlock /\ pending = NoBlock
    /\ jobState = "absent" /\ attemptsMade = 0 /\ jobAttempts = 1 /\ stalls = 0
    /\ pc = "idle" /\ wAttempt = 0 /\ wCursor = 0
    /\ wSteps = << >> /\ wPending = NoBlock
    /\ api = "new" /\ approvals = << >>
    /\ gw = [r \in Requests |-> "none"] /\ contq = {}
    /\ cont = [c \in Conts |-> IdleCont]
    /\ errors = 0 /\ crashes = 0

-----------------------------------------------------------------------------
(* The updates of workflow_runs.  None of them but clearWorkflowRunBlock   *)
(* and deleteQueuedWorkflowRun looks at the row it overwrites.             *)

markWorkflowRunRunning(a) ==
    /\ status' = "running" /\ attemptCount' = a /\ cursor' = 0
    /\ steps' = << >> /\ pending' = NoBlock /\ blocked' = NoBlock

markWorkflowRunBlocked(b, k, ss, p) ==
    /\ blocked' = b /\ cursor' = k /\ steps' = ss /\ pending' = p
    /\ UNCHANGED <<status, attemptCount>>

updateWorkflowRunProgress(k, ss, p) ==
    /\ cursor' = k /\ steps' = ss /\ pending' = p
    /\ UNCHANGED <<status, attemptCount, blocked>>

markWorkflowRunQueuedForRetry ==
    /\ status' = "queued" /\ cursor' = 0 /\ blocked' = NoBlock
    /\ UNCHANGED <<attemptCount, steps, pending>>

markWorkflowRunSucceeded(ss, p) ==
    /\ status' = "succeeded" /\ steps' = ss /\ pending' = p
    /\ UNCHANGED <<attemptCount, cursor, blocked>>

markWorkflowRunFailed ==
    /\ status' = "failed" /\ blocked' = NoBlock
    /\ UNCHANGED <<attemptCount, cursor, steps, pending>>

-----------------------------------------------------------------------------
(* BullMQ, as the code uses it: a job id that still exists, retained after *)
(* completion included, makes add a no-op; a locked (active) job cannot be *)
(* removed; a job that throws is tried again until its attempts are used.  *)

\* queue.add with jobId = runId (the producer of the API).
queueAdd(n) ==
    IF jobState = "absent"
    THEN /\ jobState' = "waiting" /\ attemptsMade' = 0
         /\ jobAttempts' = n /\ stalls' = 0
    ELSE UNCHANGED jobVars

\* createWorkflowRunQueue(...).enqueue: remove best-effort, then add once.
enqueue ==
    IF jobState = "active"
    THEN UNCHANGED jobVars
    ELSE /\ jobState' = "waiting" /\ attemptsMade' = 0
         /\ jobAttempts' = 1 /\ stalls' = 0

\* Retention (removeOnComplete, removeOnFail: 1000) drops an old job.
QueueEvict ==
    /\ jobState = "done" /\ jobState' = "absent"
    /\ attemptsMade' = 0 /\ jobAttempts' = 1 /\ stalls' = 0
    /\ UNCHANGED <<rowVars, pc, localVars, apiVars, remoteVars, faultVars>>

-----------------------------------------------------------------------------
(* POST /v1/orgs/:orgId/workflows/:workflowId/runs.                        *)

ApiCreateRun ==
    /\ api = "new" /\ api' = "created" /\ status' = "queued"
    /\ UNCHANGED <<attemptCount, cursor, steps, blocked, pending, approvals>>
    /\ UNCHANGED <<jobVars, pc, localVars, remoteVars, faultVars>>

ApiEnqueueRun ==
    /\ api = "created" /\ api' = "accepted"
    /\ queueAdd(MaxAttempts)
    /\ UNCHANGED <<rowVars, pc, localVars, approvals, remoteVars, faultVars>>

\* The call fails; it may have reached Redis all the same.
ApiEnqueueRunFails ==
    /\ api = "created" /\ api' = "deleting"
    /\ errors < MaxErrors /\ errors' = errors + 1
    /\ queueAdd(MaxAttempts) \/ UNCHANGED jobVars
    /\ UNCHANGED <<rowVars, pc, localVars, approvals, remoteVars, crashes>>

deleteQueuedWorkflowRun ==
    /\ api = "deleting" /\ api' = "rejected"
    /\ status' = IF status = "queued" /\ attemptCount = 0 THEN "none" ELSE status
    /\ UNCHANGED <<attemptCount, cursor, steps, blocked, pending, approvals>>
    /\ UNCHANGED <<jobVars, pc, localVars, remoteVars, faultVars>>

-----------------------------------------------------------------------------
(* processWorkflowRunJob.                                                  *)

\* A step of the runner that leaves the row, the job and the others alone.
RunnerOnly == UNCHANGED <<rowVars, jobVars, apiVars, remoteVars, faultVars>>

RunnerTake ==
    /\ pc = "idle" /\ jobState = "waiting"
    /\ pc' = "load" /\ jobState' = "active"
    /\ UNCHANGED <<attemptsMade, jobAttempts, stalls>>
    /\ UNCHANGED <<rowVars, localVars, apiVars, remoteVars, faultVars>>

\* The row is gone, final, or blocked: the job is done.
RunnerNothingToDo ==
    /\ pc = "load"
    /\ status \in {"none"} \cup Terminal \/ (status = "running" /\ blocked # NoBlock)
    /\ pc' = "ack"
    /\ UNCHANGED localVars /\ RunnerOnly

RunnerBegin ==
    /\ pc = "load" /\ status = "queued" /\ attemptCount < AttemptCap
    /\ pc' = "start"
    /\ wAttempt' = attemptCount + 1
    /\ wCursor' = 0 /\ wSteps' = << >> /\ wPending' = NoBlock
    /\ RunnerOnly

RunnerResume ==
    /\ pc = "load" /\ status = "running" /\ blocked = NoBlock
    /\ pc' = "node"
    /\ wAttempt' = attemptCount /\ wCursor' = cursor
    /\ wSteps' = steps /\ wPending' = pending
    /\ RunnerOnly

\* The row read by RunnerBegin may have been deleted meanwhile.
RunnerStart ==
    /\ pc = "start"
    /\ IF status = "none"
       THEN pc' = "ack" /\ UNCHANGED rowVars
       ELSE pc' = "node" /\ markWorkflowRunRunning(wAttempt)
    /\ UNCHANGED <<jobVars, localVars, apiVars, remoteVars, faultVars>>

\* Mutant: the status of the request is not part of the query.
hasApproved_AnyStatus(n) ==
    \E k \in 1..Len(approvals) : approvals[k].node = n /\ ~approvals[k].lapsed

hasApprovedWorkflowApprovalForRunNode(n) ==
    \E k \in 1..Len(approvals) :
        /\ approvals[k].node = n
        /\ approvals[k].status = "approved" /\ ~approvals[k].lapsed

\* Mutant: a denial is not looked at.
Cleared_Denied(n) ==
    Policy[n] # "require_approval" \/ hasApprovedWorkflowApprovalForRunNode(n)

\* Node n may be executed: the policy allows it, or an approval does.
Cleared(n) ==
    \/ Policy[n] = "allow"
    \/ Policy[n] = "require_approval" /\ hasApprovedWorkflowApprovalForRunNode(n)

\* The node the runner is at.
Current == wCursor + 1

\* Mutant: the loop ends one node early.
RunnerAllNodesDone_Early ==
    /\ pc = "node" /\ wCursor >= NodeCount - 1
    /\ pc' = "succeed"
    /\ UNCHANGED localVars /\ RunnerOnly

RunnerAllNodesDone ==
    /\ pc = "node" /\ wCursor >= NodeCount
    /\ pc' = "succeed"
    /\ UNCHANGED localVars /\ RunnerOnly

\* The policy denies the node, or asks for an approval that nobody has given.
RunnerNotCleared ==
    /\ pc = "node" /\ wCursor < NodeCount /\ ~Cleared(Current)
    /\ pc' = IF Policy[Current] = "deny" THEN "deny" ELSE "approve"
    /\ UNCHANGED localVars /\ RunnerOnly

\* steps.push of a succeeded node, whose output came from `via`.
PushStep(via) ==
    /\ wSteps' = Append(wSteps, [node |-> Current, via |-> via])
    /\ wCursor' = wCursor + 1
    /\ pc' = "ckpt"
    /\ UNCHANGED wAttempt

\* A node executed in the worker succeeds, or fails and ends the attempt.
RunnerExecuteLocal ==
    /\ pc = "node" /\ wCursor < NodeCount /\ Cleared(Current) /\ Current \notin Remote
    /\ \/ PushStep(NoBlock) /\ UNCHANGED wPending
       \/ pc' = "catch" /\ UNCHANGED localVars
    /\ RunnerOnly

\* Mutant: the executor leaves pendingRemoteResult set.
RunnerConsumeResult_KeepsPending ==
    /\ pc = "node" /\ wCursor < NodeCount /\ Cleared(Current) /\ Current \in Remote
    /\ wPending # NoBlock
    /\ PushStep(wPending) /\ UNCHANGED wPending
    /\ RunnerOnly

\* The resume path of a remote node: runtime.pendingRemoteResult is set.
RunnerConsumeResult ==
    /\ pc = "node" /\ wCursor < NodeCount /\ Cleared(Current) /\ Current \in Remote
    /\ wPending # NoBlock
    /\ PushStep(wPending) /\ wPending' = NoBlock
    /\ RunnerOnly

\* dispatchViaGatewayAsync; an answer that is already stored is not redone.
RunnerDispatch ==
    /\ pc = "node" /\ wCursor < NodeCount /\ Cleared(Current) /\ Current \in Remote
    /\ wPending = NoBlock
    /\ gw' = [gw EXCEPT ![Req(Current, wAttempt)] = IF @ = "none" THEN "sent" ELSE @]
    /\ pc' = "block"
    /\ UNCHANGED <<rowVars, jobVars, localVars, apiVars, contq, cont, faultVars>>

RunnerCheckpoint ==
    /\ pc = "ckpt" /\ pc' = "node"
    /\ updateWorkflowRunProgress(wCursor, wSteps, wPending)
    /\ UNCHANGED <<jobVars, localVars, apiVars, remoteVars, faultVars>>

RunnerBlock ==
    /\ pc = "block" /\ pc' = "poll"
    /\ markWorkflowRunBlocked(Req(Current, wAttempt), wCursor, wSteps, wPending)
    /\ UNCHANGED <<jobVars, localVars, apiVars, remoteVars, faultVars>>

\* Mutant: the poll names the node by the 0-based cursor.
RunnerEnqueuePoll_ZeroBased ==
    /\ pc = "poll" /\ pc' = "ack"
    /\ contq' = contq \cup {[type |-> "poll", req |-> Req(wCursor, wAttempt),
                             result |-> "none"]}
    /\ UNCHANGED <<rowVars, jobVars, localVars, apiVars, gw, cont, faultVars>>

\* Mutant: the poll is forgotten.
RunnerEnqueuePoll_Forgotten ==
    /\ pc = "poll" /\ pc' = "ack"
    /\ UNCHANGED localVars /\ RunnerOnly

\* enqueueContinuationPoll
RunnerEnqueuePoll ==
    /\ pc = "poll" /\ pc' = "ack"
    /\ contq' = contq \cup {[type |-> "poll", req |-> Req(Current, wAttempt),
                             result |-> "none"]}
    /\ UNCHANGED <<rowVars, jobVars, localVars, apiVars, gw, cont, faultVars>>

createWorkflowApprovalRequest ==
    /\ pc = "approve" /\ Len(approvals) < MaxApprovals
    /\ pc' = "blockAppr"
    /\ approvals' = Append(approvals, [node |-> Current, status |-> "pending",
                                       lapsed |-> FALSE, stage |-> "none"])
    /\ UNCHANGED <<rowVars, jobVars, localVars, api, remoteVars, faultVars>>

RunnerBlockOnApproval ==
    /\ pc = "blockAppr" /\ pc' = "ack"
    /\ markWorkflowRunBlocked(Appr(Current, Len(approvals)), wCursor, wSteps, wPending)
    /\ UNCHANGED <<jobVars, localVars, apiVars, remoteVars, faultVars>>

\* The run_succeeded event is appended after the row is final, in the try.
RunnerSucceed ==
    /\ pc = "succeed" /\ pc' = "event"
    /\ markWorkflowRunSucceeded(wSteps, wPending)
    /\ UNCHANGED <<jobVars, localVars, apiVars, remoteVars, faultVars>>

RunnerFinish ==
    /\ pc = "event" /\ pc' = "ack"
    /\ UNCHANGED localVars /\ RunnerOnly

\* Mutant: the last attempt is retried too.
RunnerCatch_OneMore ==
    /\ pc \in {"catch", "deny"}
    /\ IF pc = "catch" /\ wAttempt <= MaxAttempts
       THEN pc' = "nack" /\ markWorkflowRunQueuedForRetry
       ELSE pc' = "ack" /\ markWorkflowRunFailed
    /\ UNCHANGED <<jobVars, localVars, apiVars, remoteVars, faultVars>>

\* The catch block: a policy denial and the last attempt are final.
RunnerCatch ==
    /\ pc \in {"catch", "deny"}
    /\ IF pc = "catch" /\ wAttempt < MaxAttempts
       THEN pc' = "nack" /\ markWorkflowRunQueuedForRetry
       ELSE pc' = "ack" /\ markWorkflowRunFailed
    /\ UNCHANGED <<jobVars, localVars, apiVars, remoteVars, faultVars>>

\* A call of the code throws: inside the try it is caught, outside it is not.
RunnerThrows ==
    /\ errors < MaxErrors /\ errors' = errors + 1
    /\ pc \in TryPcs \cup {"load", "start", "catch", "deny"}
    /\ pc' = IF pc \in TryPcs THEN "catch" ELSE "nack"
    /\ UNCHANGED <<rowVars, jobVars, localVars, apiVars, remoteVars, crashes>>

\* The execution is over, and its local variables with it.
RunnerEnds ==
    /\ pc' = "idle"
    /\ wAttempt' = 0 /\ wCursor' = 0 /\ wSteps' = << >> /\ wPending' = NoBlock

RunnerAck ==
    /\ pc = "ack" /\ RunnerEnds /\ jobState' = "done"
    /\ UNCHANGED <<attemptsMade, jobAttempts, stalls>>
    /\ UNCHANGED <<rowVars, apiVars, remoteVars, faultVars>>

RunnerNack ==
    /\ pc = "nack" /\ RunnerEnds
    /\ attemptsMade' = attemptsMade + 1
    /\ jobState' = IF attemptsMade + 1 < jobAttempts THEN "waiting" ELSE "done"
    /\ UNCHANGED <<jobAttempts, stalls>>
    /\ UNCHANGED <<rowVars, apiVars, remoteVars, faultVars>>

\* The worker dies: BullMQ finds the job stalled and runs it again, once.
RunnerCrash ==
    /\ pc # "idle" /\ crashes < MaxCrashes /\ crashes' = crashes + 1
    /\ RunnerEnds
    /\ stalls' = stalls + 1
    /\ jobState' = IF stalls = 0 THEN "waiting" ELSE "done"
    /\ UNCHANGED <<attemptsMade, jobAttempts, errors>>
    /\ UNCHANGED <<rowVars, apiVars, remoteVars>>

-----------------------------------------------------------------------------
(* The gateway and processContinuationPayload.                             *)

\* The gateway stores an answer and, in push mode, enqueues remote.apply; an
\* enqueue that fails is only logged.
GatewayAnswer(r, s) ==
    /\ gw[r] = "sent" /\ gw' = [gw EXCEPT ![r] = s]
    /\ \/ contq' = contq
       \/ Push /\ contq' = contq \cup {[type |-> "apply", req |-> r, result |-> s]}
    /\ UNCHANGED <<rowVars, jobVars, pc, localVars, apiVars, cont, faultVars>>

SetCont(c, p) == cont' = [cont EXCEPT ![c].pc = p]

\* The job is taken and the row read; a row that has moved on ends the job.
ContTake(c) ==
    \E j \in contq :
        /\ cont[c].pc = "idle" /\ contq' = contq \ {j}
        /\ IF status = "running" /\ blocked = j.req /\ attemptCount = j.req.no
           THEN cont' = [cont EXCEPT ![c] = [pc |-> "checked", job |-> j, steps |-> steps]]
           ELSE UNCHANGED cont
        /\ UNCHANGED <<rowVars, jobVars, pc, localVars, apiVars, gw, faultVars>>

\* The result: pushed, timed out (a failure), or fetched from the gateway.
ContDecide(c) ==
    LET j == cont[c].job IN
    /\ cont[c].pc = "checked"
    /\ \E res \in {"succeeded", "failed"} :
        /\ IF j.type = "apply" THEN res = j.result ELSE res \in {"failed", gw[j.req]}
        /\ SetCont(c, IF res = "succeeded" THEN "clear" ELSE "fail")
    /\ UNCHANGED <<rowVars, jobVars, pc, localVars, apiVars, gw, contq, faultVars>>

\* RESULT_NOT_READY or GATEWAY_UNAVAILABLE: BullMQ runs the poll again.
ContNotReady(c) ==
    /\ cont[c].pc = "checked" /\ cont[c].job.type = "poll"
    /\ contq' = contq \cup {cont[c].job}
    /\ cont' = [cont EXCEPT ![c] = IdleCont]
    /\ UNCHANGED <<rowVars, jobVars, pc, localVars, apiVars, gw, faultVars>>

clearWorkflowRunBlock(c) ==
    /\ cont[c].pc = "clear"
    /\ IF blocked = cont[c].job.req
       THEN /\ SetCont(c, "enqueue")
            /\ blocked' = NoBlock /\ steps' = cont[c].steps /\ pending' = cont[c].job.req
            /\ UNCHANGED <<status, attemptCount, cursor>>
       ELSE /\ cont' = [cont EXCEPT ![c] = IdleCont]
            /\ UNCHANGED rowVars
    /\ UNCHANGED <<jobVars, pc, localVars, apiVars, gw, contq, faultVars>>

\* applyRemoteFailure up to the update of the row.
applyRemoteFailure(c) ==
    /\ cont[c].pc = "fail"
    /\ IF cont[c].job.req.no >= MaxAttempts
       THEN markWorkflowRunFailed /\ cont' = [cont EXCEPT ![c] = IdleCont]
       ELSE markWorkflowRunQueuedForRetry /\ SetCont(c, "enqueue")
    /\ UNCHANGED <<jobVars, pc, localVars, apiVars, gw, contq, faultVars>>

ContEnqueue(c) ==
    /\ cont[c].pc = "enqueue" /\ enqueue
    /\ cont' = [cont EXCEPT ![c] = IdleCont]
    /\ UNCHANGED <<rowVars, pc, localVars, apiVars, gw, contq, faultVars>>

\* The worker dies or a call throws; the job is run again unless it is spent.
ContCrash(c) ==
    /\ cont[c].pc # "idle" /\ crashes < MaxCrashes /\ crashes' = crashes + 1
    /\ contq' \in {contq, contq \cup {cont[c].job}}
    /\ cont' = [cont EXCEPT ![c] = IdleCont]
    /\ UNCHANGED <<rowVars, jobVars, pc, localVars, apiVars, gw, errors>>

-----------------------------------------------------------------------------
(* POST /v1/orgs/:orgId/approvals/:approvalId/approve and .../reject.  The *)
(* status is decided by one conditional update, so each request is decided *)
(* by one handler, whose progress is the request's stage.                  *)

SetApproval(k, s, g) ==
    approvals' = [approvals EXCEPT ![k] = [@ EXCEPT !.status = s, !.stage = g]]

SetStage(k, g) == approvals' = [approvals EXCEPT ![k] = [@ EXCEPT !.stage = g]]

ApprovalOnly == UNCHANGED <<rowVars, jobVars, pc, localVars, api, remoteVars, faultVars>>

\* The request's expiresAt passes.
ApprovalLapses(k) ==
    /\ ~approvals[k].lapsed
    /\ approvals' = [approvals EXCEPT ![k] = [@ EXCEPT !.lapsed = TRUE]]
    /\ ApprovalOnly

\* decideWorkflowApprovalRequest from the approve handler.
Approve(k) ==
    /\ approvals[k].status = "pending"
    /\ IF approvals[k].lapsed THEN SetApproval(k, "expired", "over")
                              ELSE SetApproval(k, "approved", "decided")
    /\ ApprovalOnly

Reject(k) ==
    /\ approvals[k].status = "pending"
    /\ SetApproval(k, "rejected", "decided")
    /\ ApprovalOnly

\* getWorkflowRunByBlockedRequestId
FindBlockedRun(k) ==
    /\ approvals[k].stage = "decided"
    /\ SetStage(k, IF status = "running" /\ blocked = Appr(approvals[k].node, k)
                   THEN "found" ELSE "over")
    /\ ApprovalOnly

\* clearWorkflowRunBlock; a rejection goes on whether or not it cleared one.
ClearApprovalBlock(k) ==
    LET mine == blocked = Appr(approvals[k].node, k) IN
    /\ approvals[k].stage = "found"
    /\ SetStage(k, IF mine \/ approvals[k].status = "rejected" THEN "cleared" ELSE "over")
    /\ blocked' = IF mine THEN NoBlock ELSE blocked
    /\ UNCHANGED <<status, attemptCount, cursor, steps, pending>>
    /\ UNCHANGED <<jobVars, pc, localVars, api, remoteVars, faultVars>>

ApproveEnqueue(k) ==
    /\ approvals[k].stage = "cleared" /\ approvals[k].status = "approved"
    /\ queueAdd(MaxAttempts)
    /\ SetStage(k, "over")
    /\ UNCHANGED <<rowVars, pc, localVars, api, remoteVars, faultVars>>

ApproveEnqueueFails(k) ==
    /\ approvals[k].stage = "cleared" /\ approvals[k].status = "approved"
    /\ errors < MaxErrors /\ errors' = errors + 1
    /\ queueAdd(MaxAttempts) \/ UNCHANGED jobVars
    /\ SetStage(k, "failing")
    /\ UNCHANGED <<rowVars, pc, localVars, api, remoteVars, crashes>>

\* Another call of the handler throws, and the request ends there.
DecisionThrows(k) ==
    /\ approvals[k].stage \in {"decided", "found", "cleared", "failing"}
    /\ errors < MaxErrors /\ errors' = errors + 1
    /\ SetStage(k, "over")
    /\ UNCHANGED <<rowVars, jobVars, pc, localVars, api, remoteVars, crashes>>

\* markWorkflowRunFailed of the reject handler, and after a failed resume.
FailAfterDecision(k) ==
    /\ \/ approvals[k].stage = "cleared" /\ approvals[k].status = "rejected"
       \/ approvals[k].stage = "failing"
    /\ markWorkflowRunFailed
    /\ SetStage(k, "over")
    /\ UNCHANGED <<jobVars, pc, localVars, api, remoteVars, faultVars>>

-----------------------------------------------------------------------------
ApiStep == ApiCreateRun \/ ApiEnqueueRun \/ ApiEnqueueRunFails \/ deleteQueuedWorkflowRun

RunnerStep ==
    \/ RunnerTake \/ RunnerNothingToDo \/ RunnerBegin \/ RunnerResume \/ RunnerStart
    \/ RunnerAllNodesDone \/ RunnerNotCleared
    \/ RunnerExecuteLocal \/ RunnerConsumeResult \/ RunnerDispatch
    \/ RunnerCheckpoint \/ RunnerBlock \/ RunnerEnqueuePoll
    \/ createWorkflowApprovalRequest \/ RunnerBlockOnApproval
    \/ RunnerSucceed \/ RunnerFinish \/ RunnerCatch \/ RunnerAck \/ RunnerNack

ContStep(c) ==
    \/ ContTake(c) \/ ContDecide(c) \/ ContNotReady(c)
    \/ clearWorkflowRunBlock(c) \/ applyRemoteFailure(c) \/ ContEnqueue(c)

ApprovalStep(k) ==
    \/ ApprovalLapses(k) \/ Approve(k) \/ Reject(k)
    \/ FindBlockedRun(k) \/ ClearApprovalBlock(k) \/ ApproveEnqueue(k)
    \/ ApproveEnqueueFails(k) \/ DecisionThrows(k) \/ FailAfterDecision(k)

Next ==
    \/ ApiStep
    \/ RunnerStep
    \/ RunnerThrows
    \/ RunnerCrash
    \/ QueueEvict
    \/ \E r \in Requests, s \in {"succeeded", "failed"} : GatewayAnswer(r, s)
    \/ \E c \in Conts : ContStep(c) \/ ContCrash(c)
    \/ \E k \in 1..Len(approvals) : ApprovalStep(k)

Spec == Init /\ [][Next]_vars

\* What the processes' event loops and BullMQ guarantee: a process that can
\* take a step takes one, a queued job is taken by a free worker, and the
\* gateway answers.  The poll decides in the end because its deadline passes.
Fairness ==
    /\ WF_vars(ApiStep) /\ WF_vars(RunnerStep)
    /\ \A r \in Requests : WF_vars(\E s \in {"succeeded", "failed"} : GatewayAnswer(r, s))
    /\ \A c \in Conts : WF_vars(ContStep(c)) /\ SF_vars(ContDecide(c))

FairSpec == Spec /\ Fairness

-----------------------------------------------------------------------------
(* Properties.                                                             *)

\* Every variable keeps its type.
TypeOK ==
    /\ status \in Statuses /\ attemptCount \in 0..AttemptCap /\ cursor \in Nat
    /\ steps \in Seq(Step) /\ blocked \in Blocks /\ pending \in Blocks
    /\ jobState \in JobStates /\ attemptsMade \in Nat
    /\ jobAttempts \in Nat /\ stalls \in Nat
    /\ pc \in Pcs /\ wAttempt \in 0..AttemptCap /\ wCursor \in Nat
    /\ wSteps \in Seq(Step) /\ wPending \in Blocks
    /\ api \in {"new", "created", "accepted", "deleting", "rejected"}
    /\ approvals \in Seq(Approval)
    /\ gw \in [Requests -> {"none", "sent", "succeeded", "failed"}]
    /\ contq \in SUBSET ContJob /\ cont \in [Conts -> ContState]
    /\ errors \in Nat /\ crashes \in Nat

\* ss is what nodes 1..k left in attempt a, in order: each remote node's
\* output is the answer to the request of that node in that very attempt.
OwnSteps(ss, k, a) ==
    /\ Len(ss) = k /\ k <= NodeCount
    /\ \A i \in 1..k :
        ss[i] = [node |-> i, via |-> IF i \in Remote THEN Req(i, a) ELSE NoBlock]

\* The output stored with a running run is exactly that of the nodes below its
\* cursor, in the current attempt: no interleaving of the worker, the two kinds
\* of continuation jobs, retries and crashes repeats a node, skips one, or
\* takes over a result of an earlier attempt.
ProgressIntact == status = "running" => OwnSteps(steps, cursor, attemptCount)

\* A run that is marked succeeded has executed all its nodes, each once, in
\* its last attempt.
SucceededComplete == status = "succeeded" => OwnSteps(steps, NodeCount, attemptCount)

\* Some approval of node n has been granted.
Granted(n) == \E k \in 1..Len(approvals) : approvals[k].node = n /\ approvals[k].status = "approved"

\* No node the policy denies, and no node that needs an approval and never got
\* one, is dispatched to the gateway or leaves a step in the run's output.
PolicyRespected ==
    \A n \in Nodes :
        \/ Policy[n] = "allow"
        \/ Policy[n] = "require_approval" /\ Granted(n)
        \/ /\ \A r \in Requests : r.node = n => gw[r] = "none"
           /\ \A i \in 1..Len(steps) : steps[i].node # n

\* A continuation or an approval is about to put the run's job in the queue.
ToBeEnqueued ==
    \/ api = "created"
    \/ \E c \in Conts : cont[c].pc = "enqueue"
    \/ \E k \in 1..Len(approvals) : approvals[k].stage \in {"cleared", "failing"}

\* A run that is waiting for an attempt, or is running and waits for nothing,
\* has a job that will go on with it: whoever queued a retry or ended a block
\* left a job behind.
NotOrphaned ==
    (status = "queued" /\ api # "rejected") \/ (status = "running" /\ blocked = NoBlock)
        => jobState \in {"waiting", "active"} \/ ToBeEnqueued

\* A run whose remote result has been stored has a job that will use it.
ResultResumes ==
    status = "running" /\ blocked = NoBlock /\ pending # NoBlock
        => jobState \in {"waiting", "active"} \/ ToBeEnqueued

\* A worker that puts the run back for another attempt fails a job that BullMQ
\* will try again.
RetryIsTried == pc = "nack" /\ status = "queued" => attemptsMade + 1 < jobAttempts

\* A succeeded or failed run stays so.
TerminalIsFinal == [][(status \in Terminal) => (status' = status)]_vars

\* A run the API accepted ends, and stays ended.
RunFinishes == (api = "accepted") ~> [](status \in Terminal)

\* A run blocked on a remote request does not stay blocked on it: the result,
\* the failure or the deadline ends the block.
BlockResolves ==
    \A r \in Requests : (status = "running" /\ blocked = r) ~> (blocked # r)

\* The run's status and attempts, as the abstract lifecycle.
Lifecycle == INSTANCE RunLifecycle WITH
    status <- status, attemptCount <- attemptCount, MaxAttempts <- MaxAttempts

\* The run follows the abstract lifecycle: queued, running, succeeded or failed,
\* retried at most MaxAttempts times.
LifecycleSpec == Lifecycle!RunSpec
=============================================================================
