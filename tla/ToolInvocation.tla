--------------------------- MODULE ToolInvocation ---------------------------
(***************************************************************************)
(* The remote nodes of ONE workflow run on the gateway: the edge takes the *)
(* dispatches of the worker (apps/gateway/src/edge/server.ts), a brain     *)
(* runs each against the run's workspace (invokeToolOnExecutor of          *)
(* apps/gateway/src/brain/runtime.ts), and executors unpack the workspace, *)
(* run the task in it and upload the next version                          *)
(* (apps/node-agent/src/runtime.ts, workspaces/snapshot-cache.ts).         *)
(*                                                                         *)
(* Brains do not await a dispatch, so calls run side by side, in one brain *)
(* or in several.  The choice among executors with room is in Capacity.    *)
(* What a directory or an object holds is the set of calls whose task      *)
(* worked on it.                                                           *)
(***************************************************************************)
EXTENDS Integers, FiniteSets

CONSTANTS
    Calls,          \* dispatches put on the brains' stream
    Requests,
    Dispatches,     \* the ways in which calls may be for requests: a repeated
                    \* dispatch has the run:node:attempt of the first
    Kind,           \* "agent.execute", "agent.run" or "connector.action"
    Executors,
    NoCall, NoExecutor,
    MaxAtOnce,      \* bound: calls under way together
    MaxFaults       \* bound: downloads, uploads, brains and executors that
                    \* fail, replies that a brain stops waiting for

ASSUME ToolAssumption ==
    /\ IsFiniteSet(Calls) /\ NoCall \notin Calls /\ NoExecutor \notin Executors
    /\ Dispatches \subseteq [Calls -> Requests]
    /\ MaxAtOnce \in Nat /\ MaxFaults \in Nat

VARIABLES
    \* The run's row of execution_workspaces: whether there is one, its
    \* version, the version in its object key, and its lock.
    row,
    \* The bucket: what the object of each version holds.
    objects,
    \* The brains: where each call is, the row as it was read, the executor
    \* and the response; gateway:results and gateway:bus:reply of a request.
    pc, seen, exec, response, results, reply,
    \* The executors: what each call's task is doing, what it answers, and
    \* for each version the extracted directory and the local snapshot.
    task, verdict, dir, snapshot,
    \* History: calls whose commit took place, calls whose task ended, and
    \* whether two calls were ever under way together.
    committed, ended, raced,
    \* What the bounds count.
    faults,
    \* The request of each call, which never changes.
    requestOf

rowVars   == <<row, committed>>
brainVars == <<pc, seen, exec, response, results>>
taskVars  == <<task, verdict, dir, snapshot, ended>>
faultVars == <<faults, requestOf>>
vars == <<rowVars, objects, brainVars, reply, taskVars, raced, faultVars>>

Versions == 0..Cardinality(Calls)
Absent == [there |-> FALSE, work |-> {}]
Holds(w) == [there |-> TRUE, work |-> w]
Content == [there : BOOLEAN, work : SUBSET Calls]

Row == [made : BOOLEAN, version : Versions, key : Versions, lock : Calls \cup {NoCall}]
NoReply == [status |-> "none", version |-> 0]
Reply == [status : {"none", "succeeded", "failed"}, version : Versions]
Failed == [status |-> "failed", version |-> 0]

Init ==
    /\ row = [made |-> FALSE, version |-> 0, key |-> 0, lock |-> NoCall]
    /\ objects = [v \in Versions |-> Absent]
    /\ pc = [c \in Calls |-> "posted"]
    /\ seen = [c \in Calls |-> [version |-> 0, key |-> 0]]
    /\ exec = [c \in Calls |-> NoExecutor]
    /\ response = [c \in Calls |-> "none"]
    /\ results = [r \in Requests |-> "none"]
    /\ reply = [r \in Requests |-> NoReply]
    /\ task = [c \in Calls |-> "none"] /\ verdict = [c \in Calls |-> "succeeded"]
    /\ dir = [e \in Executors |-> [v \in Versions |-> Absent]]
    /\ snapshot = [e \in Executors |-> [v \in Versions |-> Absent]]
    /\ committed = {} /\ ended = {} /\ raced = FALSE
    /\ faults = 0 /\ requestOf \in Dispatches

At(c, p) == pc[c] = p
GoTo(c, p) == pc' = [pc EXCEPT ![c] = p]
Respond(c, s) == response' = [response EXCEPT ![c] = s]
Fault == faults < MaxFaults /\ faults' = faults + 1

\* A call, or the task it left behind on an executor, is still at work.
Live(c) == pc[c] \notin {"posted", "done", "dead"} \/ task[c] \notin {"none", "gone"}

-----------------------------------------------------------------------------
(* The edge.                                                               *)

\* A request that already has its result is not put on the stream; else a
\* brain reads the record and looks for an executor.
dispatch(c) ==
    /\ At(c, "posted") /\ Cardinality({d \in Calls : Live(d)}) < MaxAtOnce
    /\ \/ results[requestOf[c]] # "none" /\ GoTo(c, "done") /\ UNCHANGED raced
       \/ /\ results[requestOf[c]] = "none" /\ GoTo(c, "select")
          /\ raced' = (raced \/ \E d \in Calls : Live(d))
    /\ UNCHANGED <<rowVars, objects, seen, exec, response, results, reply, taskVars, faultVars>>

-----------------------------------------------------------------------------
(* The brain: invokeToolOnExecutor, and runAsync around it.                *)

\* No executor, no place on one, or no OAuth: an answer at once.
selectExecutorForTool(c) ==
    /\ At(c, "select")
    /\ \/ \E e \in Executors :
             exec' = [exec EXCEPT ![c] = e] /\ GoTo(c, "load") /\ UNCHANGED response
       \/ UNCHANGED exec /\ GoTo(c, "finish") /\ Respond(c, "failed")
    /\ UNCHANGED <<rowVars, objects, seen, results, reply, taskVars, raced, faultVars>>

\* The row is read before it is locked.
getExecutionWorkspaceByOwner(c) ==
    /\ At(c, "load")
    /\ IF row.made
       THEN /\ GoTo(c, "lock")
            /\ seen' = [seen EXCEPT ![c] = [version |-> row.version, key |-> row.key]]
       ELSE GoTo(c, "create") /\ UNCHANGED seen
    /\ UNCHANGED <<rowVars, objects, exec, response, results, reply, taskVars, raced, faultVars>>

\* One row per owner: of two calls that found none, the second one throws.
createExecutionWorkspace(c) ==
    /\ At(c, "create")
    /\ IF row.made
       THEN GoTo(c, "finish") /\ Respond(c, "failed") /\ UNCHANGED row
       ELSE GoTo(c, "lock") /\ row' = [row EXCEPT !.made = TRUE] /\ UNCHANGED response
    /\ UNCHANGED <<committed, objects, seen, exec, results, reply, taskVars, raced, faultVars>>

tryLockExecutionWorkspace(c) ==
    /\ At(c, "lock")
    /\ IF row.lock = NoCall
       THEN GoTo(c, "send") /\ row' = [row EXCEPT !.lock = c] /\ UNCHANGED response
       ELSE GoTo(c, "finish") /\ Respond(c, "failed") /\ UNCHANGED row
    /\ UNCHANGED <<committed, objects, seen, exec, results, reply, taskVars, raced, faultVars>>

\* The presigned URLs name the version that was read and the next one.  The
\* edge hands the task to the executor, or answers that it is offline.
invokeTool(c) ==
    /\ At(c, "send") /\ GoTo(c, "wait")
    /\ \/ task' = [task EXCEPT ![c] = "arrived"] /\ UNCHANGED <<reply, faults>>
       \/ Fault /\ reply' = [reply EXCEPT ![requestOf[c]] = Failed] /\ UNCHANGED task
    /\ UNCHANGED <<rowVars, objects, seen, exec, response, results>>
    /\ UNCHANGED <<verdict, dir, snapshot, ended, raced, requestOf>>

\* Mutant: the row's key stays that of the version before.
commitExecutionWorkspaceVersion_OldKey(c, v) ==
    IF row.version = seen[c].version
    THEN /\ row' = [row EXCEPT !.version = @ + 1, !.lock = NoCall]
         /\ committed' = committed \cup {c}
    ELSE UNCHANGED rowVars

\* The row moves on if it still is at the version that was read.
commitExecutionWorkspaceVersion(c, v) ==
    IF row.version = seen[c].version
    THEN /\ row' = [row EXCEPT !.version = @ + 1, !.key = v, !.lock = NoCall]
         /\ committed' = committed \cup {c}
    ELSE UNCHANGED rowVars

\* Mutant: a conflict is not told.
waitForReply_Conflict(c) ==
    /\ At(c, "wait") /\ reply[requestOf[c]] # NoReply /\ GoTo(c, "unlock")
    /\ LET r == reply[requestOf[c]]
       IN  /\ IF r.version > 0 THEN commitExecutionWorkspaceVersion(c, r.version)
                               ELSE UNCHANGED rowVars
           /\ Respond(c, r.status)
    /\ UNCHANGED <<objects, seen, exec, results, reply, taskVars, raced, faultVars>>

\* The reply of the executor, whatever call it was meant for: one that brings
\* a workspace is committed, though the task may have failed.
waitForReply(c) ==
    /\ At(c, "wait") /\ reply[requestOf[c]] # NoReply /\ GoTo(c, "unlock")
    /\ LET r == reply[requestOf[c]]
       IN  IF r.version > 0
           THEN /\ commitExecutionWorkspaceVersion(c, r.version)
                /\ Respond(c, IF row.version = seen[c].version THEN r.status ELSE "failed")
           ELSE UNCHANGED rowVars /\ Respond(c, r.status)
    /\ UNCHANGED <<objects, seen, exec, results, reply, taskVars, raced, faultVars>>

\* Mutant: an executor that is gone is waited for.
waitTimesOut_Alive(c) ==
    /\ At(c, "wait") /\ reply[requestOf[c]] = NoReply
    /\ task[c] # "gone" /\ Fault
    /\ GoTo(c, "unlock") /\ Respond(c, "failed")
    /\ UNCHANGED <<rowVars, objects, seen, exec, results, reply, taskVars, raced, requestOf>>

\* The executor is slow, or its answer was lost.
waitTimesOut(c) ==
    /\ At(c, "wait") /\ reply[requestOf[c]] = NoReply
    /\ \/ task[c] = "gone" /\ UNCHANGED faults
       \/ task[c] # "gone" /\ Fault
    /\ GoTo(c, "unlock") /\ Respond(c, "failed")
    /\ UNCHANGED <<rowVars, objects, seen, exec, results, reply, taskVars, raced, requestOf>>

\* The finally block: only a lock of one's own is released.
releaseExecutionWorkspaceLock(c) ==
    /\ At(c, "unlock") /\ GoTo(c, "finish")
    /\ row' = [row EXCEPT !.lock = IF @ = c THEN NoCall ELSE @]
    /\ UNCHANGED <<committed, objects, seen, exec, response, results, reply>>
    /\ UNCHANGED <<taskVars, raced, faultVars>>

\* The response is stored, and put under the key the executor replies at.
finish(c) ==
    /\ At(c, "finish") /\ GoTo(c, "done") /\ Respond(c, "none")
    /\ results' = [results EXCEPT ![requestOf[c]] = response[c]]
    /\ reply' = [reply EXCEPT ![requestOf[c]] = [status |-> response[c], version |-> 0]]
    /\ UNCHANGED <<rowVars, objects, seen, exec, taskVars, raced, faultVars>>

\* The brain dies: its record was read and is not read again.
BrainDies(c) ==
    /\ pc[c] \notin {"posted", "done", "dead"} /\ Fault /\ GoTo(c, "dead") /\ Respond(c, "none")
    /\ UNCHANGED <<rowVars, objects, seen, exec, results, reply>>
    /\ UNCHANGED <<taskVars, raced, requestOf>>

\* Mutant: a lock without a time to live.
LockExpires_Never == FALSE /\ UNCHANGED vars

\* The lock's time to live is that of the task and its reply, so it ends for
\* a call that no longer waits.
LockExpires ==
    /\ row.lock # NoCall /\ pc[row.lock] \in {"done", "dead"}
    /\ row' = [row EXCEPT !.lock = NoCall]
    /\ UNCHANGED <<committed, objects, brainVars, reply, taskVars, raced, faultVars>>

-----------------------------------------------------------------------------
(* The executors: executeTool, ensureWorkspaceExtracted and                *)
(* snapshotAndUploadWorkspace.                                             *)

Turn(c, p) == task' = [task EXCEPT ![c] = p]
Dir(c) == dir[exec[c]][seen[c].version]
SetDir(c, d) == dir' = [dir EXCEPT ![exec[c]][seen[c].version] = d]
Local(c, v) == snapshot[exec[c]][v]
SetLocal(c, v, d) == snapshot' = [snapshot EXCEPT ![exec[c]][v] = d]
brainSide == <<rowVars, brainVars, raced, requestOf>>

\* tool_result_v2, which the edge stores under the request's reply key.
ToolResult(c, s, v) == reply' = [reply EXCEPT ![requestOf[c]] = [status |-> s, version |-> v]]
Gone(c) == Turn(c, "gone") /\ ended' = ended \cup {c}

\* A payload or policy that the executor does not accept.
taskRefused(c) ==
    /\ task[c] = "arrived" /\ Turn(c, "gone") /\ ToolResult(c, "failed", 0)
    /\ UNCHANGED <<brainSide, objects, verdict, dir, snapshot, ended, faults>>

\* A directory that is there is taken for the version; else it is made, and
\* the empty first version needs no more.
ensureWorkspaceExtracted(c) ==
    /\ task[c] = "arrived"
    /\ IF Dir(c).there THEN Turn(c, "run") /\ UNCHANGED dir
       ELSE /\ SetDir(c, Holds({}))
            /\ Turn(c, IF seen[c].version = 0 THEN "run" ELSE "unpack")
    /\ UNCHANGED <<brainSide, objects, reply, verdict, snapshot, ended, faults>>

\* Mutant: the local snapshot is taken for the next version too.
unpackWorkspace_Any(c) ==
    /\ task[c] = "unpack" /\ Turn(c, "run")
    /\ LET old == Local(c, seen[c].version - 1)
           archive == IF old.there THEN old ELSE objects[seen[c].key]
       IN  SetLocal(c, seen[c].version, archive)
           /\ SetDir(c, Holds(Dir(c).work \cup archive.work))
    /\ UNCHANGED <<brainSide, objects, reply, verdict, ended, faults>>

\* The archive is a local snapshot of that version, or it is downloaded.
unpackWorkspace(c) ==
    /\ task[c] = "unpack"
    /\ LET archive == IF Local(c, seen[c].version).there THEN Local(c, seen[c].version)
                      ELSE objects[seen[c].key]
       IN  SetLocal(c, seen[c].version, archive)
           /\ SetDir(c, Holds(Dir(c).work \cup archive.work))
    /\ Turn(c, "run")
    /\ UNCHANGED <<brainSide, objects, reply, verdict, ended, faults>>

downloadFails(c) ==
    /\ task[c] = "unpack" /\ ~Local(c, seen[c].version).there /\ Fault
    /\ Gone(c) /\ ToolResult(c, "failed", 0)
    /\ UNCHANGED <<brainSide, objects, verdict, dir, snapshot>>

\* The work is done in the directory.  A script or action that fails still
\* has its directory uploaded; an engine that fails ends the task.
Works(c, s) ==
    /\ task[c] = "run" /\ SetDir(c, Holds(Dir(c).work \cup {c}))
    /\ verdict' = [verdict EXCEPT ![c] = s]
    /\ UNCHANGED <<brainSide, objects, snapshot, faults>>

runScript(c, s) ==
    /\ Kind[c] = "agent.execute" /\ Works(c, s)
    /\ Turn(c, "snapshot") /\ UNCHANGED <<reply, ended>>

runConnectorTask(c, s) ==
    /\ Kind[c] = "connector.action" /\ Works(c, s)
    /\ Turn(c, "snapshot") /\ UNCHANGED <<reply, ended>>

executeEnginePrompt(c, s) ==
    /\ Kind[c] = "agent.run" /\ Works(c, s)
    /\ IF s = "failed" THEN Gone(c) /\ ToolResult(c, s, 0)
       ELSE Turn(c, "snapshot") /\ UNCHANGED <<reply, ended>>

\* tar and zstd, into the local directory of the next version.
snapshotWorkspace(c) ==
    /\ task[c] = "snapshot" /\ Turn(c, "upload")
    /\ SetLocal(c, seen[c].version + 1, Dir(c))
    /\ UNCHANGED <<brainSide, objects, reply, verdict, dir, ended, faults>>

uploadWorkspace(c) ==
    /\ task[c] = "upload" /\ Gone(c)
    /\ objects' = [objects EXCEPT ![seen[c].version + 1] = Local(c, seen[c].version + 1)]
    /\ ToolResult(c, verdict[c], seen[c].version + 1)
    /\ UNCHANGED <<brainSide, verdict, dir, snapshot, faults>>

uploadFails(c) ==
    /\ task[c] = "upload" /\ Fault /\ Gone(c) /\ ToolResult(c, "failed", 0)
    /\ UNCHANGED <<brainSide, objects, verdict, dir, snapshot>>

\* The executor's process or connection dies: the task, or its answer, is lost.
ExecutorDies(c) ==
    /\ task[c] \notin {"none", "gone"} /\ Fault /\ Turn(c, "gone")
    /\ UNCHANGED <<brainSide, objects, reply, verdict, dir, snapshot, ended>>

-----------------------------------------------------------------------------
BrainStep(c) ==
    \/ selectExecutorForTool(c) \/ getExecutionWorkspaceByOwner(c)
    \/ createExecutionWorkspace(c) \/ tryLockExecutionWorkspace(c)
    \/ invokeTool(c) \/ waitForReply(c) \/ waitTimesOut(c)
    \/ releaseExecutionWorkspaceLock(c) \/ finish(c)

TaskStep(c) ==
    \/ taskRefused(c) \/ ensureWorkspaceExtracted(c) \/ unpackWorkspace(c)
    \/ \E s \in {"succeeded", "failed"} :
          runScript(c, s) \/ runConnectorTask(c, s) \/ executeEnginePrompt(c, s)
    \/ snapshotWorkspace(c) \/ uploadWorkspace(c)

Next ==
    \/ \E c \in Calls :
          \/ dispatch(c) \/ BrainStep(c) \/ TaskStep(c)
          \/ downloadFails(c) \/ uploadFails(c) \/ ExecutorDies(c) \/ BrainDies(c)
    \/ LockExpires

Spec == Init /\ [][Next]_vars

\* Brains and executors that live go on, and time passes.
Fairness ==
    /\ \A c \in Calls : WF_vars(BrainStep(c)) /\ WF_vars(TaskStep(c))
    /\ WF_vars(LockExpires)

FairSpec == Spec /\ Fairness

-----------------------------------------------------------------------------
(* Properties.                                                             *)

TypeOK ==
    /\ row \in Row /\ objects \in [Versions -> Content]
    /\ pc \in [Calls -> {"posted", "select", "load", "create", "lock", "send", "wait",
                         "unlock", "finish", "done", "dead"}]
    /\ seen \in [Calls -> [version : Versions, key : Versions]]
    /\ exec \in [Calls -> Executors \cup {NoExecutor}]
    /\ response \in [Calls -> {"none", "succeeded", "failed"}]
    /\ results \in [Requests -> {"none", "succeeded", "failed"}]
    /\ reply \in [Requests -> Reply]
    /\ task \in [Calls -> {"none", "arrived", "unpack", "run", "snapshot", "upload", "gone"}]
    /\ verdict \in [Calls -> {"succeeded", "failed"}]
    /\ dir \in [Executors -> [Versions -> Content]]
    /\ snapshot \in [Executors -> [Versions -> Content]]
    /\ committed \subseteq Calls /\ ended \subseteq Calls /\ raced \in BOOLEAN
    /\ faults \in 0..MaxFaults /\ requestOf \in Dispatches

\* Every version of the workspace was committed by one call: of two that
\* started from the same version at most one moves the row on, whatever lock
\* was lost and whatever reply came late (commitExecutionWorkspaceVersion).
VersionsCounted == row.version = Cardinality(committed)

\* Calls that follow one another, with no fault, lose nothing: whatever
\* executors they ran on, what the row points at holds the work of all of
\* them that committed (the caches of snapshot-cache.ts are keyed by version).
SequentialKeepsWork ==
    (~raced /\ faults = 0 /\ row.version > 0)
        => committed \subseteq objects[row.key].work

\* False: that faults lose nothing either.  A download that fails leaves an empty
\* directory which the next call on that executor takes for the version; and a
\* call that uploaded without being committed leaves a snapshot which its
\* executor takes for the version another call has committed since.
FaultsKeepWork ==
    (~raced /\ row.version > 0) => committed \subseteq objects[row.key].work

\* A node that is told to have succeeded had a task that ended, in this call
\* or in another of the same request, and its workspace was committed
\* (handleWorkflowDispatch stores the result last).
SuccessIsCommitted ==
    \A r \in Requests : results[r] = "succeeded" =>
        /\ \E c \in ended : requestOf[c] = r
        /\ \E c \in committed : requestOf[c] = r

\* The three together: what the callers of tools may rely on.
WorkspaceHolds == VersionsCounted /\ SequentialKeepsWork /\ SuccessIsCommitted

\* Whoever holds the workspace, and whether or not its brain lives, it is
\* free again (the finally block, and lockExpiresAt).
WorkspaceUnlocks == (row.lock # NoCall) ~> (row.lock = NoCall)

\* A call that a brain takes is answered, the request has a result, unless that
\* brain dies under it: not even a lost executor, a failed transfer or a task that
\* outlasts its timeout leaves the caller without.  And whoever had locked the
\* workspace, it is free again.
DispatchAnswered ==
    /\ \A c \in Calls : At(c, "select") ~> (results[requestOf[c]] # "none" \/ At(c, "dead"))
    /\ WorkspaceUnlocks
=============================================================================
