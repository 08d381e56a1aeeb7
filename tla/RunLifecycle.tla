---------------------------- MODULE RunLifecycle ----------------------------
(***************************************************************************)
(* What the users of a workflow run may rely on, whatever the workers,     *)
(* queues and retries behind it do: the status of the run and the number   *)
(* of attempts it has made.  Its statuses are the workflow_runs.status     *)
(* of packages/db/src/schema.ts, its steps those the update functions are  *)
(* meant for; WorkflowRun is shown to implement it.                        *)
(***************************************************************************)
EXTENDS Naturals

CONSTANT MaxAttempts

VARIABLES status, attemptCount

lifecycle == <<status, attemptCount>>

RunInit == status = "none" /\ attemptCount = 0

Create  == status = "none" /\ attemptCount = 0 /\ status' = "queued" /\ UNCHANGED attemptCount

\* The API takes back a run it could not enqueue.
Delete  == status = "queued" /\ attemptCount = 0 /\ status' = "none" /\ UNCHANGED attemptCount

Start   == /\ status = "queued" /\ status' = "running"
           /\ attemptCount < MaxAttempts /\ attemptCount' = attemptCount + 1

Retry   == /\ status = "running" /\ status' = "queued"
           /\ attemptCount < MaxAttempts /\ UNCHANGED attemptCount

Succeed == status = "running" /\ status' = "succeeded" /\ UNCHANGED attemptCount

Fail    == status = "running" /\ status' = "failed" /\ UNCHANGED attemptCount

RunNext == Create \/ Delete \/ Start \/ Retry \/ Succeed \/ Fail

RunSpec == RunInit /\ [][RunNext]_lifecycle
=============================================================================
