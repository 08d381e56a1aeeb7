------------------------------ MODULE Authoring ------------------------------
(***************************************************************************)
(* One workflow family in the API: its revisions (created, edited as a     *)
(* draft, published, cloned into a new draft), the trigger subscriptions   *)
(* that publishing writes, and the webhook that uses them                  *)
(* (apps/api/src/server.ts, the store, and packages/db's repositories).    *)
(*                                                                         *)
(* Each store call is one database transaction at the level READ COMMITTED;*)
(* where a call reads before it writes, others commit in between.  After an*)
(* error PostgreSQL refuses every further statement of the transaction.    *)
(***************************************************************************)
EXTENDS Integers, FiniteSets

CONSTANTS
    Workflows,      \* bound: rows of workflows
    Requests,       \* requests in flight at once
    Deliveries,     \* bound: webhook calls
    None,
    MaxEdits,       \* bound: requests that change a workflow
    MaxSubscriptions \* bound: subscription ids drawn

VARIABLES
    workflow,       \* workflows: revision, status, what its trigger is, its version
    subs,           \* workflow_trigger_subscriptions
    lastId,         \* the last subscription id drawn
    req,            \* the requests in flight
    edits,          \* what MaxEdits counts
    delivery,       \* webhook calls, all with one idempotency key
    runs,           \* workflow_runs created by the webhook: subscription, workflow, call
    jobs, begun     \* calls whose run has a job in the queue; whose run a worker has begun

queueVars == <<jobs, begun>>
vars == <<workflow, subs, lastId, req, edits, delivery, runs, queueVars>>

\* A cron or heartbeat trigger and a webhook each become one subscription, a
\* manual trigger none.
Triggers == {"cron", "webhook", "manual"}
NoWorkflow == [revision |-> 0, status |-> "none", trigger |-> "cron", version |-> 0]
Idle == [pc |-> "idle", w |-> None, trigger |-> "cron", version |-> 0, max |-> 0, result |-> "none"]
NoDelivery == [pc |-> "idle", sub |-> 0, w |-> None]
Rows == {w \in Workflows : workflow[w].status # "none"}
MaxRevision == CHOOSE n \in 0..Cardinality(Workflows) :
    /\ \A w \in Rows : workflow[w].revision <= n
    /\ n = 0 \/ \E w \in Rows : workflow[w].revision = n

Init ==
    /\ workflow = [w \in Workflows |-> NoWorkflow]
    /\ subs = {} /\ lastId = 0 /\ edits = 0
    /\ req = [r \in Requests |-> Idle]
    /\ delivery = [d \in Deliveries |-> NoDelivery] /\ runs = {}
    /\ jobs = {} /\ begun = {}

Begin(r, f) ==
    req[r].pc = "idle" /\ edits < MaxEdits /\ edits' = edits + 1 /\ req' = [req EXCEPT ![r] = f]
Go(r, f) == req' = [req EXCEPT ![r] = f]
End(r, result) == req' = [req EXCEPT ![r] = [Idle EXCEPT !.result = result]]

-----------------------------------------------------------------------------
(* Creating and editing.                                                   *)

createWorkflow(w, t) ==
    /\ Rows = {} /\ edits < MaxEdits /\ edits' = edits + 1
    /\ workflow' = [workflow EXCEPT ![w] =
            [revision |-> 1, status |-> "draft", trigger |-> t, version |-> 1]]
    /\ UNCHANGED <<subs, lastId, req, delivery, runs, queueVars>>

\* PUT: the handler reads the row and refuses one that is not a draft.
readDraft(r, w, t) ==
    /\ workflow[w].status = "draft"
    /\ Begin(r, [Idle EXCEPT !.pc = "update", !.w = w, !.trigger = t])
    /\ UNCHANGED <<workflow, subs, lastId, delivery, runs, queueVars>>

\* Mutant: the update trusts what the handler read.
updateWorkflowDraft_Unguarded(r) ==
    /\ req[r].pc = "update" /\ End(r, "updated")
    /\ workflow' = [workflow EXCEPT ![req[r].w].trigger = req[r].trigger,
                                    ![req[r].w].version = @ + 1]
    /\ UNCHANGED <<subs, lastId, edits, delivery, runs, queueVars>>

\* The update asks for a draft again.
updateWorkflowDraft(r) ==
    /\ req[r].pc = "update"
    /\ IF workflow[req[r].w].status = "draft"
       THEN /\ workflow' = [workflow EXCEPT ![req[r].w].trigger = req[r].trigger,
                                            ![req[r].w].version = @ + 1]
            /\ End(r, "updated")
       ELSE UNCHANGED workflow /\ End(r, "conflict")
    /\ UNCHANGED <<subs, lastId, edits, delivery, runs, queueVars>>

-----------------------------------------------------------------------------
(* Publishing and its subscriptions.                                       *)

\* publishWorkflow reads the row for its version; its status is not asked,
\* so a published workflow may be published again.
publishRead(r, w) ==
    /\ w \in Rows
    /\ Begin(r, [Idle EXCEPT !.pc = "publish", !.w = w, !.version = workflow[w].version])
    /\ UNCHANGED <<workflow, subs, lastId, delivery, runs, queueVars>>

\* Mutant: the answer holds the dsl that was read first.
publishWorkflow_StaleDsl(r) ==
    /\ req[r].pc = "publish"
    /\ workflow' = [workflow EXCEPT ![req[r].w].status = "published",
                                    ![req[r].w].version = req[r].version + 1]
    /\ Go(r, [req[r] EXCEPT !.pc = "sync", !.trigger = "cron"])
    /\ UNCHANGED <<subs, lastId, edits, delivery, runs, queueVars>>

\* The update returns the row, whose dsl the subscriptions are derived from.
publishWorkflow(r) ==
    /\ req[r].pc = "publish"
    /\ workflow' = [workflow EXCEPT ![req[r].w].status = "published",
                                    ![req[r].w].version = req[r].version + 1]
    /\ Go(r, [req[r] EXCEPT !.pc = "sync", !.trigger = workflow[req[r].w].trigger])
    /\ UNCHANGED <<subs, lastId, edits, delivery, runs, queueVars>>

\* A second transaction replaces the workflow's own subscriptions; those of
\* other revisions stay.  The webhook's token is unique: when another revision
\* holds it, the transaction is rolled back, and the workflow stays published.
Others(w) == {x \in subs : x.w # w}
deriveTriggerSubscriptionsFromDsl(trigger) == {trigger} \ {"manual"}

\* Mutant: new rows are added to the old ones.
replaceWorkflowTriggerSubscriptions_Keeps(r) ==
    /\ req[r].pc = "sync" /\ lastId < MaxSubscriptions /\ lastId' = lastId + 1
    /\ subs' = subs \cup {[id |-> lastId + 1, w |-> req[r].w, type |-> req[r].trigger,
                           enabled |-> TRUE]}
    /\ End(r, "published")
    /\ UNCHANGED <<workflow, edits, delivery, runs, queueVars>>

replaceWorkflowTriggerSubscriptions(r) ==
    /\ req[r].pc = "sync"
    /\ IF req[r].trigger = "webhook" /\ \E x \in Others(req[r].w) : x.type = "webhook"
       THEN UNCHANGED <<subs, lastId>> /\ End(r, "conflict")
       ELSE LET specs == deriveTriggerSubscriptionsFromDsl(req[r].trigger)
            IN /\ lastId' = lastId + Cardinality(specs) /\ lastId' <= MaxSubscriptions
               /\ subs' = Others(req[r].w) \cup
                    {[id |-> lastId + 1, w |-> req[r].w, type |-> t, enabled |-> TRUE] : t \in specs}
               /\ End(r, "published")
    /\ UNCHANGED <<workflow, edits, delivery, runs, queueVars>>

\* PATCH /triggers/:subscriptionId.
updateWorkflowTriggerSubscriptionEnabled(x) ==
    /\ x \in subs /\ edits < MaxEdits /\ edits' = edits + 1
    /\ subs' = (subs \ {x}) \cup {[x EXCEPT !.enabled = ~@]}
    /\ UNCHANGED <<workflow, lastId, req, delivery, runs, queueVars>>

-----------------------------------------------------------------------------
(* A new draft of a published revision.                                    *)

readPublished(r, w) ==
    /\ workflow[w].status = "published"
    /\ Begin(r, [Idle EXCEPT !.pc = "max", !.w = w])
    /\ UNCHANGED <<workflow, subs, lastId, delivery, runs, queueVars>>

selectMaxRevision(r) ==
    /\ req[r].pc = "max" /\ Go(r, [req[r] EXCEPT !.pc = "insert", !.max = MaxRevision])
    /\ UNCHANGED <<workflow, subs, lastId, edits, delivery, runs, queueVars>>

\* Mutant: the revision is not unique.
createWorkflowDraftFromWorkflow_NoIndex(r, w) ==
    /\ req[r].pc = "insert" /\ w \notin Rows
    /\ workflow' = [workflow EXCEPT ![w] = [revision |-> req[r].max + 1, status |-> "draft",
                        trigger |-> workflow[req[r].w].trigger, version |-> 1]]
    /\ End(r, "created")
    /\ UNCHANGED <<subs, lastId, edits, delivery, runs, queueVars>>

\* The insert, or a unique violation when another draft took the revision.
createWorkflowDraftFromWorkflow(r, w) ==
    /\ req[r].pc = "insert" /\ w \notin Rows
    /\ IF \E v \in Rows : workflow[v].revision = req[r].max + 1
       THEN UNCHANGED workflow /\ Go(r, [req[r] EXCEPT !.pc = "retry"])
       ELSE /\ workflow' = [workflow EXCEPT ![w] = [revision |-> req[r].max + 1,
                    status |-> "draft", trigger |-> workflow[req[r].w].trigger, version |-> 1]]
            /\ End(r, "created")
    /\ UNCHANGED <<subs, lastId, edits, delivery, runs, queueVars>>

\* The loop's second select runs in the same transaction, which PostgreSQL
\* has aborted: its error is no unique violation and ends the request.
retrySelect(r) ==
    /\ req[r].pc = "retry" /\ End(r, "aborted")
    /\ UNCHANGED <<workflow, subs, lastId, edits, delivery, runs, queueVars>>

\* The process ends between two transactions, or the database fails.
RequestFails(r) ==
    /\ req[r].pc # "idle" /\ End(r, "failed")
    /\ UNCHANGED <<workflow, subs, lastId, edits, delivery, runs, queueVars>>

-----------------------------------------------------------------------------
(* POST /v1/triggers/webhook/:token.                                       *)

getWorkflowTriggerSubscriptionByWebhookTokenHash(d) ==
    /\ delivery[d].pc = "idle"
    /\ delivery' = [delivery EXCEPT ![d] =
            IF \E x \in subs : x.type = "webhook" /\ x.enabled
            THEN LET x == CHOOSE y \in subs : y.type = "webhook"
                 IN [pc |-> "workflow", sub |-> x.id, w |-> x.w]
            ELSE [NoDelivery EXCEPT !.pc = "refused"]]
    /\ UNCHANGED <<workflow, subs, lastId, req, edits, runs, queueVars>>

\* The workflow is published, and the organization's quota is not used up.
webhookWorkflow(d) ==
    /\ delivery[d].pc = "workflow"
    /\ \E pc \in {"create", "refused"} :
        /\ pc = "create" => workflow[delivery[d].w].status = "published"
        /\ delivery' = [delivery EXCEPT ![d].pc = pc]
    /\ UNCHANGED <<workflow, subs, lastId, req, edits, runs, queueVars>>

\* Mutant: the run's trigger key is not unique.
createWebhookRun_Again(d) ==
    /\ delivery[d].pc = "create"
    /\ runs' = runs \cup {[sub |-> delivery[d].sub, w |-> delivery[d].w, by |-> d]}
    /\ delivery' = [delivery EXCEPT ![d].pc = "enqueue"]
    /\ UNCHANGED <<workflow, subs, lastId, req, edits, queueVars>>

\* The trigger key holds the subscription's id and the caller's idempotency
\* key: a second call with both is answered as a duplicate.
createWebhookRun(d) ==
    /\ delivery[d].pc = "create"
    /\ IF \E x \in runs : x.sub = delivery[d].sub /\ x.w = delivery[d].w
       THEN UNCHANGED runs /\ delivery' = [delivery EXCEPT ![d].pc = "duplicate"]
       ELSE /\ runs' = runs \cup {[sub |-> delivery[d].sub, w |-> delivery[d].w, by |-> d]}
            /\ delivery' = [delivery EXCEPT ![d].pc = "enqueue"]
    /\ UNCHANGED <<workflow, subs, lastId, req, edits, queueVars>>

enqueueWebhookRun(d) ==
    /\ delivery[d].pc = "enqueue" /\ delivery' = [delivery EXCEPT ![d].pc = "accepted"]
    /\ jobs' = jobs \cup {d}
    /\ UNCHANGED <<workflow, subs, lastId, req, edits, runs, begun>>

\* The command fails, whether or not the queue took the job.
webhookQueueFails(d) ==
    /\ delivery[d].pc = "enqueue" /\ delivery' = [delivery EXCEPT ![d].pc = "undo"]
    /\ jobs' \in {jobs, jobs \cup {d}}
    /\ UNCHANGED <<workflow, subs, lastId, req, edits, runs, begun>>

\* A worker takes the job, and finds the run unless it is deleted.
workerBegins(d) ==
    /\ d \in jobs \ begun /\ \E x \in runs : x.by = d
    /\ begun' = begun \cup {d}
    /\ UNCHANGED <<workflow, subs, lastId, req, edits, delivery, runs, jobs>>

\* Mutant: the run is deleted whatever has become of it.
deleteQueuedWorkflowRun_Any(d) == {x \in runs : x.by # d}

\* What is left when the run is deleted if it is queued and was never tried.
deleteQueuedWorkflowRun(d) == {x \in runs : x.by # d \/ d \in begun}

\* The caller is told to retry.
undoWebhookRun(d) ==
    /\ delivery[d].pc = "undo" /\ delivery' = [delivery EXCEPT ![d].pc = "unavailable"]
    /\ runs' = deleteQueuedWorkflowRun(d)
    /\ UNCHANGED <<workflow, subs, lastId, req, edits, queueVars>>

Next ==
    \/ \E r \in Requests, w \in Workflows :
        \/ \E t \in Triggers : readDraft(r, w, t)
        \/ publishRead(r, w) \/ readPublished(r, w) \/ createWorkflowDraftFromWorkflow(r, w)
    \/ \E r \in Requests :
        \/ updateWorkflowDraft(r) \/ publishWorkflow(r) \/ replaceWorkflowTriggerSubscriptions(r)
        \/ selectMaxRevision(r) \/ retrySelect(r) \/ RequestFails(r)
    \/ \E w \in Workflows, t \in Triggers : createWorkflow(w, t)
    \/ \E x \in subs : updateWorkflowTriggerSubscriptionEnabled(x)
    \/ \E d \in Deliveries :
        \/ getWorkflowTriggerSubscriptionByWebhookTokenHash(d) \/ webhookWorkflow(d)
        \/ createWebhookRun(d) \/ enqueueWebhookRun(d) \/ webhookQueueFails(d)
        \/ workerBegins(d) \/ undoWebhookRun(d)

Spec == Init /\ [][Next]_vars

-----------------------------------------------------------------------------
(* Properties.                                                             *)

TypeOK ==
    /\ workflow \in [Workflows -> [revision : 0..Cardinality(Workflows), trigger : Triggers,
                                   status : {"none", "draft", "published"}, version : Nat]]
    /\ \A x \in subs : x.id \in 1..lastId /\ x.w \in Workflows /\ x.type \in Triggers
    /\ lastId \in 0..MaxSubscriptions /\ edits \in 0..MaxEdits
    /\ \A x \in runs : x.w \in Workflows /\ x.by \in Deliveries
    /\ jobs \subseteq Deliveries /\ begun \subseteq jobs

StaysPublished ==
    \A w \in Workflows : workflow[w].status = "published" =>
        workflow'[w].trigger = workflow[w].trigger /\ workflow'[w].status = "published"

\* What is published never changes, however an edit that read a draft and a
\* publication interleave (updateWorkflowDraft against publishWorkflow).
PublishedIsFrozen == [][StaysPublished]_vars

\* No two revisions of a family have one number, though two requests may read
\* the same maximum (createWorkflowDraftFromWorkflow).
RevisionsDiffer ==
    \A v, w \in Rows : workflow[v].revision = workflow[w].revision => v = w

\* Every subscription belongs to a published workflow, is the one its dsl asks
\* for, and is the only one of that workflow.
SubscriptionsFollowDsl ==
    \A x \in subs :
        /\ workflow[x.w].status = "published" /\ x.type = workflow[x.w].trigger
        /\ \A y \in subs : y.w = x.w => y = x

\* With one idempotency key a subscription has one run at most; the run of a
\* call that has been answered has a job; and of a call that was told to retry a
\* run is left only if a worker had begun it, so that the retry is a duplicate.
WebhookRunsOnce ==
    /\ \A x, y \in runs : x.sub = y.sub => x = y
    /\ \A x \in runs : delivery[x.by].pc \in {"accepted", "unavailable"} => x.by \in jobs
    /\ \A x \in runs : delivery[x.by].pc = "unavailable" => x.by \in begun

\* The run of a webhook that a worker has begun stays, whatever its call is told.
BegunStay == \A x \in runs : x.by \in begun => x \in runs'

\* A call that was told to retry has left no run (violated: a worker may take
\* the job of an add that is reported as failed before the run is deleted).
RetriedLeaveNone ==
    \A d \in Deliveries : delivery[d].pc = "unavailable" => ~\E x \in runs : x.by = d

\* A request for a draft that loses the race for a revision tries again, and
\* does not end in an error (violated: the transaction is aborted).
DraftsRetryCollisions == \A r \in Requests : req[r].result # "aborted"

\* At most one revision of a family has a subscription (violated: publishing a
\* revision leaves those of the others).
OneRevisionFires == \A x, y \in subs : x.w = y.w

\* A call answered as a duplicate has a run (violated: the first call's queue
\* may fail after the second was answered).
DuplicateHasRun ==
    \A d \in Deliveries : delivery[d].pc = "duplicate" => runs # {}
=============================================================================
