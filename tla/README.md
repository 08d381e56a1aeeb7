# Vespid: specifications and proofs

This directory models Vespid where its processes share state: workflow runs and
the tools they call, the gateway and its executors, interactive sessions,
channels, the requests of the control plane, and the two stores under all of
them. Paths below are relative to the repository; line numbers are those of the
commit the modules were written from. `PROJECT.json` has the machine-readable
form of what follows: the components, every run, the lines each definition
translates (`map`), the mutants that show a property to be sensitive to the code,
the hazards and the theorems.

To check a run, `tlc -config <cfg> <module>` with the module its table entry
names; to check the proofs, `tlapm <Module>Proofs.tla`.

## 1. The system

Vespid runs workflows (lists or graphs of nodes: HTTP calls, connector actions,
agents, conditions) and interactive agent sessions for organizations. Work that
needs a machine of the customer (BYON) or of the operator (managed) goes through
a gateway to *executors*, which run the node agent.

```
 web / cli / mobile                    channels (Slack, Telegram, ...)
        |  HTTP                               |  webhooks
        v                                     v
      API ------ PostgreSQL ------- Gateway edge <==== WebSocket ====> node agents
       |    (rows, transactions)         |  ^                          (executors)
       | BullMQ                    Redis |  | streams, reply keys
       v                                 v  |
  workflow queue <--- scheduler     Gateway brains ----> S3 (workspaces)
       |                                 |
       v                                 v
     worker <--- continuation queue --- results store
```

### Inventory

One line for each component, in the order of `PROJECT.json`, which says in its
notes what of each is left out.

| Component | State it keeps | Operations | Hard behaviours | What makes it correct |
|---|---|---|---|---|
| **Workflow run worker** `apps/worker/src/main.ts` | row of `workflow_runs` (status, attempts, cursor, steps, block, pending remote result); variables of `processWorkflowRunJob` | begin or resume an attempt, execute a node, dispatch it, block on a request or an approval, checkpoint, succeed, retry, fail | every database or queue call is an await; BullMQ repeats a job after a throw or a stall; the row is written without looking at it | no node repeated, skipped or fed a result of another attempt; nothing runs that the policy forbids; a run ends |
| **Continuation worker** `apps/worker/src/continuations` | continuation jobs, the block it read | poll for a result, apply a pushed one, fail on the deadline, clear the block, re-enqueue | poll and push of one request at once; the run changes between read and write | a block resolves; a result is applied once, to the run that asked |
| **Run queue** `apps/worker/src/queue`, `apps/api/src/queue/producer.ts` | the BullMQ job whose id is the run id | add, remove and add, complete, fail, retry, stall, retention | adding an existing id is ignored; an active job cannot be removed | whoever needs the run to go on leaves a job behind |
| **Run creation, approvals** `apps/api/src/server.ts:1930, 6614-7120` | runs, approval requests, usage | check the quota, create, enqueue, undo, approve, reject | several transactions and a queue command per request | an approval decides its node; limits are overshot by a bounded number |
| **Run lifecycle** `packages/db` | statuses and attempts | | | `queued -> running -> succeeded or failed` |
| **Capacity** `apps/gateway/src/brain/scheduler.ts` | Redis counters with a time to live | read loads, reserve (a script), release (two commands) | races for the last place; brains die in between | limits kept; leaked places return |
| **Gateway brain: sessions** `apps/gateway/src/brain/runtime.ts:883-1467` | session lock, pinned executor, events | send, reset, cancel | two brains, a lock that expires, executors that vanish, repeated records | turns overlap only where a lock ran out; answers genuine, not repeated, not missing |
| **Gateway brain: tools, workspaces** same file, 208-880 | workspace row (version, object key, lock) | select, load, lock, invoke, commit, release, store the result | version read before the lock; two uploads to one key | one commit per version; no work lost; success only after a commit |
| **Gateway edge** `apps/gateway/src/edge/server.ts` | sockets of clients and executors, their routes in Redis | put messages on the stream, hand over, reply keys, join a session, broadcast | a join meets broadcasts; an old socket closes after the new one opened; a hello waits for the database while its socket closes | no gap in what a client sees; a connected executor is routable |
| **Results store** `apps/gateway/src/results-store.ts` | Redis keys with a time to live | save, get | polled and pushed | one result per request |
| **Node agent: sessions, tools** `apps/node-agent/src` | contexts, running engines, extracted directories, local snapshots | open, run a turn, unpack, run, pack, upload, reconnect | a turn outlives the wait for it; caches keyed by version | one turn of a session at a time |
| **Node agent: sandbox, skills, MCP** | processes and files of one machine | | | not modelled |
| **Trigger scheduler** `apps/scheduler/src/main.ts` | `next_fire_at` | list what is due, create the slot's run, enqueue, reschedule | several schedulers; a failure between the three; late ticks | a slot runs once; none is lost; heartbeats keep their distance |
| **Revisions, triggers, webhooks** `apps/api/src/server.ts`, `workflow-triggers.ts` | workflows of a family, subscriptions | draft, edit, publish, fire a webhook | an edit meets a publication; two drafts take a number; a repeated delivery | numbers differ; the published one never changes; one run per key |
| **Workflow shares** `server.ts`, `store/pg-store.ts` | invitations, shares | invite, accept, revoke, run as a guest | accepting twice at once | an invitation serves once; guests see their own runs |
| **Workflow DSL, v3 graph** `packages/workflow`, worker | none; steps of the run | validate, walk the graph over block and resume | joins, conditions, recomputation | what the conditions allow, each once, in order |
| **Database access** `packages/db/src/repositories.ts` | the tables | the statements | conditional updates, unique keys | |
| **Stores of the API** `apps/api/src/store` | the tables, twice | the methods of `AppStore` | tests run on one store, production on the other | the database's store implements the in-memory one |
| **Channels** `apps/gateway/src/channels` | deduplication keys, pairing, conversations, replies | receive, deduplicate, pair, route, deliver, retry | a provider repeats what failed half-way; each edge delivers replies of its own | routed once; "accepted" tells whether the brain knows; the replies of an edge in order |
| **Accounts and sessions** `server.ts` | users, refresh rotation, OAuth states | sign up, log in, refresh, log out, OAuth | two refreshes with one cookie | who was signed out stays out |
| **Organizations, platform roles** `server.ts` | memberships, settings, administrators, audit log | invite, accept, change roles, patch settings | check and write are two transactions | nobody gets a role he may not get; patches keep sections |
| **Executors and pairing** `server.ts` | tokens, executors' rows | pair, issue, revoke, delete | two hosts with one token | one executor per token; a revoked one stays away |
| **Sessions and bindings** `server.ts` | sessions, events, bindings | create, message, reset, archive | idempotency keys; a gateway that does not answer | one session per key; 202 means the brain has it |
| **Toolsets, builder** `server.ts`, `toolsets/` | toolsets, builder sessions | draft, publish, adopt; chat, finalize | read and write are two statements; a model call of 25 s between | the gallery shows what was published; one answer per question |
| **Secrets, provider OAuth** `server.ts`, `vertex-oauth.ts` | connector secrets, flows in memory | create, rotate, delete; redirect and device flow | find, create and rotate are three statements | one secret per name; success means it was stored |
| **Agent loop, agent runtime** `packages/agent-runtime`, worker | history, limits, checkpoints | call the model, call tools, `team.map` | crash between checkpoints; trimming | results belong to their calls; policy bounds the team |
| **Language models, connectors, shared, SDK, engine runner, clients** | none of their own | | | not modelled |

### How the parts interact

* The API and the scheduler insert a run's row and add its job; the worker takes
  the job. The row and the queue are not in one transaction, so each process may
  stop, fail or be overtaken between the two.
* The worker sends `workflow_dispatch` requests to the gateway by HTTP and marks
  the run blocked; the answer comes back as a continuation job, pushed by the
  brain (if the gateway has `REDIS_URL`) or found by a poll job.
* The edge and the brains exchange records through Redis streams; an executor's
  reply is a key the brain polls for until a timeout.
* API requests meet in the database only. A handler is a chain of store calls,
  each a transaction at READ COMMITTED.
* Brains, edges, workers, schedulers and API processes are replicated. They share
  PostgreSQL and Redis, and nothing else (but what a flow of `LlmSecrets` began,
  which is in the memory of one API process).

## 2. Modules and how they correspond to the code

| Module | Models |
|---|---|
| `WorkflowRun`, `RunLifecycle` | one run with its job, worker, continuation workers, approvals and the gateway as the worker sees it; its abstract specification |
| `Capacity` | the in-flight counters and the selection that uses them |
| `SessionTurn` | one session: edge, brains, executors |
| `ToolInvocation` | the calls of one run against its workspace: brains, executors, caches |
| `ExecutorConnection` | pairing, issuing, revoking executors; sockets, edges and routes |
| `TriggerScheduler` | one trigger subscription: schedulers, the queue, workers |
| `GraphRun`, `AgentLoop` | the v3 graph executor; the agent loop with `team.map` |
| `ChannelRuntime`, `ChannelAdapters` | one chat account from webhook to reply; what each adapter makes of a webhook call |
| `Accounts`, `Organizations`, `Authoring`, `SharedRuns` | concurrent requests of the control plane on sign-ins, on governance, on one family of workflows, on shares and the quota of runs |
| `SessionRoutes`, `SessionClients`, `Toolsets`, `ToolsetBuilder`, `LlmSecrets` | concurrent requests on sessions and bindings, the sockets that follow a session, the gallery, the builder, secrets and their OAuth flows |
| `Tables`, `MemoryAccounts`, `MemoryWorkflows`, `MemoryExec`, `MemorySessions` | the in-memory store, one atomic step per method: the abstract specification |
| `Repositories`, `PgAccounts`, `PgWorkflows`, `PgExec`, `PgSessions` | the statements of the database access layer, and the store that runs them in interleaved transactions |
| `MC*` | the instances for TLC |
| `*Proofs` | invariants, lemmas and theorems of the module, for tlapm |

**One step per await.** A step of a model is what a process does between two
calls that other processes can observe: a transaction, a queue command, a Redis
command. Local variables that live across such a call are variables of the model
and are forgotten (reset) when the function returns, so that a state is not
distinguished by dead data. A request of the control plane is a record with the
step it is `at` and what it has read; there are two or three slots for requests.

**Scenes.** `MCLive`, `MCKept`, `MCGovernance`, `MCSessions`, `MCWork` check
several components in one run. Their `scene` says which one a behaviour is about;
the others stay as they begin, and no step of one sees another. One component is
EXTENDed, the rest are INSTANCEd, each over variables of its own; where a theorem is
about a scene, its CONSTANTS are those of the MC module, so that the theorem holds for
every value of them. A property of such a run conjoins the named properties of the
component, under `scene = ...`; each part was broken by a mutant of its own, and the
one listed for the run is the one of the hardest part.
`MCStores` does the same with a `topic`: which methods are called together.

### WorkflowRun

| Code | Model |
|---|---|
| columns of `workflow_runs` (`packages/db/src/schema.ts:223`) | `status` ("none": no row), `attemptCount`, `cursor`, `steps`, `blocked`, `pending` |
| the BullMQ job | `jobState`, `attemptsMade`, `jobAttempts`, `stalls` |
| `processWorkflowRunJob` | control point `pc` and `wAttempt`, `wCursor`, `wSteps`, `wPending`; actions `Runner*` in the order of the code |
| the repository functions `markWorkflowRun...`, `updateWorkflowRunProgress`, `clearWorkflowRunBlock`, `deleteQueuedWorkflowRun` | operators of the same name; the first group writes whatever the row holds, as the code does |
| `createWorkflowRunQueue().enqueue` (remove, then add with one attempt) | `enqueue`; `queueAdd` is the plain add of the API |
| `processContinuationPayload`, `applyRemoteFailure` | `ContTake`, `ContDecide`, `clearWorkflowRunBlock`, `applyRemoteFailure`, `ContEnqueue`, one record in `cont` for each worker slot |
| approvals endpoints | `Approve`, `Reject`, then `FindBlockedRun`, `ClearApprovalBlock`, `ApproveEnqueue`, `FailAfterDecision`: the stages of one handler |
| gateway | `GatewayAnswer`: one answer per request id, pushed as well if `Push` |
| throws, crashes | `RunnerThrows` (any call inside the try block), `RunnerCrash` (a stalled job is repeated once), `ContCrash`, `...Fails` |

A request is named by node and attempt, as the code's
`runId:nodeId:attemptCount`; this is what lets `ProgressIntact` tell a result of
this attempt from one of an earlier attempt.

### Capacity

`execCount`/`execTtl` and `orgCount`/`orgTtl` are the two Redis keys and whether
they have a time to live (a key that `DECR` creates has none, and may be
negative). A call goes through `listExecutorRoutes`, one `getInFlight` per
candidate, `reserveCapacity` or `reserveRefused` on the least loaded, work, and
the two `DECR`s of `releaseCapacity`. The script is one step, since Redis runs it
so; the rest is not. `reserveThrows` may have taken the place all the same.
`LongCalls` says whether a key may expire under a call that still holds a place.

### SessionTurn

`stream` is the brains' stream, `batch` what a brain has read and works off
record by record. The control points of `handleSessionSend` are `load` (lock
taken), `pinned`, `select`, `pin`, `open`, `opening`, `turn`, `waiting`,
`finally`. `LockExpires` may take the lock from a brain that died or from one that is
at work, which counts as `overran` from then on: the handler neither renews the lock nor
looks at it again, and its `finally` deletes whatever lock there is (`DeleteLock`), so
that the brain which held that one is overrun, too. `toExec` is what the edges still have to hand to an executor, `ctx`
and `running` the executor's session context and the turns whose engine runs.
`gen` distinguishes the contexts that successive `session_open`s create; the guard
`TURN_IN_PROGRESS` looks at the current context only. `openReply` and `turnReply`
are the reply keys: a repeated message (same idempotency key) has the keys of the
first one. What an
executor answers, and when, is open. `posted`, `answers`, `final` and
`completed` are history, read by the properties only.

### TriggerScheduler

A tick is `listDueWorkflowTriggerSubscriptions`, then `ScheduleFirst` or
`createWorkflowRun`, `queueAdd` (or `queueAddFails`, then
`deleteQueuedWorkflowRun`), and `updateWorkflowTriggerSubscriptionSchedule` with
the slot as it was listed. The unique trigger key of `workflow_runs` is the
function `run` from slots to rows. A cron expression is the set of minutes it
matches; heartbeats use interval, jitter and skew.


### ToolInvocation

A call is one dispatch of the worker: `dispatched`, `selectExecutorForTool`,
`getExecutionWorkspaceByOwner`, `createExecutionWorkspace`,
`tryLockExecutionWorkspace`, `invokeTool`, `waitForReply` with
`commitExecutionWorkspaceVersion`, `releaseExecutionWorkspaceLock`, `finish`. On
the executor the task downloads, unpacks into the cache directory of the version,
runs and uploads. What a directory or an object holds is the set of calls that
have worked on it, so lost work is a missing member. The row is read before it is
locked, and the object's key is the next version's, so a late call may overwrite
the object of a committed version: the mistakes that `raced` and `faults` account
for. A call whose brain died is "dead": nobody waits for it any more, and what it left
with the executor goes on.

### ExecutorConnection

`row`, `pairing` and `token` are the API's tables; a socket is open at its `agent`,
at its edge (`edgeSees`) or at both; `executorsById` is each edge's map, `route` the
keys in Redis. A hello (every 15 seconds) and a tool result are two steps: `hello`, after
which the handler waits for `touchExecutor` in the database, and `helloWrites`, which
writes the route whether or not the socket is still open. `greeting` counts the handlers
that wait, of each socket. When a socket closes, its edge removes the executor's entry
and route, whichever socket they were of. `HalfOpen` says whether an agent may dial again
before its edge has seen the old socket close; `overtook` has the sockets that were
opened through an edge which still saw an older one.

### The control plane

`Accounts`, `Organizations`, `Authoring`, `SharedRuns`, `SessionRoutes`,
`Toolsets`, `ToolsetBuilder` and `LlmSecrets` have one form. `req[slot]` is a
request that is being served, with the step it is `at` and what it has read so
far; an action is one store call with the decisions up to the next one. A guard
that the code evaluates on a row it read earlier is evaluated on the copy in `req`,
a `WHERE` clause or a unique key on the table. Where PostgreSQL refuses a statement
after an error in the same transaction, so does the model (`Authoring`). An enqueue that
throws may have added the job (`webhookQueueFails`), and the run is deleted only while it
is queued in its first attempt (`deleteQueuedWorkflowRun`), so a worker that was quicker
(`workerBegins`) keeps it.

`SessionClients` has the edges' side of sessions: a client joins by being added to
the edge's set, the edge to Redis, and then gets the stored tail; a brain stores an
event and sends it to the edges it finds in Redis.

### GraphRun and AgentLoop

`GraphRun` is the v3 branch of `processWorkflowRunJob`: readiness of a node from
the edges and the conditions' outcomes, parallel regions, block and resume,
retries that begin anew. `AgentLoop` is the loop of `packages/agent-runtime` with
the worker's wrapper: one envelope of the model per turn, a call that runs in the
loop or blocks the run, checkpoints of calls and results, trimming, limits,
`team.map` with several tasks at a time. What the model answers is open. A job of the
same attempt (after a crash, or with a remote result: "resumable") goes on from the
checkpoint; a failed node ends the attempt (`failed`, `dispatchFails`, `remoteFails`),
and the next one begins with nothing (`attemptBegins`, where `markWorkflowRunRunning`
clears the output).

### Channels

`ChannelRuntime` follows a provider's webhook call through deduplication (Redis
key, then the unique row), pairing and allowlists, the transaction that records
and routes, the command to the brain and the run of a workflow, and a session's
replies through their attempts. Whether there is a session to route to (`findsSession`)
rests on the account's bridge, its default session and the conversation's binding; without
one the message is accepted and the brain not told. Each edge has a stream and a command
loop of its own, and a reply goes to the edge its message came in by (`origin`). `ChannelAdapters` is what the adapters compute from a
body: field names and secrets are names, a body a function from them.

### The stores

`Memory*` has one operator per method of `MemoryAppStore`, on tables that are sets
of records (`Tables`). `Pg*` runs the same methods as transactions whose
statements (`Repositories`) interleave; `ImplementsMemoryStore` says that the step
that answers is a step of the in-memory store with that answer, and every other
step leaves the tables as they are to that store. `MCStores` conjoins the four as
`StoresAgree`, which makes one exception: `GivesKeyAgain`, a session created with a key
that is taken (section 5).

## 3. Runs

A run with `expect: pass` is exhaustive over its bounds. Every property has a
mutant: a definition `X_Something` in the same module that changes `X` the way a
slip in the code would, and that breaks the property under the same instance.

| Run (cfg, module) | Properties | Instance |
|---|---|---|
| `workflow_safety` (`WorkflowRun_safety`, `MCWorkflowRun`) | `TypeOK`, `ProgressIntact`, `SucceededComplete`, `PolicyRespected` | 3 nodes, 2 of them remote, the first gated; 1 approval request, 1 continuation slot, pushed results, 1 failed call, 1 crash, 2 attempts |
| `capacity_limits` (`Capacity_limits`, `MCCapacity`) | `ExecutorLimitKept`, `OrgQuotaKept`, `LeakedPlacesReturn` | 3 calls, 2 executors (limits 1 and 2), 2 organizations, one with quota 1 and two calls; 1 failed command, 1 dead brain |
| `session_brains` (`SessionTurn_brains`, `SessionTurn`) | `OneTurnAtATime`, `FinalIsGenuine`, `AnswersBounded`, `SessionUnlocks` | 2 brains, 1 executor, 2 messages, 1 repeated message or control, 1 brain that dies or outlasts its lock, 1 disconnection or restart, any two of the three, refusals |
| `slot_once` (`Trigger_once`, `TriggerScheduler`) | `OneRunPerSlot` | 2 schedulers, both types, 5 minutes, 2 failures, 1 crash |
| `live` (`Live`, `MCLive`) | `NotOrphaned`, `RunFinishes`, `LifecycleSpec` (a run of 2 local nodes, 3 attempts, 1 crash); `RemoteBlockResolves` (a remote node, then a denied one; 2 continuation slots, pushed and polled, no crash); `Answered` (1 brain, a BYON and a managed executor, both selectors, 2 messages, 1 reset or cancel, 1 disconnection); `DispatchAnswered` (2 invocations of 1 or 2 requests, 1 executor, 1 fault: answered unless the brain dies, and the workspace unlocked again and again) | 4 scenes |
| `kept` (`Kept`, `MCKept`) | `CronSlotRuns`, `HeartbeatSpacing` (1 scheduler, 9 minutes, 1 failure, 2 deaths); `TokenPairsOnce`, `RevokedStaysAway`, `ConnectedIsServed` (3 hosts, one of them managed, 2 edges, 2 pairing requests, 3 sockets, half-open ones included, 2 actions of administrators) | 2 scenes |
| `governance` (`Governance`, `MCGovernance`) | `SignInsHold`, `MembershipHolds`, `RevisionsHold`, `SharesHold`, `NobodyOversteps` | 4 scenes, 2 requests at once; 2 sessions, 2 invitations, 3 revisions and 2 webhook calls, or 2 guests with limits 2 and 1, 3 runs and a fault |
| `sessions` (`Sessions`, `MCSessions`) | `RoutesHold`, `ClientsFollow`, `GalleryHolds`, `BuilderHolds`, `SecretsHold` | 5 scenes, 2 requests at once; 2 clients on 2 edges, 2 organizations, 2 flows |
| `work` (`Work`, `MCWork`) | `WorkspaceHolds`, `GraphIsFollowed`, `LoopHolds`, `ChannelsHold`, `AdaptersHold`, `KnownCallsStay` | 5 scenes: 3 calls on 2 executors, one of them perhaps dispatched twice, or 2 calls and a fault; all graphs of 3 nodes with up to 3 edges and the forward graphs of 4 nodes that begin with a task or a condition; a loop of 3 turns in 2 attempts with 2 dying jobs; 3 webhook calls for 2 messages through 2 edges and 2 failures; 21 adapters with 4 calls |
| `stores_agree` (`Stores`, `MCStores`) | `StoresAgree` | one of 23 topics; 2 or 3 ids, 2 organizations, 2 open transactions |
| `wakeup_lost`, `managed_connects` (`Violation_*`) | `ResultResumes`, `ManagedConnects` | what is said of the code and is not so: section 5 |

A combined property conjoins named parts of its modules; the comment over it says
what they are:

* `SignInsHold`: `RevokedStaysOut`, `ExchangedStaysOut`, `CookieIsCurrent`,
  `OAuthStateOnce`, `AnsweredHasWorkspace`. `MembershipHolds`:
  `MembersWereInvited`, `AcceptedAreMembers`, `PatchesKeepSections`,
  `AnsweredIsAudited`. `RevisionsHold`: `RevisionsDiffer`,
  `SubscriptionsFollowDsl`, `WebhookRunsOnce`. `SharesHold`: `OneActiveShare`,
  `InvitationsServeOnce`, `SharesShowOwnRuns`, `OvershootIsBounded`.
  `NobodyOversteps`: the action properties `LastAdminGoes`, `OwnerIsMade`,
  `StaysPublished`, `TriedStay`.
* `RoutesHold`: `OneSessionPerKey`, `AcceptedReachesBrain`,
  `CommandsNameTheirEvent`, `KeyedMessagesAreOne`, `BindingsExist`.
  `ClientsFollow`: `NoGap`, `OneSessionAtATime`. `GalleryHolds`:
  `OneToolsetPerSlug`, `PublishedContentStays`, `AdoptedWasShown`. `BuilderHolds`:
  `KeysFitTheirProvider`, `ComponentsAreTheCatalogs`, `AnswersWereAsked`.
  `SecretsHold`: `OneSecretPerName`, `ConnectedWasStored`,
  `SecretsStayInTheirFlow`.
* `WorkspaceHolds`: `VersionsCounted`, `SequentialKeepsWork`,
  `SuccessIsCommitted`. `GraphIsFollowed`: `RunsWhatConditionsAllow`,
  `StepsAreOrdered`, `ResultGoesToItsNode`, `CyclesAreFound`. `LoopHolds`:
  `ResultsBelong`, `HistoryTellsTheCalls`, `RemoteIsExpected`, `MapIsOrdered`,
  `PolicyBoundsTheTeam`. `ChannelsHold`: `RoutedOnce`, `AcceptedToldBrain`,
  `LossIsReported`, `RepliesInOrder`, `OutboundTruthful`. `AdaptersHold`: `RepeatsAreDropped`,
  `OnlyRepeatsAreDropped`, `GroupsStayGroups`, `AnonymousIsRefused`.

**Why these bounds.** What can go wrong with a run takes two parties that act on
one block (the worker and a continuation, a poll and a push, an approval and the
retry that asks for another) and one attempt that follows another; three nodes are
what it takes for a cursor to be in the middle with a remote node on each side, and
two attempts for a stale result to exist. The safety run has one continuation slot
with both kinds of job queued at once; two slots are in `live`, and the theorems
cover any number. For the counters, a race needs two calls and a place that one of
them holds; a third call and a second organization make the counters of executor
and organization differ. For sessions, two brains and two messages are what a
dropped, repeated or overlapping turn takes. For triggers, the slots 2, 3 and 5
have neighbours and a gap, and after the last one the fallback of five minutes
applies. A race of check and write needs two requests and one row they both want;
the second organization, guest, edge, toolset or flow is there so that what belongs
to one can be told from what belongs to the other. A workspace needs a third call
to see that the second one did not lose the work of the first.

What bounds a scene apart from the constants is named in the MC module:
`SentOnce` (in `Answered` no message is sent again), `FewRuns` (two invitations
and a run, or one invitation and the runs of two requests; nothing lapses while
there is a run), `Few` (bindings and keys are raced on while sessions are made,
messages while there is one session), `Watched` (the second client only reads, and
keys expire or brains die while the first is alone), `TwoAfterFault` (with a fault,
one of the three calls stays posted), `SecondWhilePosting` (of an account's two
failures, the second comes while a reply is being posted, since a dead letter takes
two), `TwoRepliesOfTwoCalls` (a second reply is sent while one of the three webhook calls
has not begun), `FewUndone` (a worker overtakes only an enqueue that is reported failed,
and with such a run there are three edits, not five), `OneConnects` (one host connects,
once the pairing requests are over and while no other host is paired or issued), `WorkflowBounds`, `ExecBounds` and
`SessionBounds` (rows and open transactions of a topic of the stores). Constants
named `Max...` and `AttemptCap` bound what the environment does (`MaxTogether`: of a
session's repeated messages, deaths or overrun locks, and disconnections, how many in
all; `MaxGreets`: an edge's handlers of one socket that wait at a time); no theorem depends
on their values, save `LocalRunsGoOn` on `MaxCrashes` (section 4). Symmetry is
used for interchangeable requests, ids and executors only, in runs without
liveness. The view of `stores_agree` leaves out the last answer, on which no step
depends.

`CHECK_DEADLOCK FALSE` is set where the system may really stop: a run that has
ended, a session without further messages, no more requests within the bounds. In
`Capacity` calls begin again for ever, and deadlock is checked.

**Fairness, and why the code justifies it.**

* `WorkflowRun`: weak fairness of the API handler, of the worker (an event loop
  goes on, BullMQ hands a waiting job to a free worker) and of each continuation
  slot; the gateway answers what it was sent. Strong fairness of `ContDecide`
  only: a poll job that finds no result comes back (`ContNotReady`), and the
  deadline of the block passes in the end, after which it decides. Nothing is
  assumed of approvals, evictions and failures.
* `Capacity`: a key with a time to live expires if nothing renews it. Fairness is
  therefore stated for *full* counters only, because every successful reservation
  renews the time to live; a counter below its limit may be renewed for ever.
* `SessionTurn`, `ToolInvocation`: a brain goes on, since every wait in its
  handlers has a timeout, and its lock expires. A task that an executor has begun
  ends or is lost. Nothing is assumed of edges, clients or the connection.
* `TriggerScheduler`: a scheduler polls and goes on with what it has begun,
  workers take jobs, time passes. Failures and deaths need not happen.
* `ExecutorConnection`: an agent redials (its reconnect timer) and says hello again,
  the edge's handlers get through their database call, the edge notices a closed socket, and a route that nobody renews expires (its time
  to live in Redis). Nothing is assumed of administrators or of connections that break.

**Where a property holds only under a restriction**, the restriction is one of the
code's own:

* `RemoteBlockResolves` has no crash: if the worker dies between marking the run
  blocked and enqueueing the poll, the repeated job returns at the blocked row and,
  without push, nothing is left to end the block
  (`apps/worker/src/main.ts:885-900`).
* `RunFinishes` and `NotOrphaned` hold for local nodes and one crash: BullMQ fails
  a job that stalls twice, and the run stays as the second crash left it. Section 5
  has what happens with remote nodes and with approvals. `LifecycleSpec` is stated
  for local nodes; with two continuation slots `TerminalIsFinal` fails, and with it
  the refinement.
* `Answered` needs a single brain that does not die: pending records are never
  claimed, and a second brain drops what it reads under another's lock.
* The capacity limits need calls that end within the `GATEWAY_RESERVE_TTL_MS` of the
  counters. `OneTurnAtATime` has no such condition: brains do overlap once a lock ran out
  under its holder, whose waits are longer than 30 seconds (`brain/runtime.ts:947, 1249`),
  and the property says that nothing else brings it about.
* `CronSlotRuns` and `HeartbeatSpacing` need a single scheduler: with two, one may
  advance the schedule while the other undoes the slot's run, and each draws a
  jitter of its own.
* `ConnectedIsServed` speaks of connections that were not opened through an edge which
  still saw an older one (`overtook`): the late close of that one removes the entry of
  the newer one, and only the route comes back with the next hello. A reconnect through
  the other edge is covered.
* `RevokedStaysAway` keeps connections away for good; the route may come back once for
  each handler that waited for the database when the last socket closed, and expires.
* `DispatchAnswered` does without an answer only where the brain of the call died, since
  nobody else knows of it.
* `KnownCallsStay` and `LoopHolds` speak of one attempt: the next one runs its calls
  again.
* `SequentialKeepsWork` speaks of calls that follow one another without a fault;
  two at once may overwrite each other's object (section 2, ToolInvocation), and one
  failed download is enough to lose work (`FaultsKeepWork`, section 5).
* `RepliesInOrder` is of one edge: replies through two edges are delivered by two loops.

## 4. Theorems

All hold for every value of the constants that satisfies the named assumptions,
which give the constants their types and say that the sets that are counted are
finite. Where the code's promise has a condition, the condition is an `ASSUME` of
the theorem.

| Module | Theorem | Statement | Needs |
|---|---|---|---|
| `WorkflowRunProofs` | `TypeCorrect`, `ProgressIsIntact`, `SuccessIsComplete`, `PolicyIsRespected` | `TypeOK`, `ProgressIntact`, `SucceededComplete`, `PolicyRespected` | |
| | `LocalRunsGoOn` | `NotOrphaned` | `Local`, `MaxCrashes <= 1` |
| | `LocalRunsFollowLifecycle` | `Spec => LifecycleSpec` (refinement of `RunLifecycle`) | `Local` |
| `CapacityProofs` | `CapacityTypeCorrect` | `TypeOK` | |
| | `ExecutorLimit`, `OrgQuota` | `ExecutorLimitKept`, `OrgQuotaKept` | `~LongCalls` |
| `SessionTurnProofs` | `SessionTypeCorrect`, `FinalGenuine`, `AnswersAreBounded`, `TurnExclusion` | `TypeOK`, `FinalIsGenuine`, `AnswersBounded`, `OneTurnAtATime` | |
| `TriggerSchedulerProofs` | `SlotRunsOnce` | `OneRunPerSlot` | |
| | `HeartbeatsKeepDistance` | `HeartbeatSpacing` | one scheduler |
| `KeptProofs` | `TypeCorrect`, `OneExecutorPerToken` | `TypeOK`, `TokenPairsOnce` | |
| | `RevokedAreAway` | the action property `RevokedStaysAway`, half-open sockets included | |
| | `HeartbeatsStayApart` | `HeartbeatSpacing` as the run `kept` checks it | `SlotsAssumption` |
| `GovernanceProofs` | `SharesAreKept`, with its part `OvershootBounded` | `SharesHold` | |
| | `BegunRunsAreKept` | the action property `BegunRunsStay` | |
| | `SignInsAreKept` | `SignInsHold` | `PeopleAssumption` |
| | `MembershipIsKept` | `MembershipHolds` | |
| | `RevisionsAreKept` | `RevisionsHold` | `WorkflowsAssumption` |
| | `NobodyOverstepsEver` | the action property `NobodyOversteps`, all four parts | |
| `SessionsProofs` | `SecretsAreKept`, with its parts `NamesAreUnique`, `ToldWhenStored`, `FlowsKeepTheirOrganization` | `SecretsHold` | |
| | `RoutesAreKept` | `RoutesHold` | `MessagesAssumption`, `SessionsAssumption` |
| | `ClientsAreFollowed` | `ClientsFollow` | `ClientsAssumption`, `RecordsAssumption` |
| | `GalleryIsKept` | `GalleryHolds` | `GalleryAssumption` |
| | `BuilderIsKept` | `BuilderHolds` | `BuilderAssumption` |
| `WorkProofs` | `TypesHold` | `TypeOK`, `ExecInv`, `CountInv` | |
| | `WorkspaceIsKept`, `WorkspaceIsKeptAtWork` | `WorkspaceHolds`, of the component alone and in the run `work` | |
| | `GraphIsKept` | `GraphIsFollowed` | `GraphsAssumption` |
| | `LoopIsKept` | `LoopHolds` | `LoopAssumption` |
| | `CallsRunOnce` | the action property `KnownCallsStay` | `LoopAssumption` |
| | `ChannelsAreKept` | `ChannelsHold` | `ChannelAssumption` |

The named assumptions stand in the MC modules, over the constants: what nobody is
(`None`) is not a person, a session, a chat or a text; tables that are counted are
finite; nodes are numbered; a client uses a key for one message and a message has
one key; organizations may see what is shared with them and only public toolsets
are in the gallery; a client is connected to an edge; a webhook call reaches an edge, and a reply is posted
at least once.
TLC evaluates each of them on the values of its run.

`Local` is `Remote = {}`, a policy that allows every node, and no failed database
or queue command (`MaxErrors = 0`).

**WorkflowRun.** `ProgressIntact` is not inductive: the row is overwritten from
the worker's memory, from what a continuation read earlier, and from nothing at
all. `IInv` adds what each of these holds. `AttemptInv`: the worker's attempt is
the row's while it is inside the attempt, and is about to become it at "start".
`LocalInv`: what the worker has in memory is the output of the nodes below its own
cursor, its pending result belongs to the node it is at, and while it works the
row is not blocked (which is why no continuation can move the row under it, except
in the short time after the block). `RowInv`: a block on a request names the node
at the cursor and the current attempt; a succeeded run has no block and no worker
in it. `ContInv`: what a continuation read is the output up to the node its
request names, in the attempt the request names; so it may be written back,
however old, exactly when the row is still blocked on that request, which is what
`clearWorkflowRunBlock` tests. For the policy, `GateInv` says that every node that
was dispatched or is in *any* list of steps, stored or in memory, was cleared;
`GrantedStays` says that a granted approval is not taken back, although requests
lapse.

**Local runs.** `Quiet` says that nothing remote has happened: no block, no
request, no approval, continuations idle. `StatusInv` ties the status to the
worker's control point (a worker in an attempt has a running run; a queued one
still has an attempt left), and `JobInv` the run to its job: who is between
"start" and the end holds the active job, the job was never tried more often than the
run, and it stalled at most once per crash.
With a second crash BullMQ fails the job, so `NotOrphaned` is false then, and the
theorem says `MaxCrashes <= 1`; the refinement of the lifecycle needs no such
bound. Every action that changes status or attempts is one step of `RunLifecycle`
(create, start, succeed, retry, fail, or a start again after a crash), and every
other action a stutter.

**Capacity.** `CapacityInv` says that a counter is never below the number of calls
that hold a place, and never above its limit: lost `DECR`s and dead brains only
make a counter too high. The steps count sets (`FiniteSetTheorems`): a
reservation adds one call to `OnExecutor(e)` and one to the counter, a release
takes one off both. The invariant is false with `LongCalls`, see section 5.

**SessionTurn.** `LockInv`: a brain inside the handler holds the lock, or is one that
lost it at work (`overran`). The converse is false (a brain that died leaves its lock).
`DeleteKeepsLock` is the step that matters: a brain whose lock is its own frees it, and
one that has lost its own takes the lock of its present holder, who is overrun then. `ReplyInv`: a reply key holds a
success only for a message that an executor completed; together with the fact that
a brain answers from the key of its own record this gives `FinalIsGenuine`.
`TypeOK` needs `BatchInv`: a brain in a handler has a record to work off.
`AnswersBounded` is an inequality over the whole system: `Outstanding` counts the
places where a record of a message still is (on the stream, in a brain's batch,
under its handler and not yet answered), and `AnswerInv` says that outstanding
plus answers never exceed what was posted. Since records move and are never
copied, each step takes a place away, gives one answer for one place, or posts;
the lemmas count by injections between sets of positions. `HeadInv` says which
record a handler is at: the head of its batch.

**TriggerScheduler.** `SlotInv` joins the three places a run is known in. Ids are
given out once (`IdInv`); a slot whose row is not started has never been run
(`StartInv`); a job that waits belongs to a row not yet started (`JobInv`); a
scheduler about to add a job is the only one with that id and the first to add it
(`AddInv`). A row is deleted only if it is still queued, and then its slot has
not been run: this is where the guard of `deleteQueuedWorkflowRun` is needed. For
the distance of heartbeats `SpacingInv` adds that, inside a tick, the slot that
was listed is still the row's (false with a second scheduler), and that every
run's slot is the next one or lies at least an interval before it.

**Shared runs.** `SharesInv`: invitations and shares are numbered once, an
invitation that made a share is marked accepted, so a second acceptance finds it
so whatever its request read before. The limits are checked and the run inserted in different
statements, so a limit can be passed, and the theorem says by how much: `CountInv`
has `RunsAccounted` (a run is counted, lost to the counter by a fault, or still in
a request), `MonthFits` and `InFlightFits` (what is counted plus the requests past
their check fits below the limit plus the slots). A request that has passed its
check is one of `Creating` or `Busy`, sets that the steps enlarge and shrink by
one member.

**Sign-ins.** `AccountsInv` follows a session from the row to the browser.
`StaleStays`: what was revoked or exchanged when a request began stays so, since no
step takes a revocation back and tokens only grow (`ExchangedAreOld`); hence who was
signed out is let in by nothing. `StatesServeOnce`: until a state has signed somebody
in, one callback at most carries it. `CookieIsCurrent` is the hard part: a browser's
cookie is the session's current token unless its own refresh is on its way
(`JarIsCurrent`, `SetIsCurrent`), which needs that a session is presented by one
browser (`OneBrowser`, `UnmadeIsUnknown`, `MadeIsAlone`) and that an undisturbed
browser has one refresh at a time (`OneRefresh`).

**Organizations and workflows.** A patch reads a document, merges a section and writes
the whole: `PatchesAlone` says that of a document on which no two patches met, one
request at most has a patch under way, what it read is what there is, and its number
is the largest; this is where a lost update would break the proof. For revisions,
`RevisionsNumbered` says that the rows of a family have the numbers from 1 without a
gap, so the insert of a number that was read as the largest either is the next one or
meets the unique key. `IdsServeOne` ties a subscription's id to one workflow for ever,
through rows, deliveries and runs, and with it a webhook's delivery starts one run.
The parts of `NobodyOversteps` follow from single actions, except that a run that a
worker has begun stays, which needs the invariant of shared runs.

**LlmSecrets.** `IInv`: the rows are typed (`RowsTyped`); a request serves a flow and
stores for the organization of that flow, and when it is done its value was written,
or the row it had found was gone when it was to be rotated (`SlotsServe`); the unique
key keeps `OneSecretPerName`; the page that tells the user comes after the last
statement, hence `ConnectedWasStored`.

**Sessions.** `RoutesInv` (session routes): a key is on one event of a session at most
(`KeysOnce`), and every request past its insert, every command in the stream and every
202 names the event that holds its message (`Holds`); events are only appended, so
what a name stands for never changes. `ClientsInv` (clients): every event since the
oldest a client got is among those it was sent, on its edge's bus, still to be sent
there by a brain, being shown by the edge itself, or was lost with a brain
(`Covered`); a join adds the client to the edge's set before it reads the tail, which
is what makes the cover whole (`JoinsInOrder`, `JoinedAreMembers`), and Redis has
the edge once the join has noted it (`EdgesAreNoted`). `GalleryInv`: a public row's
content is among what was shown, and so is what a request copies. `BuilderInv`: answers
plus requests that still owe one are never more than the questions (`AnswersAreOwed`),
an inequality over counted sets, and a request uses keys of its own provider and
components of the catalog from the step that checked them.

**Kept.** Of the executors, the type invariant is in three parts (`ApiTyped`,
`SocketsTyped`, `RoutesTyped`: every entry of `executorsById` is a socket there
was). `TokenPairsOnce` needs that one request at most is between consuming the
token and the end (`OneHolder`), that the token is used from then on
(`UsedByHolder`), and that a host is paired only by a request that got there
(`PairedByHolder`). `RevokedStaysAway` is an action property: whichever step
is taken, an executor that is away stays away, since a handshake looks at
`revokedAt`; no handler begins, since only an open socket brings a message; and the
route comes back only by a `helloWrites` of a handler that was waiting, one fewer
then. The scheduler of the run `kept` is
shown to take the steps of `TriggerScheduler` with one scheduler (`SameSteps`), about
which `HeartbeatsKeepDistance` is cited.

**ToolInvocation.** `CountInv`: the version of the row is the number of commits,
and a call that may still commit is not among them; hence there is always a next
version for it, which bounds all directories and objects. `BackedInv` follows a
success to the places it may be read from (the reply key, the result store, the
response in the brain's memory): wherever it is without a workspace to commit, it
was put after a commit of a task that ended. `SequentialInv` is the invariant of
calls that follow one another: while nothing has raced or failed (`Calm`) either
every call is idle, or exactly one is busy. In both cases `Kept` says that the
object of the row's version and every complete copy of that version in a cache
hold all committed work, and that nothing exists of later versions but what the
busy call packed itself. It is preserved although the row is read before it is
locked, because no second call is there; the proof breaks, as it must, with a
second one.

**GraphRun.** The theorem is about every finite graph, with cycles or without, any
outcomes of its conditions, any attempts, crashes and remote nodes. `Follows(g, steps)`
says that the kept steps are distinct nodes, each after all that its edges ask for and
with its conditions met; `StepsFollow` says it of the row and of the worker's copy.
`BlockedIsFirst`: a node that blocked, or whose result is pending, is the first that
is ready, so a result goes to the node it was sent for although nothing compares
them. A run that ends with nothing ready has executed the one set that the conditions
allow (`AllowedIsOne`), which is an induction along the order that the check found
(`Ranked`). That the check's peeling finds a cycle exactly where some node is behind
itself (`CyclesAreFound`) takes four inductions: peeling and reaching are recursive
functions whose rounds only add nodes, and add none after as many rounds as there are
nodes (`Saturates`); what was peeled has a rank; what was not has a way back to itself.
These inductions are done in first-order form, over a set of numbers that has a least
element (`LeastNumber`, `Induction`), since the library's theorems take an operator.

**AgentLoop.** `Told(state)` says that the history of a state tells its calls: every
entry names a call up to the count, in order, a result right after its call, with the
tool of its call, and no two entries of a call of one kind; trimming keeps a suffix, and
so keeps `Told`. `LoopInv` has it of the stored state and of the job's, and that the
job knows what the store knows and more (`JobTold`); that a call about to run is the
next one and in no checkpoint of the attempt (`CallsAsked`), which is `KnownCallsStay`; that a stored
remote result answers the call the stored state waits for (`RemoteAsked`); and that the
outputs of a `team.map` are at the places of their tasks (`TeamAtWork`).

**Channels.** Inbound, `RowDecides` orders the effects of a message: the event is there
only if the row is accepted, the brain was told at most as often as there are events, a
workflow ran at most as often as there is an accepted row. `StageHolds` says what the
request that routes it has done and has left, `OneRoutes` that only one request does: the
one whose insert met no row. Once a key or a row is there the loss is `Reported`: some
call is at work on the message or has failed. The Redis key plays no part in what is
routed, and may be lost. Outbound, each edge is a line of its own (`LineHolds`): every
reply belongs to the edge its message came in by, everything that was posted, tried,
recorded or is in hand there comes before everything that waits (`TakenComeFirst`), and
what waits is in order (`WaitInOrder`); so repetitions are of the reply in hand, and the
edge's death, which loses the batch and the reply in hand, loses no order.

**Only model-checked.**

* Liveness: `RunFinishes`, `RemoteBlockResolves`, `LeakedPlacesReturn`,
  `SessionUnlocks`, `Answered`, `DispatchAnswered`, `CronSlotRuns`,
  `ConnectedIsServed`. The prover has no rule for fairness and `ENABLED`.
* `AdaptersHold`: what the adapters make of a body rests on the first field that is
  there (`pickString`, a `SelectSeq` over a list of names) and on which fields a
  provider sends. The one is a recursive definition with an operator parameter, which
  the provers cannot instantiate; the other is data, given by the run.
* `StoresAgree`: the refinement of the in-memory store. Each of the methods
  would be a proof of its own; TLC compares every history of a few calls.

## 5. Disagreements between the code and what is said of it

Two are regular runs (`findings` in `PROJECT.json`):

* `wakeup_lost` (`ResultResumes`). A result that arrives while the job that
  dispatched the node is still active: the active job cannot be removed, the add
  with its id is ignored (`apps/worker/src/queue/run-queue.ts:16`), and the run
  stays running with a stored result and no job.
* `managed_connects` (`ManagedConnects`). `createManagedExecutor` is called without
  the id whose UUID begins the returned token (`apps/api/src/server.ts:2493`); the
  row draws another id, and the edge, which takes the id from the token, refuses
  the connection.

The others are definitions in their modules that no run checks. To see one violated,
put its name in place of the properties in the `.cfg` of the module's run (in an MC
module with scenes, under its instance, e.g. `Org!OwnerRemains`).

| Module | Definition | What the code does |
|---|---|---|
| `WorkflowRun` | `TerminalIsFinal` | `applyRemoteFailure` (`continuations/worker.ts:400`) updates a run without looking at its status: a poll that timed out before the pushed result was applied puts a succeeded run back to queued. `docs/architecture.md:27` gives the lifecycle. |
| | `NotOrphaned` with an approval | The approve handler adds the run's job without removing the completed one that retention keeps (`apps/api/src/server.ts:6994`); the add is ignored. |
| | `RetryIsTried` | A resumed run's job has one attempt (`run-queue.ts:25`), the worker counts the run's own: a failure after a resume is queued for a retry that no job performs. |
| `SessionTurn` | `Answered` with two brains | A brain that reads a message while another holds the session's lock returns without a word (`runtime.ts:887`). |
| | `OneTurnPerExecutor` | `openSession` replaces the context of a running turn (`node-agent/src/runtime.ts:845`) and with it the guard of line 868. |
| | `MaxTurnsKept` | Every message reopens the session with an empty history, so the count of line 872 is always 0. |
| | `RefusedOnlyIfAllOffline` | A session is served by the one pool it asks for (`brain/runtime.ts:328`); `docs/runbooks/node-agent-gateway-mvp.md:109` promises failover. |
| `Capacity` | `OrgQuotaKept` with `LongCalls` | The counters expire five minutes after the last reservation, timeouts of ten minutes are accepted (`packages/workflow/src/index.ts:63`). |
| `TriggerScheduler` | `OnlyCronSlotsRun` | An expression that does not parse is given a slot five minutes ahead (`scheduler/src/main.ts:322`), and slots are run. |
| `Accounts` | `OneWorkspace` | Two first requests of a user each create a personal workspace. |
| `Organizations` | `OwnerRemains`, `MayBeInvited`, `TicketHistoryAgrees` | The last owner may be demoted; an invitation that ran out stays pending and blocks the next; two patches of a ticket may record their events in the other order. |
| `Authoring` | `OneRevisionFires`, `DuplicateHasRun`, `DraftsRetryCollisions`, `RetriedLeaveNone` | Publishing a revision leaves the subscriptions of other revisions; a duplicate is answered for a run that is then undone; the retry after a collision runs in an aborted transaction (comment at `repositories.ts:731`); a delivery that was told to try again has a run if a worker had begun it (`repositories.ts:1812`). |
| `SharedRuns` | `LimitsAreKept`, `RefusedDoNotRun`, `LapsedMayBeInvited` | Check and insertion are two statements; a run answered with 503 may have begun; a lapsed invitation blocks the next. |
| `ExecutorConnection` | `RevokedUnrouted`, `RoutedByRow`, `AwayIsUnrouted`, `OvertakingIsServed` | A revoked executor keeps its socket and route (`workflow-node-agent.integration.test.ts:1331`); the route has the labels the agent reports; a hello that waits for the database writes the route of a closed socket again (`edge/server.ts:1087-1088`); the late close of an old socket removes the entry of the new one (`edge/server.ts:1315-1327`). |
| `SessionRoutes` | `ArchivedIsReadOnly` | The gateway's socket takes messages for archived sessions (`edge/server.ts:887-960`); the API does not (`server.test.ts:3407`). |
| `SessionClients` | `PinIsCurrent`, `ClosedAreGone`, `EverybodySees` | A pin that changes during a join is not told; a socket that closes while joining stays in the set; what came over another edge or the API is stored and not broadcast. |
| `Toolsets` | `SlugOnlyWhenPublished` | Unpublishing keeps the slug (`docs/contracts/toolsets.md:13`). |
| `ToolsetBuilder` | `DraftIsOfTheSelection`, `NewestIsShown` | A chat that ends after finalizing changes the selection; the model is shown the first turns, not the last. |
| `LlmSecrets` | `ConnectedIsStored`, `StoredByAdmins` | Success is told though the row to rotate was deleted (`server.ts:3673`, `3873`); who is no longer an admin when the flow ends still stores. |
| `GraphRun` | `RemoteIsNotParallel` | The check looks at regions that a node with two `always` edges opens (`packages/workflow/src/index.ts:451`); a remote node in a region whose branches begin otherwise is let in. |
| `AgentLoop` | `NothingRunsOn` | Tasks of a `team.map` that was given up go on after the run has ended. |
| `ChannelRuntime` | `RepliesKeepOrder`, `DuplicatesAreRouted`, `ApprovedMayWrite` | Replies of one session that go out through two edges overtake each other while one is tried again (`brain/runtime.ts:1359`, `manager.ts:787`); a message whose first call failed is answered as a duplicate and never routed (`manager.ts:374-384`); approving a pairing request adds no entry of the kind the direct-message policy asks for (`server.ts:5238`; `docs/runbooks/channel-runtime.md:180`). |
| `PgSessions` | `ImplementsMemoryStore` | For a session key that is taken the database answers the session that has it (`repositories.ts:2914-2929`), the in-memory store makes another one (`memory-store.ts:2483-2519`); `StoresAgree` excepts this call. |
| `ToolInvocation` | `FaultsKeepWork` | A download that fails leaves the version's directory behind, empty, and the next task on that executor takes it for the version (`snapshot-cache.ts:105`); and what a task of a dead brain packed is kept by its executor under a version that another call then commits. |
| `ChannelAdapters` | `AdapterDecides`, `ConversationsSeparate` | The manager asks for the secret again, in a header no provider sends (`manager.ts:303-343`); private messages of whatsapp, irc and nostr share the bot's address as conversation. |

Two properties hold and are in no run either: `DeadRoutesVanish`
(`ExecutorConnection`) under the fairness stated, where `ConnectedIsServed` asks the
harder question, and `PolicyRespected` in the remote scene of `MCLive`.

## 6. What is not modelled

* WorkflowRun: the several dispatches of one `agent.run` node; a stalled worker that
  goes on beside its successor; a workflow unpublished or deleted while it runs;
  policy changes during a run; `REMOTE_RESULT_APPLY_FAILED`, `remote.event` jobs and
  the limit of 500 poll attempts; the gateway repeating a dispatch. Remove and add of
  `enqueue` are one step. v3 graphs are in `GraphRun`, without jobs and approvals.
* Capacity: changes of quota or `maxInFlight` while calls run, and the cache of the
  quota; a command the client library sends twice after a reconnection.
* SessionTurn: a session that is not found; turn events; labels and groups of the
  selector. `session_cancel` is a step without effect: the brain handles it after
  the turn it should cancel, when no active turn is left.
* TriggerScheduler: enabling, disabling and editing a subscription (`Authoring`), the
  parser of cron expressions, manual triggers.
* ToolInvocation: a payload refused after its extraction, `agent.execute` without a
  task, the tool calls of an `agent.run` task inside the executor
  (`node-agent/src/runtime.ts:1170-1232`), directories left half extracted (the one that
a failed download leaves empty is there).
* Channels: deleting an account, its start and stop status, test-send, the text of
  messages; signal's numeric timestamps and telegram's callback queries are not
  among the adapters' bodies.
* GraphRun: the fields of a node that only its executor reads; the executor's and
  the validator's different readings of a missing execution mode.
* AgentLoop: it runs in the worker's wrapper and in team tools; a live `agent.run`
  node always blocks to the gateway. Credits that parallel delegates check and
  charge; turns since the last checkpoint are forgotten, as in the code.
* SessionClients: two joins of one socket under way at once
  (`edge/server.ts:871-885`).
* SessionRoutes: memory synchronization, whose jobs are queued and consumed by
  nobody. The matching of bindings is the server's, not the copy in
  `packages/agent-runtime`.
* Stores: paging, the contents of workflows, row-level security. The two stores
  differ in ways the refinement leaves out, each named where its module says
  so: what a lookup of an unknown session answers, first or last turns of a builder
  session, rows of a deleted parent that stay in memory, blank strings, limits of
  lists and chunks, duplicate allowlist entries, revoking twice, the binding of a
  deleted account. The API's tests run on the in-memory store, production on the
  other (`apps/api/src/store/index.ts:9`).
* Whole components: those with status `not_modelled` in `PROJECT.json`.
  Authentication of tokens, signing and encryption, provider payloads, HTTP clients
  and user interfaces keep no protocol state a model checker could explore.

## 7. Plan

Done: all modules of section 2 with their runs; every safety invariant of the runs
as a theorem, save `AdaptersHold`; the action properties, save `StoresAgree`; the
lifecycle refinement for local runs.

What would come next:

1. `StoresAgree`, one family of tables at a time: that the step of a transaction that
   answers is a step of the in-memory store, under an invariant about what the open
   transactions have read.
2. `LifecycleSpec` for remote runs with one continuation slot.
3. `TypeOK` of `TriggerScheduler`, of which the invariant has the parts it uses.
