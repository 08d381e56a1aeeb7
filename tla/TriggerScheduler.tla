-------------------------- MODULE TriggerScheduler --------------------------
(***************************************************************************)
(* The trigger scheduler (apps/scheduler/src/main.ts) for ONE enabled      *)
(* subscription of a published workflow: scheduler processes poll the      *)
(* subscription's next_fire_at, create the run of the slot that is due,    *)
(* put its job on the workflow queue and write the next slot.  Each of     *)
(* these is a transaction or a queue command of its own.                   *)
(***************************************************************************)
EXTENDS Integers, FiniteSets, FiniteSetsExt

CONSTANTS
    Schedulers,
    Types,          \* the values of triggerType: "cron", "heartbeat"
    CronTimes,      \* the minutes that the cron expression matches
    Interval,       \* heartbeatIntervalSec
    Jitter,         \* heartbeatJitterSec
    MaxSkew,        \* heartbeatMaxSkewSec
    MaxTime,        \* bound: the clock
    MaxErrors,      \* bound: database or queue commands that fail
    MaxCrashes      \* bound: scheduler processes that die

Times == 1..MaxTime

ASSUME TriggerAssumption ==
    /\ Types \subseteq {"cron", "heartbeat"} /\ CronTimes \subseteq Nat \ {0}
    /\ Interval \in Nat \ {0} /\ Jitter \in Nat /\ MaxSkew \in Nat
    /\ MaxTime \in Nat \ {0} /\ MaxErrors \in Nat /\ MaxCrashes \in Nat

VARIABLES
    now,
    type, nextFireAt, \* of the subscription's row; 0 for null
    run,            \* the row of each slot's run, found by its trigger key
    jobs,           \* the ids of the runs that have a job on the queue
    lastId,         \* the last run id given out
    started,        \* how many runs of each slot a worker has started
    \* The schedulers: control point, the time of the tick, the slot of the
    \* row as it was listed, and the id of the run created.
    pc, tickAt, slot, runId,
    errors, crashes \* what the bounds count

rowVars   == <<type, nextFireAt, run, lastId>>
queueVars == <<jobs, started>>
procVars  == <<pc, tickAt, slot, runId>>
faultVars == <<errors, crashes>>
vars == <<now, rowVars, queueVars, procVars, faultVars>>

NoRun == [id |-> 0, status |-> "none"]

Init ==
    /\ now = 1 /\ type \in Types /\ nextFireAt = 0 /\ lastId = 0
    /\ run = [t \in Times |-> NoRun] /\ started = [t \in Times |-> 0]
    /\ jobs = {}
    /\ pc = [p \in Schedulers |-> "idle"] /\ tickAt = [p \in Schedulers |-> 0]
    /\ slot = [p \in Schedulers |-> 0] /\ runId = [p \in Schedulers |-> 0]
    /\ errors = 0 /\ crashes = 0

GoTo(p, to) == pc' = [pc EXCEPT ![p] = to]

\* The local variables of a tick are gone.
EndTick(p) ==
    /\ GoTo(p, "idle") /\ tickAt' = [tickAt EXCEPT ![p] = 0]
    /\ slot' = [slot EXCEPT ![p] = 0] /\ runId' = [runId EXCEPT ![p] = 0]

-----------------------------------------------------------------------------
(* The next slot.                                                          *)

\* The first match after t; without one within two years, 5 minutes from the
\* tick.
nextCronFireAt(t, at) ==
    LET later == {m \in CronTimes : m > t}
    IN  IF later = {} THEN at + 5 ELSE Min(later)

\* Mutant: the jitter is taken off the interval.
computeHeartbeatNextFireAt_Early(base) ==
    {base + Interval - j : j \in 0..Jitter}

computeHeartbeatNextFireAt(base) == {base + Interval + j : j \in 0..Jitter}

\* The slots that may follow s in a tick at time at.  A heartbeat that is too
\* late is counted from the tick.
NextSlots(s, at) ==
    IF type = "cron" THEN {nextCronFireAt(s, at)}
    ELSE computeHeartbeatNextFireAt(IF at - s > MaxSkew THEN at ELSE s)

\* The slots that a subscription may start with.
FirstSlots(at) ==
    IF type = "cron" THEN {nextCronFireAt(at, at)} ELSE computeHeartbeatNextFireAt(at)

-----------------------------------------------------------------------------
(* processDueSubscription.                                                 *)

\* The tick lists the subscription because it is due or has no slot yet.
listDueWorkflowTriggerSubscriptions(p) ==
    /\ pc[p] = "idle" /\ nextFireAt <= now
    /\ tickAt' = [tickAt EXCEPT ![p] = now] /\ slot' = [slot EXCEPT ![p] = nextFireAt]
    /\ GoTo(p, IF nextFireAt = 0 THEN "first" ELSE "create")
    /\ UNCHANGED <<now, rowVars, queueVars, runId, faultVars>>

ScheduleFirst(p) ==
    /\ pc[p] = "first" /\ EndTick(p)
    /\ nextFireAt' \in FirstSlots(tickAt[p])
    /\ UNCHANGED <<now, type, run, lastId, queueVars, faultVars>>

\* The run of the slot is inserted, unless its trigger key is taken.
createWorkflowRun(p) ==
    /\ pc[p] = "create"
    /\ IF run[slot[p]] = NoRun
       THEN /\ GoTo(p, "add") /\ lastId' = lastId + 1
            /\ runId' = [runId EXCEPT ![p] = lastId + 1]
            /\ run' = [run EXCEPT ![slot[p]] = [id |-> lastId + 1, status |-> "queued"]]
       ELSE GoTo(p, "advance") /\ UNCHANGED <<lastId, runId, run>>
    /\ UNCHANGED <<now, type, nextFireAt, queueVars, tickAt, slot, faultVars>>

queueAdd(p) ==
    /\ pc[p] = "add" /\ GoTo(p, "advance")
    /\ jobs' = jobs \union {runId[p]}
    /\ UNCHANGED <<now, rowVars, started, tickAt, slot, runId, faultVars>>

\* Mutant: the failure is logged and the slot passed over.
queueAddFails_Ignored(p) ==
    /\ pc[p] = "add" /\ GoTo(p, "advance")
    /\ errors < MaxErrors /\ errors' = errors + 1
    /\ UNCHANGED <<now, rowVars, queueVars, tickAt, slot, runId, crashes>>

\* The add throws; the job may be there all the same.
queueAddFails(p) ==
    /\ pc[p] = "add" /\ GoTo(p, "delete")
    /\ errors < MaxErrors /\ errors' = errors + 1
    /\ jobs' = jobs \union {runId[p]} \/ UNCHANGED jobs
    /\ UNCHANGED <<now, rowVars, started, tickAt, slot, runId, crashes>>

\* Mutant: the row is deleted whatever its status.
deleteQueuedWorkflowRun_Any(p) ==
    /\ pc[p] = "delete" /\ EndTick(p)
    /\ run' = IF run[slot[p]].id = runId[p]
              THEN [run EXCEPT ![slot[p]] = NoRun] ELSE run
    /\ UNCHANGED <<now, type, nextFireAt, lastId, queueVars, faultVars>>

\* The row is deleted if no worker has started it; the slot stays due.
deleteQueuedWorkflowRun(p) ==
    /\ pc[p] = "delete" /\ EndTick(p)
    /\ run' = IF run[slot[p]] = [id |-> runId[p], status |-> "queued"]
              THEN [run EXCEPT ![slot[p]] = NoRun] ELSE run
    /\ UNCHANGED <<now, type, nextFireAt, lastId, queueVars, faultVars>>

\* Written without looking at what the row holds by now.
updateWorkflowTriggerSubscriptionSchedule(p) ==
    /\ pc[p] = "advance" /\ EndTick(p)
    /\ nextFireAt' \in NextSlots(slot[p], tickAt[p])
    /\ UNCHANGED <<now, type, run, lastId, queueVars, faultVars>>

\* A transaction fails: the tick logs it and goes on to other subscriptions.
TransactionFails(p) ==
    /\ pc[p] \in {"first", "create", "delete", "advance"} /\ EndTick(p)
    /\ errors < MaxErrors /\ errors' = errors + 1
    /\ UNCHANGED <<now, rowVars, queueVars, crashes>>

SchedulerDies(p) ==
    /\ pc[p] # "idle" /\ EndTick(p)
    /\ crashes < MaxCrashes /\ crashes' = crashes + 1
    /\ UNCHANGED <<now, rowVars, queueVars, errors>>

-----------------------------------------------------------------------------
(* The worker, which takes a job and starts the run of that id if it finds *)
(* the row (module WorkflowRun has the rest), and the clock.               *)

WorkerTakes(i) ==
    /\ i \in jobs /\ jobs' = jobs \ {i}
    /\ run' = [t \in Times |-> IF run[t].id = i THEN [run[t] EXCEPT !.status = "running"]
                                                ELSE run[t]]
    /\ started' = [t \in Times |-> IF run[t].id = i THEN started[t] + 1 ELSE started[t]]
    /\ UNCHANGED <<now, type, nextFireAt, lastId, procVars, faultVars>>

Clock ==
    /\ now < MaxTime /\ now' = now + 1
    /\ UNCHANGED <<rowVars, queueVars, procVars, faultVars>>

Process(p) ==
    \/ listDueWorkflowTriggerSubscriptions(p) \/ ScheduleFirst(p)
    \/ createWorkflowRun(p) \/ queueAdd(p) \/ deleteQueuedWorkflowRun(p)
    \/ updateWorkflowTriggerSubscriptionSchedule(p)

Next ==
    \/ \E p \in Schedulers :
          Process(p) \/ queueAddFails(p) \/ TransactionFails(p) \/ SchedulerDies(p)
    \/ \E i \in jobs : WorkerTakes(i)
    \/ Clock

Spec == Init /\ [][Next]_vars

\* A scheduler polls and goes on with what it has begun, workers take jobs
\* and time passes.
FairSpec ==
    /\ Spec
    /\ \A p \in Schedulers : WF_vars(Process(p))
    /\ WF_vars(\E i \in jobs : WorkerTakes(i)) /\ WF_vars(Clock)

-----------------------------------------------------------------------------
(* Properties.                                                             *)

\* Every variable keeps its type.
TypeOK ==
    /\ now \in Times /\ type \in Types /\ nextFireAt \in Nat /\ lastId \in Nat
    /\ run \in [Times -> [id : Nat, status : {"none", "queued", "running"}]]
    /\ jobs \subseteq Nat /\ started \in [Times -> Nat]
    /\ pc \in [Schedulers -> {"idle", "first", "create", "add", "delete", "advance"}]
    /\ tickAt \in [Schedulers -> Times \union {0}]
    /\ slot \in [Schedulers -> Times \union {0}] /\ runId \in [Schedulers -> Nat]
    /\ errors \in Nat /\ crashes \in Nat

\* A slot is run at most once, whatever schedulers list it together, whatever
\* commands fail after they took effect, and wherever a scheduler dies.
OneRunPerSlot == \A t \in Times : started[t] <= 1

\* A cron slot that the schedule has reached and that is due is run, unless the
\* scheduler dies.  It needs a single scheduler, and no second failure while the
\* first one is being undone.
CronSlotRuns ==
    \A t \in CronTimes \intersect Times :
        (type = "cron" /\ nextFireAt = t /\ now >= t) ~> (started[t] > 0 \/ crashes > 0)

\* Two heartbeats are never closer than the interval, whatever the jitter, the
\* delays and the deaths of the scheduler.  It needs a single scheduler.
HeartbeatSpacing ==
    type = "heartbeat" => \A s, t \in Times :
        s < t /\ run[s] # NoRun /\ run[t] # NoRun => t - s >= Interval

\* A cron subscription runs only at times its expression matches: without a
\* match it is INVALID_CRON_EXPRESSION and has nothing to run.
OnlyCronSlotsRun == type = "cron" => \A t \in Times : run[t] # NoRun => t \in CronTimes
=============================================================================
