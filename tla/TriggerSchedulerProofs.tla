----------------------- MODULE TriggerSchedulerProofs -----------------------
(***************************************************************************)
(* A slot is run at most once, for any number of schedulers, failed        *)
(* commands and crashes: the unique trigger key lets one run of a slot     *)
(* exist at a time, its id goes to the queue at most once, and a run that  *)
(* a worker has started is never deleted to make room for another.         *)
(***************************************************************************)
EXTENDS TriggerScheduler, TLAPS

Shape ==
    /\ lastId \in Nat /\ jobs \subseteq 1..lastId
    /\ run \in [Times -> [id : Nat, status : {"none", "queued", "running"}]]
    /\ started \in [Times -> Nat]
    /\ pc \in [Schedulers -> {"idle", "first", "create", "add", "delete", "advance"}]
    /\ runId \in [Schedulers -> Nat]

\* Run ids are given out once, so rows of different slots have different ones.
IdInv ==
    /\ \A t \in Times : run[t].id <= lastId /\ (run[t].id = 0 => run[t] = NoRun)
    /\ \A s, t \in Times : s # t /\ run[s].id # 0 => run[s].id # run[t].id

\* A slot without a started row has not been run at all.
StartInv ==
    \A t \in Times :
        /\ started[t] <= 1
        /\ run[t].status # "running" => started[t] = 0

\* The row of a job that waits has not been started.
JobInv == \A t \in Times : run[t].id \in jobs => run[t].status = "queued"

\* A scheduler about to add a job is the first to add it.
AddInv ==
    /\ \A p \in Schedulers : pc[p] = "add" =>
          /\ runId[p] \in 1..lastId /\ runId[p] \notin jobs
          /\ \A t \in Times : run[t].id = runId[p] => run[t].status = "queued"
    /\ \A p, q \in Schedulers :
          p # q /\ pc[p] = "add" /\ pc[q] = "add" => runId[p] # runId[q]

SlotInv == Shape /\ IdInv /\ StartInv /\ JobInv /\ AddInv

-----------------------------------------------------------------------------
\* A step that touches neither the rows nor the queue, and brings no scheduler
\* to the add, keeps the invariant.
LEMMA QuietStep ==
    ASSUME SlotInv, UNCHANGED <<lastId, run, queueVars>>,
           NEW p \in Schedulers,
           pc' = [pc EXCEPT ![p] = pc'[p]],
           pc'[p] \in {"idle", "first", "create", "delete", "advance"},
           runId' \in [Schedulers -> Nat],
           \A q \in Schedulers \ {p} : runId'[q] = runId[q]
    PROVE  SlotInv'
<1> USE DEF SlotInv, queueVars
<1>1. \A q \in Schedulers : pc'[q] = "add" => q # p /\ pc[q] = "add" /\ runId'[q] = runId[q]
  BY DEF Shape
<1>2. Shape'
  BY DEF Shape
<1>3. AddInv'
  BY <1>1 DEF AddInv
<1> QED BY <1>2, <1>3 DEF IdInv, StartInv, JobInv

\* The end of a tick is such a step.
LEMMA EndTickStep ==
    ASSUME SlotInv, NEW p \in Schedulers, EndTick(p), UNCHANGED <<lastId, run, queueVars>>
    PROVE  SlotInv'
<1>1. /\ pc' = [pc EXCEPT ![p] = pc'[p]] /\ pc'[p] = "idle"
      /\ runId' \in [Schedulers -> Nat]
      /\ \A q \in Schedulers \ {p} : runId'[q] = runId[q]
  BY DEF EndTick, GoTo, SlotInv, Shape
<1> QED BY <1>1, QuietStep

\* A new run has an id that nothing else has.
LEMMA CreateStep ==
    ASSUME SlotInv, NEW p \in Schedulers, createWorkflowRun(p) PROVE SlotInv'
<1> USE DEF SlotInv, queueVars
<1>1. CASE run[slot[p]] = NoRun
  <2> DEFINE n == lastId + 1
  <2>1. /\ lastId' = n /\ runId' = [runId EXCEPT ![p] = n] /\ pc' = [pc EXCEPT ![p] = "add"]
        /\ run' = [run EXCEPT ![slot[p]] = [id |-> n, status |-> "queued"]]
        /\ UNCHANGED <<jobs, started>>
    BY <1>1 DEF createWorkflowRun, GoTo
  <2>2. n \in Nat /\ n > lastId /\ n # 0
    BY DEF Shape
  <2>3. Shape'
    <3>1. [id |-> n, status |-> "queued"] \in [id : Nat, status : {"none", "queued", "running"}]
      BY <2>2
    <3>2. run' \in [Times -> [id : Nat, status : {"none", "queued", "running"}]]
      BY <2>1, <3>1 DEF Shape
    <3>3. jobs' \subseteq 1..lastId'
      BY <2>1, <2>2 DEF Shape
    <3>4. runId' \in [Schedulers -> Nat] /\ lastId' \in Nat
      BY <2>1, <2>2 DEF Shape
    <3>5. started' \in [Times -> Nat]
          /\ pc' \in [Schedulers -> {"idle", "first", "create", "add", "delete", "advance"}]
      BY <2>1 DEF Shape
    <3> QED BY <3>2, <3>3, <3>4, <3>5 DEF Shape
  <2>4. \A t \in Times : \/ run'[t] = run[t]
                         \/ /\ t = slot[p] /\ run[t] = NoRun
                            /\ run'[t].id = n /\ run'[t].status = "queued"
    BY <1>1, <2>1 DEF Shape
  <2>5. IdInv'
    BY <2>1, <2>2, <2>4 DEF IdInv, Shape
  <2>6. StartInv' /\ JobInv'
    BY <2>1, <2>2, <2>4 DEF StartInv, JobInv, NoRun
  <2>7. n \notin jobs
    BY <2>2 DEF Shape
  <2>8. AddInv'
    <3>1. ASSUME NEW q \in Schedulers, pc'[q] = "add", q # p
          PROVE  /\ pc[q] = "add" /\ runId'[q] = runId[q] /\ runId[q] \in 1..lastId
                 /\ runId[q] \notin jobs
                 /\ \A t \in Times : run[t].id = runId[q] => run[t].status = "queued"
      BY <2>1, <3>1 DEF Shape, AddInv
    <3>2. pc'[p] = "add" /\ runId'[p] = n
      BY <2>1 DEF Shape
    <3>3. ASSUME NEW q \in Schedulers, pc'[q] = "add"
          PROVE  /\ runId'[q] \in 1..lastId' /\ runId'[q] \notin jobs'
                 /\ \A t \in Times : run'[t].id = runId'[q] => run'[t].status = "queued"
      <4>1. CASE q = p
        BY <2>1, <2>2, <2>4, <2>7, <3>2, <4>1 DEF IdInv, Shape
      <4>2. CASE q # p
        BY <2>1, <2>2, <2>4, <3>1, <3>3, <4>2 DEF Shape
      <4> QED BY <4>1, <4>2
    <3>4. ASSUME NEW q \in Schedulers, NEW r \in Schedulers, q # r,
                 pc'[q] = "add", pc'[r] = "add"
          PROVE  runId'[q] # runId'[r]
      BY <2>2, <3>1, <3>2, <3>4 DEF AddInv, Shape
    <3> QED BY <3>3, <3>4 DEF AddInv
  <2> QED BY <2>3, <2>5, <2>6, <2>8
<1>2. CASE run[slot[p]] # NoRun
  <2>1. /\ pc' = [pc EXCEPT ![p] = "advance"] /\ UNCHANGED <<lastId, run, queueVars, runId>>
    BY <1>2 DEF createWorkflowRun, GoTo
  <2> QED BY <2>1, QuietStep DEF Shape
<1> QED BY <1>1, <1>2

\* The job that is added is the first one of its run.
LEMMA AddStep ==
    ASSUME SlotInv, NEW p \in Schedulers, pc[p] = "add", NEW to \in {"advance", "delete"},
           pc' = [pc EXCEPT ![p] = to], UNCHANGED <<lastId, run, started, runId>>,
           jobs' = jobs \union {runId[p]} \/ UNCHANGED jobs
    PROVE  SlotInv'
<1> USE DEF SlotInv
<1>1. Shape'
  BY DEF Shape, AddInv
<1>2. IdInv' /\ StartInv'
  BY DEF IdInv, StartInv
<1>3. JobInv'
  BY DEF JobInv, AddInv
<1>4. \A q \in Schedulers : pc'[q] = "add" => q # p /\ pc[q] = "add"
  BY DEF Shape
<1>5. AddInv'
  BY <1>4 DEF AddInv
<1> QED BY <1>1, <1>2, <1>3, <1>5

\* A row that is deleted has not been started.
LEMMA DeleteStep ==
    ASSUME SlotInv, NEW p \in Schedulers, deleteQueuedWorkflowRun(p) PROVE SlotInv'
<1> USE DEF SlotInv, queueVars
<1>1. CASE run' = run
  BY <1>1, EndTickStep DEF deleteQueuedWorkflowRun
<1>2. CASE run' # run
  <2>1. /\ run[slot[p]] = [id |-> runId[p], status |-> "queued"]
        /\ run' = [run EXCEPT ![slot[p]] = NoRun]
        /\ UNCHANGED <<lastId, jobs, started>> /\ EndTick(p)
    BY <1>2 DEF deleteQueuedWorkflowRun
  <2>2. /\ pc' = [pc EXCEPT ![p] = "idle"] /\ runId' = [runId EXCEPT ![p] = 0]
    BY <2>1 DEF EndTick, GoTo
  <2>3. \A t \in Times : \/ run'[t] = run[t]
                         \/ run'[t] = NoRun /\ run[t].status = "queued"
    BY <2>1 DEF Shape
  <2>4. NoRun.id = 0 /\ NoRun.status = "none"
    BY DEF NoRun
  <2>5. NoRun \in [id : Nat, status : {"none", "queued", "running"}]
    BY DEF NoRun
  <2>6. Shape'
    BY <2>1, <2>2, <2>5 DEF Shape
  <2>7. IdInv'
    BY <2>1, <2>3, <2>4 DEF IdInv, Shape
  <2>8. StartInv'
    BY <2>1, <2>3, <2>4 DEF StartInv
  <2>9. 0 \notin jobs
    BY DEF Shape
  <2>10. JobInv'
    BY <2>1, <2>3, <2>4, <2>9 DEF JobInv
  <2>11. \A q \in Schedulers : pc'[q] = "add" => pc[q] = "add" /\ runId'[q] = runId[q] /\ runId[q] # 0
    BY <2>2 DEF Shape, AddInv
  <2>12. AddInv'
    BY <2>1, <2>3, <2>4, <2>11 DEF AddInv
  <2> QED BY <2>6, <2>7, <2>8, <2>10, <2>12
<1> QED BY <1>1, <1>2

\* A worker starts the one row of the job's id, and that row for the first
\* time.
LEMMA WorkerStep ==
    ASSUME SlotInv, NEW i \in jobs, WorkerTakes(i) PROVE SlotInv'
<1> USE DEF SlotInv
<1>1. /\ jobs' = jobs \ {i} /\ UNCHANGED <<lastId, pc, runId>>
      /\ i \in Nat /\ i # 0
  BY DEF WorkerTakes, procVars, Shape
<1>2. \A t \in Times : run[t].id # i => run'[t] = run[t] /\ started'[t] = started[t]
  BY DEF WorkerTakes
<1>3. \A t \in Times : run[t].id = i =>
          /\ run'[t].id = i /\ run'[t].status = "running"
          /\ started'[t] = started[t] + 1 /\ run[t].status = "queued"
  BY DEF WorkerTakes, JobInv, Shape
<1>4. Shape'
  <2>1. run' \in [Times -> [id : Nat, status : {"none", "queued", "running"}]]
    <3>1. ASSUME NEW t \in Times
          PROVE  [run[t] EXCEPT !.status = "running"]
                     \in [id : Nat, status : {"none", "queued", "running"}]
      BY DEF Shape
    <3> QED BY <3>1 DEF WorkerTakes, Shape
  <2>2. started' \in [Times -> Nat]
    BY DEF WorkerTakes, Shape
  <2> QED BY <1>1, <2>1, <2>2 DEF Shape
<1>5. IdInv'
  BY <1>1, <1>2, <1>3 DEF IdInv, Shape
<1>6. StartInv'
  BY <1>2, <1>3 DEF StartInv, Shape
<1>7. JobInv'
  BY <1>1, <1>2, <1>3 DEF JobInv
<1>8. AddInv'
  BY <1>1, <1>2, <1>3 DEF AddInv
<1> QED BY <1>4, <1>5, <1>6, <1>7, <1>8

\* Every step keeps the invariant.
LEMMA SlotStep == ASSUME SlotInv, [Next]_vars PROVE SlotInv'
<1> USE DEF queueVars, rowVars, procVars, faultVars
<1>1. ASSUME NEW p \in Schedulers, listDueWorkflowTriggerSubscriptions(p) PROVE SlotInv'
  <2>1. /\ pc' = [pc EXCEPT ![p] = pc'[p]] /\ pc'[p] \in {"first", "create"}
        /\ UNCHANGED <<lastId, run, queueVars, runId>>
    BY <1>1 DEF listDueWorkflowTriggerSubscriptions, GoTo, SlotInv, Shape
  <2> QED BY <2>1, QuietStep DEF SlotInv, Shape
<1>2. ASSUME NEW p \in Schedulers, ScheduleFirst(p) PROVE SlotInv'
  BY <1>2, EndTickStep DEF ScheduleFirst
<1>3. ASSUME NEW p \in Schedulers, createWorkflowRun(p) PROVE SlotInv'
  BY <1>3, CreateStep
<1>4. ASSUME NEW p \in Schedulers, queueAdd(p) PROVE SlotInv'
  BY <1>4, AddStep DEF queueAdd, GoTo
<1>5. ASSUME NEW p \in Schedulers, queueAddFails(p) PROVE SlotInv'
  BY <1>5, AddStep DEF queueAddFails, GoTo
<1>6. ASSUME NEW p \in Schedulers, deleteQueuedWorkflowRun(p) PROVE SlotInv'
  BY <1>6, DeleteStep
<1>7. ASSUME NEW p \in Schedulers, updateWorkflowTriggerSubscriptionSchedule(p) PROVE SlotInv'
  BY <1>7, EndTickStep DEF updateWorkflowTriggerSubscriptionSchedule
<1>8. ASSUME NEW p \in Schedulers, TransactionFails(p) PROVE SlotInv'
  BY <1>8, EndTickStep DEF TransactionFails
<1>9. ASSUME NEW p \in Schedulers, SchedulerDies(p) PROVE SlotInv'
  BY <1>9, EndTickStep DEF SchedulerDies
<1>10. ASSUME NEW i \in jobs, WorkerTakes(i) PROVE SlotInv'
  BY <1>10, WorkerStep
<1>11. CASE Clock \/ UNCHANGED vars
  <2>1. UNCHANGED <<lastId, run, jobs, started, pc, runId>>
    BY <1>11 DEF Clock, vars
  <2>2. Shape' /\ IdInv'
    BY <2>1 DEF SlotInv, Shape, IdInv
  <2>3. StartInv' /\ JobInv' /\ AddInv'
    BY <2>1 DEF SlotInv, StartInv, JobInv, AddInv
  <2> QED BY <2>2, <2>3 DEF SlotInv
<1> QED
  BY <1>1, <1>2, <1>3, <1>4, <1>5, <1>6, <1>7, <1>8, <1>9, <1>10, <1>11
  DEF Next, Process

\* No slot of a trigger is run twice (the unique trigger_key of
\* workflow_runs, deleteQueuedWorkflowRun).
THEOREM SlotRunsOnce == Spec => []OneRunPerSlot
<1>1. Init => SlotInv
  BY DEF Init, SlotInv, Shape, IdInv, StartInv, JobInv, AddInv, NoRun
<1>2. SlotInv /\ [Next]_vars => SlotInv'
  BY SlotStep
<1>3. SlotInv => OneRunPerSlot
  BY DEF SlotInv, StartInv, OneRunPerSlot
<1> QED BY <1>1, <1>2, <1>3, PTL DEF Spec

-----------------------------------------------------------------------------
(* The distance of heartbeats, for one scheduler: while it is in a tick    *)
(* nobody else moves the schedule, so the slot it has listed is the row's, *)
(* every run there is belongs to that slot or to one that lies an interval *)
(* before it, and the slot that follows lies an interval after it.         *)

Beat ==
    /\ now \in Nat /\ nextFireAt \in Nat
    /\ tickAt \in [Schedulers -> Nat] /\ slot \in [Schedulers -> Nat]
    /\ \A p \in Schedulers :
          /\ pc[p] # "idle" => slot[p] = nextFireAt /\ slot[p] <= tickAt[p]
          /\ pc[p] = "first" => nextFireAt = 0
          /\ pc[p] \notin {"idle", "first"} => nextFireAt # 0
    /\ \A t \in Times : run[t] # NoRun => t = nextFireAt \/ t + Interval <= nextFireAt
    /\ \A s, t \in Times : s < t /\ run[s] # NoRun /\ run[t] # NoRun => t - s >= Interval

SpacingInv == type = "heartbeat" => Beat

\* A step that writes no schedule and makes no run keeps the distances.
LEMMA NoNewRun ==
    ASSUME Beat, UNCHANGED nextFireAt,
           \A t \in Times : run'[t] # NoRun => run[t] # NoRun
    PROVE  /\ \A t \in Times : run'[t] # NoRun => t = nextFireAt' \/ t + Interval <= nextFireAt'
           /\ \A s, t \in Times : s < t /\ run'[s] # NoRun /\ run'[t] # NoRun => t - s >= Interval
BY DEF Beat

\* The end of a tick that leaves the schedule as it is.
LEMMA TickEnds ==
    ASSUME SlotInv, Beat, NEW p \in Schedulers, EndTick(p), UNCHANGED <<now, nextFireAt>>,
           \A t \in Times : run'[t] # NoRun => run[t] # NoRun
    PROVE  Beat'
<1>1. /\ tickAt' \in [Schedulers -> Nat] /\ slot' \in [Schedulers -> Nat]
      /\ pc'[p] = "idle"
      /\ \A q \in Schedulers \ {p} : pc'[q] = pc[q] /\ slot'[q] = slot[q] /\ tickAt'[q] = tickAt[q]
  BY DEF EndTick, GoTo, Beat, SlotInv, Shape
<1>2. \A q \in Schedulers :
          /\ pc'[q] # "idle" => slot'[q] = nextFireAt' /\ slot'[q] <= tickAt'[q]
          /\ pc'[q] = "first" => nextFireAt' = 0
          /\ pc'[q] \notin {"idle", "first"} => nextFireAt' # 0
  BY <1>1 DEF Beat
<1> QED BY <1>1, <1>2, NoNewRun DEF Beat

\* The only scheduler ends its tick with a slot that is an interval later.
LEMMA ScheduleMoves ==
    ASSUME SlotInv, Beat, NEW p \in Schedulers, Schedulers = {p}, EndTick(p),
           UNCHANGED <<now, run>>, nextFireAt' \in Nat,
           \A t \in Times : run[t] # NoRun => t + Interval <= nextFireAt'
    PROVE  Beat'
<1>1. /\ tickAt' \in [Schedulers -> Nat] /\ slot' \in [Schedulers -> Nat] /\ pc'[p] = "idle"
  BY DEF EndTick, GoTo, Beat, SlotInv, Shape
<1>2. \A q \in Schedulers : pc'[q] = "idle"
  BY <1>1
<1> QED BY <1>1, <1>2 DEF Beat

LEMMA SpacingStep ==
    ASSUME TriggerAssumption, NEW p \in Schedulers, Schedulers = {p},
           SlotInv, SpacingInv, [Next]_vars
    PROVE  SpacingInv'
<1>1. UNCHANGED type
  BY DEF Next, Process, vars, rowVars, listDueWorkflowTriggerSubscriptions, ScheduleFirst,
         createWorkflowRun, queueAdd, queueAddFails, deleteQueuedWorkflowRun,
         updateWorkflowTriggerSubscriptionSchedule, TransactionFails, SchedulerDies,
         WorkerTakes, Clock
<1> SUFFICES ASSUME type = "heartbeat", Beat PROVE Beat'
  BY <1>1 DEF SpacingInv
<1> USE DEF rowVars, queueVars, procVars, faultVars
<1>2. CASE listDueWorkflowTriggerSubscriptions(p)
  <2>1. /\ tickAt' = [tickAt EXCEPT ![p] = now] /\ slot' = [slot EXCEPT ![p] = nextFireAt]
        /\ pc' = [pc EXCEPT ![p] = IF nextFireAt = 0 THEN "first" ELSE "create"]
        /\ nextFireAt <= now /\ UNCHANGED <<now, nextFireAt, run>>
    BY <1>2 DEF listDueWorkflowTriggerSubscriptions, GoTo
  <2>2. tickAt' \in [Schedulers -> Nat] /\ slot' \in [Schedulers -> Nat]
    BY <2>1 DEF Beat
  <2>3. /\ slot'[p] = nextFireAt' /\ slot'[p] <= tickAt'[p]
        /\ pc'[p] = IF nextFireAt = 0 THEN "first" ELSE "create"
    BY <2>1 DEF Beat, SlotInv, Shape
  <2> QED BY <2>1, <2>2, <2>3, NoNewRun DEF Beat
<1>3. CASE ScheduleFirst(p)
  <2>1. PICK j \in 0..Jitter : nextFireAt' = tickAt[p] + Interval + j
    BY <1>3 DEF ScheduleFirst, FirstSlots, computeHeartbeatNextFireAt
  <2>2. EndTick(p) /\ UNCHANGED <<now, run>> /\ pc[p] = "first"
    BY <1>3 DEF ScheduleFirst
  <2>3. nextFireAt' \in Nat
    BY <2>1 DEF Beat, TriggerAssumption
  <2>4. \A t \in Times : run[t] = NoRun
    BY <2>2 DEF Beat, Times, TriggerAssumption
  <2> QED BY <2>2, <2>3, <2>4, ScheduleMoves
<1>4. CASE createWorkflowRun(p)
  <2>1. /\ pc' = [pc EXCEPT ![p] = pc'[p]] /\ pc'[p] \in {"add", "advance"} /\ pc[p] = "create"
        /\ UNCHANGED <<now, nextFireAt, slot, tickAt>>
    BY <1>4 DEF createWorkflowRun, GoTo, SlotInv, Shape
  <2>2. \A t \in Times : run'[t] # NoRun => run[t] # NoRun \/ t = nextFireAt
    BY <1>4 DEF createWorkflowRun, Beat, SlotInv, Shape
  <2>3. \A t \in Times : run'[t] # NoRun => t = nextFireAt' \/ t + Interval <= nextFireAt'
    BY <2>1, <2>2 DEF Beat
  <2>4. \A s, t \in Times : s < t /\ run'[s] # NoRun /\ run'[t] # NoRun => t - s >= Interval
    <3> SUFFICES ASSUME NEW s \in Times, NEW t \in Times, s < t, run'[s] # NoRun, run'[t] # NoRun
                 PROVE  t - s >= Interval
      OBVIOUS
    <3>1. (run[s] # NoRun \/ s = nextFireAt) /\ (run[t] # NoRun \/ t = nextFireAt)
      BY <2>2
    <3>2. (run[s] # NoRun => s = nextFireAt \/ s + Interval <= nextFireAt)
          /\ (run[t] # NoRun => t = nextFireAt \/ t + Interval <= nextFireAt)
          /\ (run[s] # NoRun /\ run[t] # NoRun => t - s >= Interval) /\ nextFireAt \in Nat
      BY DEF Beat
    <3> QED BY <3>1, <3>2 DEF Times, TriggerAssumption
  <2> QED BY <2>1, <2>3, <2>4 DEF Beat, SlotInv, Shape
<1>5. CASE queueAdd(p) \/ queueAddFails(p)
  <2>1. /\ pc' = [pc EXCEPT ![p] = pc'[p]] /\ pc'[p] \in {"advance", "delete"} /\ pc[p] = "add"
        /\ UNCHANGED <<now, nextFireAt, slot, tickAt, run>>
    BY <1>5 DEF queueAdd, queueAddFails, GoTo, SlotInv, Shape
  <2> QED BY <2>1 DEF Beat, SlotInv, Shape
<1>6. CASE deleteQueuedWorkflowRun(p)
  <2>1. \A t \in Times : run'[t] # NoRun => run[t] # NoRun
    BY <1>6 DEF deleteQueuedWorkflowRun, SlotInv, Shape
  <2> QED BY <1>6, <2>1, TickEnds DEF deleteQueuedWorkflowRun
<1>7. CASE updateWorkflowTriggerSubscriptionSchedule(p)
  <2>1. EndTick(p) /\ UNCHANGED <<now, run>> /\ pc[p] = "advance"
    BY <1>7 DEF updateWorkflowTriggerSubscriptionSchedule
  <2>2. slot[p] = nextFireAt /\ slot[p] <= tickAt[p] /\ nextFireAt \in Nat /\ tickAt[p] \in Nat
    BY <2>1 DEF Beat
  <2> DEFINE base == IF tickAt[p] - slot[p] > MaxSkew THEN tickAt[p] ELSE slot[p]
  <2>3. PICK j \in 0..Jitter : nextFireAt' = base + Interval + j
    BY <1>7 DEF updateWorkflowTriggerSubscriptionSchedule, NextSlots, computeHeartbeatNextFireAt
  <2>4. base \in Nat /\ base >= nextFireAt
    BY <2>2
  <2> HIDE DEF base
  <2>5. nextFireAt' \in Nat /\ nextFireAt' >= nextFireAt + Interval
    BY <2>2, <2>3, <2>4 DEF TriggerAssumption
  <2>6. \A t \in Times : run[t] # NoRun => t + Interval <= nextFireAt'
    BY <2>2, <2>5 DEF Beat, Times, TriggerAssumption
  <2> QED BY <2>1, <2>5, <2>6, ScheduleMoves
<1>8. CASE TransactionFails(p) \/ SchedulerDies(p)
  BY <1>8, TickEnds DEF TransactionFails, SchedulerDies
<1>9. ASSUME NEW i \in jobs, WorkerTakes(i) PROVE Beat'
  <2>1. UNCHANGED <<now, nextFireAt, pc, slot, tickAt>>
    BY <1>9 DEF WorkerTakes
  <2>2. i # 0
    BY DEF SlotInv, Shape
  <2>3. \A t \in Times : run'[t] # NoRun => run[t] # NoRun
    BY <1>9, <2>2 DEF WorkerTakes, NoRun
  <2> QED BY <2>1, <2>3, NoNewRun DEF Beat
<1>10. CASE Clock \/ UNCHANGED vars
  BY <1>10, NoNewRun DEF Clock, vars, Beat, TriggerAssumption
<1> QED BY <1>2, <1>3, <1>4, <1>5, <1>6, <1>7, <1>8, <1>9, <1>10 DEF Next, Process

\* Two heartbeats of a subscription are never closer than its interval, for
\* any interval, jitter and skew, any number of failed commands and deaths of
\* the scheduler, if there is one (computeHeartbeatNextFireAt).
THEOREM HeartbeatsKeepDistance ==
    ASSUME NEW p, Schedulers = {p} PROVE Spec => []HeartbeatSpacing
<1> USE TriggerAssumption
<1>1. Init => SlotInv
  BY DEF Init, SlotInv, Shape, IdInv, StartInv, JobInv, AddInv, NoRun
<1>2. Init => SpacingInv
  BY DEF Init, SpacingInv, Beat
<1>3. SlotInv /\ SpacingInv /\ [Next]_vars => SlotInv' /\ SpacingInv'
  BY SlotStep, SpacingStep
<1>4. SpacingInv => HeartbeatSpacing
  BY DEF SpacingInv, Beat, HeartbeatSpacing
<1> QED BY <1>1, <1>2, <1>3, <1>4, PTL DEF Spec
=============================================================================
