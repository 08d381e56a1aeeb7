------------------------------ MODULE MCKept ------------------------------
(***************************************************************************)
(* What is kept up as time passes, in one run: a behaviour is about the    *)
(* slots of one scheduler, or about the connections of executors, and the  *)
(* other stays as it begins.                                               *)
(***************************************************************************)
EXTENDS ExecutorConnection, TLC

CONSTANTS
    scheduler,          \* the one there is, and its subscription
    Types, CronTimes, Interval, Jitter, MaxSkew, MaxTime, MaxErrors, MaxCrashes

CONSTANTS
    p1, p2,             \* pairing requests
    e1, e2, e3,         \* executors
    g1, g2              \* edges

\* What TriggerScheduler assumes of its constants.
ASSUME SlotsAssumption ==
    /\ Types \subseteq {"cron", "heartbeat"} /\ CronTimes \subseteq Nat \ {0}
    /\ Interval \in Nat \ {0} /\ Jitter \in Nat /\ MaxSkew \in Nat
    /\ MaxTime \in Nat \ {0} /\ MaxErrors \in Nat /\ MaxCrashes \in Nat

VARIABLES
    scene,
    slotNow, slotType, slotNextFireAt, slotRun, slotJobs, slotLastId, slotStarted, slotPc,
    slotTickAt, slotSlot, slotRunId, slotErrors, slotCrashes

ThreeHosts == (e1 :> "byon") @@ (e2 :> "byon") @@ (e3 :> "managed")

Slot == INSTANCE TriggerScheduler WITH
    Schedulers <- {scheduler}, now <- slotNow, type <- slotType, nextFireAt <- slotNextFireAt,
    run <- slotRun, jobs <- slotJobs, lastId <- slotLastId, started <- slotStarted, pc <- slotPc,
    tickAt <- slotTickAt, slot <- slotSlot, runId <- slotRunId, errors <- slotErrors,
    crashes <- slotCrashes

slotVars == <<slotNow, slotType, slotNextFireAt, slotRun, slotJobs, slotLastId, slotStarted, slotPc,
              slotTickAt, slotSlot, slotRunId, slotErrors, slotCrashes>>

KeptInit ==
    /\ scene \in {"slots", "connections"}
    /\ Slot!Init /\ Init
    /\ scene # "slots" => slotType = "cron"

\* Of the hosts that pair, one connects, when the requests are over and there is
\* no other host; from then on none pairs and none is issued.
OneConnects ==
    /\ upgrade' # upgrade => /\ upgrade'[e2] = None /\ row[e2].status = "none" /\ row[e3].status = "none"
                             /\ \A p \in Requests : pairing[p] \in {"paired", "refused"}
                             /\ admin = 0 \/ DOMAIN sockets # {}
    /\ (upgrade[e1] # None \/ DOMAIN sockets # {}) => UNCHANGED <<token, pairing, row[e2], row[e3]>>

KeptNext ==
    \/ /\ scene = "slots" /\ Slot!Next
       /\ UNCHANGED <<scene, vars>>
    \/ /\ scene = "connections" /\ Next /\ OneConnects
       /\ UNCHANGED <<scene, slotVars>>

\* The fairness of each specification, for the behaviours that are about it.
KeptFairness ==
    /\ WF_slotVars(scene = "slots" /\ Slot!Process(scheduler))
    /\ WF_slotVars(scene = "slots" /\ \E i \in slotJobs : Slot!WorkerTakes(i))
    /\ WF_slotVars(scene = "slots" /\ Slot!Clock)
    /\ \A h \in {e1, e2, e3} : /\ WF_vars(scene = "connections" /\ AgentStep(h))
                              /\ WF_vars(scene = "connections" /\ Greets(h))
                              /\ WF_vars(scene = "connections" /\ RouteExpires(h))
    /\ WF_vars(scene = "connections" /\ EdgeCloses)

KeptSpec == KeptInit /\ [][KeptNext]_<<scene, slotVars, vars>> /\ KeptFairness

-----------------------------------------------------------------------------
\* A cron slot that the schedule has reached and that is due is run, unless the
\* scheduler dies.  It needs a single scheduler, and no second failure while the
\* first one is being undone.
CronSlotRuns == Slot!CronSlotRuns

\* Two heartbeats are never closer than the interval, whatever the jitter, the
\* delays and the deaths of the scheduler.  It needs a single scheduler.
HeartbeatSpacing == Slot!HeartbeatSpacing
=============================================================================
