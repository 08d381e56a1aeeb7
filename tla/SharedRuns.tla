----------------------------- MODULE SharedRuns -----------------------------
(***************************************************************************)
(* Who may start runs of a published workflow, and how many: guests that   *)
(* were invited to share it, members, and the organization's limits on     *)
(* runs, which the API checks before it creates a run and counts after it  *)
(* has queued it (apps/api/src/server.ts, the store, repositories).        *)
(***************************************************************************)
EXTENDS Naturals, FiniteSets

CONSTANTS
    Guests, Member, None,
    Slots,          \* requests served at once
    MonthlyLimit, InflightLimit,
    MaxInvites, MaxRuns, MaxFaults  \* bounds

ASSUME SlotsAssumption == IsFiniteSet(Slots) /\ Slots # {}
ASSUME LimitsAssumption == MonthlyLimit \in Nat /\ InflightLimit \in Nat

VARIABLES
    invites,        \* workflow_share_invitations: [id, guest, status, lapsed]
    shares,         \* workflow_shares: [id, guest, active]; id of the invitation
    canceled,       \* the organization's subscription is canceled
    runs,           \* workflow_runs: [id, by, status, tried]; tried: its attempt_count is not 0
    drawn,          \* run ids ever drawn
    jobs,           \* runs with a job in the queue
    used,           \* organization_run_usage_monthly
    lost,           \* increments that failed
    faults,
    req,            \* what each slot serves
    accepted,       \* history: invitations accepted, as often as they were
    shown,          \* history: runs of others that the share routes showed
    refused         \* history: runs whose request was answered 503

shareVars == <<invites, shares, accepted>>
runVars == <<canceled, runs, drawn, jobs, used, lost, faults, refused>>
vars == <<shareVars, runVars, req, shown>>

Idle == [at |-> "idle", user |-> None, share |-> 0, run |-> 0]

Init ==
    /\ invites = {} /\ shares = {} /\ accepted = {} /\ canceled = FALSE
    /\ runs = {} /\ drawn = 0 /\ jobs = {} /\ used = 0 /\ lost = 0 /\ faults = 0
    /\ req = [s \in Slots |-> Idle] /\ shown = {} /\ refused = {}

At(s, step) == req[s].at = step
Go(s, f) == req' = [req EXCEPT ![s] = f]
End(s) == Go(s, Idle)
Fault == faults < MaxFaults /\ faults' = faults + 1

-----------------------------------------------------------------------------
(* Sharing.                                                                *)

\* One pending invitation of a guest; that it has lapsed does not change its
\* status.
createWorkflowShareInvitation(g) ==
    /\ Cardinality(invites) < MaxInvites
    /\ ~\E i \in invites : i.guest = g /\ i.status = "pending"
    /\ invites' = invites \cup {[id |-> Cardinality(invites) + 1, guest |-> g,
                                 status |-> "pending", lapsed |-> FALSE]}
    /\ UNCHANGED <<shares, accepted, runVars, req, shown>>

inviteLapses(i) ==
    /\ i \in invites /\ ~i.lapsed
    /\ invites' = (invites \ {i}) \cup {[i EXCEPT !.lapsed = TRUE]}
    /\ UNCHANGED <<shares, accepted, runVars, req, shown>>

\* The route's transaction reads the invitation, for the guest it names.
readInvitation(s, i) ==
    /\ At(s, "idle") /\ i \in invites /\ i.status = "pending" /\ ~i.lapsed
    /\ Go(s, [Idle EXCEPT !.at = "accept", !.user = i.guest, !.share = i.id])
    /\ UNCHANGED <<shareVars, runVars, shown>>

Pending(s) == {i \in invites : i.id = req[s].share /\ i.status = "pending"}

\* Mutant: whatever its status, it is accepted.
markWorkflowShareInvitationAccepted_Any(s) == {i \in invites : i.id = req[s].share}

\* The row is locked until the transaction ends, and must still be pending.
markWorkflowShareInvitationAccepted(s) == Pending(s)

\* Mutant: neither the shares there are nor the index are thought of.
createWorkflowShare_NoIndex(s) ==
    shares' = shares \cup {[id |-> req[s].share, guest |-> req[s].user, active |-> TRUE]}

\* Shares the guest has are revoked; one active share of a guest is unique.
createWorkflowShare(s) ==
    shares' = {IF h.guest = req[s].user THEN [h EXCEPT !.active = FALSE] ELSE h : h \in shares}
              \cup {[id |-> req[s].share, guest |-> req[s].user, active |-> TRUE]}

acceptWorkflowShareInvitation(s) ==
    /\ At(s, "accept") /\ End(s)
    /\ LET hit == markWorkflowShareInvitationAccepted(s)
       IN IF hit = {} THEN UNCHANGED shareVars
          ELSE /\ invites' = (invites \ hit) \cup {[i EXCEPT !.status = "accepted"] : i \in hit}
               /\ accepted' = accepted \cup {<<req[s].share, Cardinality(accepted)>>}
               /\ createWorkflowShare(s)
    /\ UNCHANGED <<runVars, shown>>

revokeWorkflowShare(h) ==
    /\ h \in shares /\ h.active
    /\ shares' = (shares \ {h}) \cup {[h EXCEPT !.active = FALSE]}
    /\ UNCHANGED <<invites, accepted, runVars, req, shown>>

-----------------------------------------------------------------------------
(* Runs.                                                                   *)

upsertOrganizationSubscription ==
    /\ canceled' = ~canceled
    /\ UNCHANGED <<shareVars, runs, drawn, jobs, used, lost, faults, refused, req, shown>>

\* A member starts a run of the organization's own workflow.
memberRun(s) ==
    /\ At(s, "idle") /\ Go(s, [Idle EXCEPT !.at = "quota", !.user = Member])
    /\ UNCHANGED <<shareVars, runVars, shown>>

getSharedWorkflowByShareForUser(h, g) == h \in shares /\ h.guest = g /\ h.active

\* A guest does: the share is read once, before everything else.
shareRun(s, g, h) ==
    /\ At(s, "idle") /\ getSharedWorkflowByShareForUser(h, g)
    /\ Go(s, [Idle EXCEPT !.at = "quota", !.user = g, !.share = h.id])
    /\ UNCHANGED <<shareVars, runVars, shown>>

InFlight == {r \in runs : r.status \in {"queued", "running"}}

withinMonthlyLimit == used < MonthlyLimit

\* Mutant: runs that wait do not count.
withinInflightLimit_Running == Cardinality({r \in runs : r.status = "running"}) < InflightLimit
withinInflightLimit == Cardinality(InFlight) < InflightLimit

\* The subscription, the month's count and the runs in flight are read.
assertOrganizationRunQuota(s) ==
    /\ At(s, "quota")
    /\ IF ~canceled /\ withinMonthlyLimit /\ withinInflightLimit
       THEN Go(s, [req[s] EXCEPT !.at = "create"]) ELSE End(s)
    /\ UNCHANGED <<shareVars, runVars, shown>>

createWorkflowRun(s) ==
    /\ At(s, "create") /\ drawn < MaxRuns /\ drawn' = drawn + 1
    /\ runs' = runs \cup {[id |-> drawn + 1, by |-> req[s].user, status |-> "queued", tried |-> FALSE]}
    /\ Go(s, [req[s] EXCEPT !.at = "enqueue", !.run = drawn + 1])
    /\ UNCHANGED <<shareVars, canceled, jobs, used, lost, faults, refused, shown>>

enqueueWorkflowRun(s) ==
    /\ At(s, "enqueue") /\ jobs' = jobs \cup {req[s].run}
    /\ Go(s, [req[s] EXCEPT !.at = "usage"])
    /\ UNCHANGED <<shareVars, canceled, runs, drawn, used, lost, faults, refused, shown>>

\* The command fails, whether or not the queue took the job.
enqueueFails(s) ==
    /\ At(s, "enqueue") /\ Fault
    /\ jobs' \in {jobs, jobs \cup {req[s].run}}
    /\ Go(s, [req[s] EXCEPT !.at = "undo"])
    /\ UNCHANGED <<shareVars, canceled, runs, drawn, used, lost, refused, shown>>

\* Mutant: a run that waits for its next attempt is deleted as well.
deleteQueuedWorkflowRun_Any(r) == r \in runs /\ r.status = "queued"

deleteQueuedWorkflowRun(r) == r \in runs /\ r.status = "queued" /\ ~r.tried

undoRun(s) ==
    /\ At(s, "undo") /\ End(s)
    /\ runs' = {r \in runs : ~(r.id = req[s].run /\ deleteQueuedWorkflowRun(r))}
    /\ refused' = refused \cup {req[s].run}
    /\ UNCHANGED <<shareVars, canceled, drawn, jobs, used, lost, faults, shown>>

recordOrganizationRunUsage(s) ==
    /\ At(s, "usage") /\ End(s) /\ used' = used + 1
    /\ UNCHANGED <<shareVars, canceled, runs, drawn, jobs, lost, faults, refused, shown>>

\* That the count failed is logged.
usageFails(s) ==
    /\ At(s, "usage") /\ Fault /\ End(s) /\ lost' = lost + 1
    /\ UNCHANGED <<shareVars, canceled, runs, drawn, jobs, used, refused, shown>>

\* The worker: a job whose run is gone is nothing to it. A run that failed
\* waits for its next attempt.
workerSteps(r) ==
    /\ r \in runs
    /\ \/ /\ r.status = "queued" /\ r.id \in jobs
          /\ runs' = (runs \ {r}) \cup {[r EXCEPT !.status = "running", !.tried = TRUE]}
       \/ /\ r.status = "running"
          /\ \E status \in {"queued", "done"} :
                runs' = (runs \ {r}) \cup {[r EXCEPT !.status = status]}
    /\ UNCHANGED <<shareVars, canceled, drawn, jobs, used, lost, faults, refused, req, shown>>

-----------------------------------------------------------------------------
(* Reading through a share: the list of runs, or one run's events after the *)
(* run itself was looked up; the share is asked for each time.              *)

\* Mutant: everybody's runs.
getWorkflowRunByIdForShareUser_Anyone(h, g, r) == h \in shares /\ h.active /\ h.guest = g /\ r \in runs

getWorkflowRunByIdForShareUser(h, g, r) ==
    h \in shares /\ h.active /\ h.guest = g /\ r \in runs /\ r.by = g

listWorkflowRunsForShareUser(g, h) ==
    /\ h \in shares /\ h.active /\ h.guest = g
    /\ shown' = shown \cup {r.id : r \in {x \in runs : getWorkflowRunByIdForShareUser(h, g, x) /\ x.by # g}}
    /\ UNCHANGED <<shareVars, runVars, req>>

readEvents(s, g, h, r) ==
    /\ At(s, "idle") /\ getWorkflowRunByIdForShareUser(h, g, r)
    /\ Go(s, [Idle EXCEPT !.at = "events", !.user = g, !.share = h.id, !.run = r.id])
    /\ UNCHANGED <<shareVars, runVars, shown>>

listWorkflowRunEventsForShareUser(s) ==
    /\ At(s, "events") /\ End(s)
    /\ shown' = shown \cup {r.id : r \in
            {x \in runs : /\ x.id = req[s].run /\ x.by # req[s].user
                          /\ \E h \in shares : h.id = req[s].share
                                /\ getWorkflowRunByIdForShareUser(h, req[s].user, x)}}
    /\ UNCHANGED <<shareVars, runVars>>

-----------------------------------------------------------------------------
Next ==
    \/ \E g \in Guests : createWorkflowShareInvitation(g)
    \/ \E i \in invites : inviteLapses(i)
    \/ \E h \in shares : revokeWorkflowShare(h)
    \/ upsertOrganizationSubscription
    \/ \E s \in Slots :
          \/ \E i \in invites : readInvitation(s, i)
          \/ acceptWorkflowShareInvitation(s)
          \/ memberRun(s) \/ assertOrganizationRunQuota(s) \/ createWorkflowRun(s)
          \/ enqueueWorkflowRun(s) \/ enqueueFails(s) \/ undoRun(s)
          \/ recordOrganizationRunUsage(s) \/ usageFails(s)
          \/ \E g \in Guests, h \in shares :
                \/ shareRun(s, g, h)
                \/ \E r \in runs : readEvents(s, g, h, r)
          \/ listWorkflowRunEventsForShareUser(s)
    \/ \E g \in Guests, h \in shares : listWorkflowRunsForShareUser(g, h)
    \/ \E r \in runs : workerSteps(r)

Spec == Init /\ [][Next]_vars

-----------------------------------------------------------------------------
TypeOK ==
    /\ \A i \in invites : i.guest \in Guests /\ i.status \in {"pending", "accepted"}
    /\ \A h \in shares : h.guest \in Guests /\ h.active \in BOOLEAN
    /\ \A r \in runs : r.status \in {"queued", "running", "done"} /\ r.tried \in BOOLEAN
    /\ drawn \in 0..MaxRuns /\ jobs \subseteq 1..drawn

\* A guest has one active share of the workflow, however often it is invited
\* and accepts (createWorkflowShare and its unique index).
OneActiveShare == \A h, k \in shares : h.active /\ k.active /\ h.guest = k.guest => h = k

\* An invitation is accepted once, though its guest asks twice at a time
\* (markWorkflowShareInvitationAccepted).
InvitationsServeOnce == \A a, b \in accepted : a[1] = b[1] => a = b

\* Shares show a guest the runs it has started itself.
SharesShowOwnRuns == shown = {}

\* The limits are passed by what is under way when they are reached and by
\* what was never counted, and by no more (assertOrganizationRunQuota).
Uncounted == Cardinality({r \in runs : r.id \in refused}) + lost
OvershootIsBounded ==
    /\ Cardinality(runs) <= MonthlyLimit + Cardinality(Slots) - 1 + Uncounted
    /\ Cardinality(InFlight) <= InflightLimit + Cardinality(Slots) - 1

\* The four together: what sharing promises whoever shares and whoever runs,
\* and what the organization's limits promise however many requests run at once
\* (the share routes, assertOrganizationRunQuota).
SharesHold == OneActiveShare /\ InvitationsServeOnce /\ SharesShowOwnRuns /\ OvershootIsBounded

TriedStay == \A r \in runs : r.tried => \E x \in runs' : x.id = r.id

\* A run that a worker has begun is not deleted (deleteQueuedWorkflowRun).
BegunRunsStay == [][TriedStay]_vars

\* What does not hold: a limit is never passed;
LimitsAreKept == Cardinality(runs) <= MonthlyLimit /\ Cardinality(InFlight) <= InflightLimit

\* a run whose request was answered with 503 does not run;
RefusedDoNotRun == \A r \in runs : r.id \in refused => ~r.tried

\* and a guest whose invitation has lapsed can be invited again.
LapsedMayBeInvited ==
    \A i \in invites : i.lapsed => \A g \in Guests : i.guest = g => ENABLED createWorkflowShareInvitation(g)
=============================================================================
