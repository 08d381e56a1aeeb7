-------------------------- MODULE MemoryWorkflows --------------------------
(***************************************************************************)
(* Workflows, their triggers, runs, approvals and shares in the in-memory  *)
(* store of the API, as MemoryAccounts.  A method is called for a workflow *)
(* of the organization, which the routes have looked up first.  Lists are  *)
(* taken whole.  The contents and the version of a workflow are left out.  *)
(***************************************************************************)
EXTENDS Integers, FiniteSets, Tables

CONSTANTS
    Ids, Orgs,
    Users,              \* a user stands for his email, too
    Hashes, Keys,       \* of webhook tokens; of triggers
    Requests,           \* to gateways, on which runs are blocked
    Triggers,           \* a workflow's content has one, or None
    MaxAttempt          \* bound: attempts of a run

VARIABLES tables, expired, answer

vars == <<tables, expired, answer>>

Init ==
    /\ tables = [workflows |-> {}, triggers |-> {}, runs |-> {}, events |-> {}, approvals |-> {},
                 invitations |-> {}, shares |-> {}]
    /\ expired = {} /\ answer = None

Returns(op, args, result) ==
    /\ answer' # None /\ answer'[1] = op /\ answer'[2] = args /\ answer'[3] = result
TimePasses == \E late \in SUBSET IdsOf(tables.invitations) : expired' = expired \cup late
Reads(op, args, result) == Returns(op, args, result) /\ UNCHANGED tables /\ TimePasses
Writes(op, args, result, table, rows) ==
    /\ Returns(op, args, result) /\ tables' = [tables EXCEPT ![table] = rows] /\ TimePasses
Adds(op, args, table, row) == Writes(op, args, row, table, tables[table] \cup {row})
Changes(op, args, table, hit, New(_)) ==
    Writes(op, args, One({New(r) : r \in hit}), table, Updated(tables[table], hit, New))
Fresh(table) == Ids \ IdsOf(tables[table])
InOrg(table, org) == {r \in tables[table] : r.org = org}
Of(table, org, workflow) == {r \in InOrg(table, org) : r.workflow = workflow}
RunOf(org, workflow, id) == ById(Of("runs", org, workflow), id)
WorkflowIds(org) == IdsOf(InOrg("workflows", org))

-----------------------------------------------------------------------------
(* Workflows and their revisions.                                          *)

createWorkflow(org, trigger) ==
    \E id \in Fresh("workflows") :
        Adds("createWorkflow", <<org, trigger>>, "workflows",
             [id |-> id, org |-> org, family |-> id, revision |-> 1, status |-> "draft",
              trigger |-> trigger])

Family(org, family) == {w \in InOrg("workflows", org) : w.family = family}

createWorkflowDraftFromWorkflow(org, source) ==
    \E w \in ById(InOrg("workflows", org), source), id \in Fresh("workflows") :
        LET newest == CHOOSE r \in {v.revision : v \in Family(org, w.family)} :
                        \A v \in Family(org, w.family) : v.revision <= r IN
        Adds("createWorkflowDraftFromWorkflow", <<org, source>>, "workflows",
             [id |-> id, org |-> org, family |-> w.family, revision |-> newest + 1,
              status |-> "draft", trigger |-> w.trigger])

listWorkflows(org) == Reads("listWorkflows", org, InOrg("workflows", org))

listWorkflowRevisions(org, id) ==
    Reads("listWorkflowRevisions", <<org, id>>,
          UNION {Family(org, w.family) : w \in ById(InOrg("workflows", org), id)})

getWorkflowById(org, id) == Reads("getWorkflowById", <<org, id>>, Find(InOrg("workflows", org), id))

updateWorkflowDraft(org, id) ==
    Reads("updateWorkflowDraft", <<org, id>>,
          One({w \in ById(InOrg("workflows", org), id) : w.status = "draft"}))

publishWorkflow(org, id) ==
    LET new(w) == [w EXCEPT !.status = "published"] IN
    Changes("publishWorkflow", <<org, id>>, "workflows", ById(InOrg("workflows", org), id), new)

\* deriveTriggerSubscriptionsFromDsl
Subscribed(trigger) == {trigger} \ {None}

\* The subscriptions of the workflow are replaced; a webhook's entry in the
\* map of token hashes moves to the new one.
syncWorkflowTriggerSubscriptions(org, id, trigger) ==
    \E new \in Fresh("triggers") :
        LET rows == {[id |-> new, org |-> org, workflow |-> id, type |-> t.type, hash |-> t.hash,
                      enabled |-> TRUE] : t \in Subscribed(trigger)}
            moved(r) == IF r.hash # None /\ \E t \in rows : t.hash = r.hash
                        THEN [r EXCEPT !.hash = None] ELSE r IN
        Writes("syncWorkflowTriggerSubscriptions", <<org, id, trigger>>, rows, "triggers",
               {moved(r) : r \in tables.triggers \ Of("triggers", org, id)} \cup rows)

listWorkflowTriggerSubscriptions(org, ids) ==
    Reads("listWorkflowTriggerSubscriptions", <<org, ids>>,
          {t \in InOrg("triggers", org) : t.workflow \in ids})

patchWorkflowTriggerSubscription(org, id, enabled) ==
    LET new(t) == [t EXCEPT !.enabled = enabled] IN
    Changes("patchWorkflowTriggerSubscription", <<org, id, enabled>>, "triggers",
            ById(InOrg("triggers", org), id), new)

getWorkflowTriggerSubscriptionByWebhookTokenHash(hash) ==
    Reads("getWorkflowTriggerSubscriptionByWebhookTokenHash", hash,
          One({t \in tables.triggers : t.hash = hash}))

DraftsNext ==
    \E o \in Orgs :
        \/ listWorkflows(o)
        \/ \E t \in Triggers \cup {None} : createWorkflow(o, t)
        \/ \E id \in Ids :
             \/ createWorkflowDraftFromWorkflow(o, id) \/ listWorkflowRevisions(o, id)
             \/ getWorkflowById(o, id) \/ updateWorkflowDraft(o, id) \/ publishWorkflow(o, id)

TriggersNext ==
    \/ \E o \in Orgs :
         \/ \E w \in WorkflowIds(o) :
             \/ syncWorkflowTriggerSubscriptions(o, w, Find(tables.workflows, w).trigger)
             \/ listWorkflowTriggerSubscriptions(o, {w})
         \/ listWorkflowTriggerSubscriptions(o, Ids)
         \/ \E id \in Ids, on \in BOOLEAN : patchWorkflowTriggerSubscription(o, id, on)
    \/ \E h \in Hashes : getWorkflowTriggerSubscriptionByWebhookTokenHash(h)

-----------------------------------------------------------------------------
(* Runs, their events and the approvals they wait for.  The worker writes  *)
(* to the database itself; a test writes to the maps in its place.         *)

createWorkflowRun(org, workflow, user, key) ==
    /\ \A r \in Of("runs", org, workflow) : key = None \/ r.key # key
    /\ \E id \in Fresh("runs") :
         Adds("createWorkflowRun", <<org, workflow, user, key>>, "runs",
              [id |-> id, org |-> org, workflow |-> workflow, user |-> user, key |-> key,
               status |-> "queued", attempt |-> 0, blocked |-> None])

listWorkflowRuns(org, workflow) ==
    Reads("listWorkflowRuns", <<org, workflow>>, Of("runs", org, workflow))

getWorkflowRunById(org, workflow, id) ==
    Reads("getWorkflowRunById", <<org, workflow, id>>, One(RunOf(org, workflow, id)))

getWorkflowRunByBlockedRequestId(org, request) ==
    Reads("getWorkflowRunByBlockedRequestId", <<org, request>>,
          One({r \in InOrg("runs", org) : r.status = "running" /\ r.blocked = request}))

countWorkflowRunsByStatuses(org, statuses) ==
    Reads("countWorkflowRunsByStatuses", <<org, statuses>>,
          Cardinality({r \in InOrg("runs", org) : r.status \in statuses}))

clearWorkflowRunBlock(org, workflow, id, request) ==
    LET new(r) == [r EXCEPT !.blocked = None] IN
    Changes("clearWorkflowRunBlock", <<org, workflow, id, request>>, "runs",
            {r \in RunOf(org, workflow, id) : r.blocked = request}, new)

markWorkflowRunFailed(org, workflow, id) ==
    LET new(r) == [r EXCEPT !.status = "failed"] IN
    Changes("markWorkflowRunFailed", <<org, workflow, id>>, "runs", RunOf(org, workflow, id), new)

deleteQueuedWorkflowRun(org, workflow, id) ==
    LET hit == {r \in RunOf(org, workflow, id) : r.status = "queued" /\ r.attempt = 0} IN
    Writes("deleteQueuedWorkflowRun", <<org, workflow, id>>, hit # {}, "runs", tables.runs \ hit)

appendWorkflowRunEvent(org, workflow, run) ==
    \E id \in Fresh("events") :
        Adds("appendWorkflowRunEvent", <<org, workflow, run>>, "events",
             [id |-> id, org |-> org, workflow |-> workflow, run |-> run])

EventsOf(org, workflow, run) == {e \in Of("events", org, workflow) : e.run = run}

listWorkflowRunEvents(org, workflow, run) ==
    Reads("listWorkflowRunEvents", <<org, workflow, run>>, EventsOf(org, workflow, run))

listWorkflowApprovalRequests(org, statuses) ==
    Reads("listWorkflowApprovalRequests", <<org, statuses>>,
          {a \in InOrg("approvals", org) : a.status \in statuses})

getWorkflowApprovalRequestById(org, id) ==
    Reads("getWorkflowApprovalRequestById", <<org, id>>, Find(InOrg("approvals", org), id))

decideWorkflowApprovalRequest(org, id, status) ==
    LET new(a) == [a EXCEPT !.status = status]
        hit == {a \in ById(InOrg("approvals", org), id) : a.status = "pending"} IN
    Changes("decideWorkflowApprovalRequest", <<org, id, status>>, "approvals", hit, new)

WorkerBlocks(r, request) ==
    /\ r.attempt < MaxAttempt /\ \A s \in tables.runs : s.blocked # request
    /\ tables' = [tables EXCEPT !.runs = Replaced(@, {r},
         [r EXCEPT !.status = "running", !.attempt = @ + 1, !.blocked = request])]
    /\ UNCHANGED answer /\ TimePasses

WorkerAsks(r) ==
    /\ r.status = "running"
    /\ \E id \in Fresh("approvals") :
         tables' = [tables EXCEPT !.approvals =
             @ \cup {[id |-> id, org |-> r.org, workflow |-> r.workflow, run |-> r.id,
                      status |-> "pending"]}]
    /\ UNCHANGED answer /\ TimePasses

\* The routes delete a run that they could not enqueue, before any event of it.
Eventless(id) == \A e \in tables.events : e.run # id

Filters(S) == {{x} : x \in S} \cup {S}

RunsNext ==
    \E o \in Orgs :
        \/ \E w \in WorkflowIds(o) :
             \/ listWorkflowRuns(o, w)
             \/ \E u \in Users, k \in Keys \cup {None} : createWorkflowRun(o, w, u, k)
             \/ \E id \in Ids :
                  \/ getWorkflowRunById(o, w, id) \/ markWorkflowRunFailed(o, w, id)
                  \/ Eventless(id) /\ deleteQueuedWorkflowRun(o, w, id)
                  \/ \E q \in Requests : clearWorkflowRunBlock(o, w, id, q)
        \/ \E ss \in Filters({"queued", "running"}) : countWorkflowRunsByStatuses(o, ss)
        \/ \E q \in Requests : getWorkflowRunByBlockedRequestId(o, q)
        \/ \E r \in InOrg("runs", o), q \in Requests : WorkerBlocks(r, q)

ApprovalsNext ==
    \E o \in Orgs :
        \/ \E w \in WorkflowIds(o), id \in Ids :
             appendWorkflowRunEvent(o, w, id) \/ listWorkflowRunEvents(o, w, id)
        \/ \E r \in InOrg("runs", o) : WorkerAsks(r)
        \/ \E ss \in Filters({"pending", "approved", "rejected"}) : listWorkflowApprovalRequests(o, ss)
        \/ \E id \in Ids :
             \/ getWorkflowApprovalRequestById(o, id)
             \/ \E s \in {"approved", "rejected", "expired"} : decideWorkflowApprovalRequest(o, id, s)

-----------------------------------------------------------------------------
(* Shares of a workflow with a user outside its organization.              *)

createWorkflowShareInvitation(org, workflow, email) ==
    /\ \A i \in Of("invitations", org, workflow) : i.email # email \/ i.status # "pending"
    /\ \E id \in Fresh("invitations") :
         Adds("createWorkflowShareInvitation", <<org, workflow, email>>, "invitations",
              [id |-> id, org |-> org, workflow |-> workflow, email |-> email, status |-> "pending"])

listWorkflowShareInvitations(org, workflow, statuses) ==
    Reads("listWorkflowShareInvitations", <<org, workflow, statuses>>,
          {i \in Of("invitations", org, workflow) : i.status \in statuses})

getWorkflowShareInvitationByToken(org, token) ==
    Reads("getWorkflowShareInvitationByToken", <<org, token>>, Find(InOrg("invitations", org), token))

Active(org, workflow, user) ==
    {s \in Of("shares", org, workflow) : s.user = user /\ ~s.revoked}
Revoked(s) == [s EXCEPT !.revoked = TRUE]

acceptWorkflowShareInvitation(org, token, user) ==
    \E i \in ById(InOrg("invitations", org), token), id \in Fresh("shares") :
        LET share == [id |-> id, org |-> org, workflow |-> i.workflow, user |-> user,
                      revoked |-> FALSE]
            had == Active(org, i.workflow, user) IN
        /\ i.email = user /\ i.id \notin expired /\ i.status = "pending"
        /\ i.workflow \in WorkflowIds(org)
        /\ Returns("acceptWorkflowShareInvitation", <<org, token, user>>, share)
        /\ tables' = [tables EXCEPT
             !.invitations = Replaced(@, {i}, [i EXCEPT !.status = "accepted"]),
             !.shares = Updated(@, had, Revoked) \cup {share}]
        /\ TimePasses

listWorkflowShares(org, workflow, all) ==
    Reads("listWorkflowShares", <<org, workflow, all>>,
          {s \in Of("shares", org, workflow) : all \/ ~s.revoked})

revokeWorkflowShare(org, workflow, id) ==
    Changes("revokeWorkflowShare", <<org, workflow, id>>, "shares",
            {s \in ById(Of("shares", org, workflow), id) : ~s.revoked}, Revoked)

\* The share of the id, if it is the user's and is not revoked.
Shared(id, user) == {s \in ById(tables.shares, id) : s.user = user /\ ~s.revoked}
RunsShared(id, user) ==
    UNION {{r \in Of("runs", s.org, s.workflow) : r.user = user} : s \in Shared(id, user)}

getSharedWorkflowByShareId(id, user) ==
    Reads("getSharedWorkflowByShareId", <<id, user>>,
          One({<<s.id, w>> : <<s, w>> \in {<<s, w>> \in Shared(id, user) \X tables.workflows :
                                             w.id = s.workflow /\ w.org = s.org}}))

listWorkflowRunsByShare(id, user) ==
    Reads("listWorkflowRunsByShare", <<id, user>>, RunsShared(id, user))

getWorkflowRunByIdForShare(id, user, run) ==
    Reads("getWorkflowRunByIdForShare", <<id, user, run>>, Find(RunsShared(id, user), run))

listWorkflowRunEventsByShare(id, user, run) ==
    Reads("listWorkflowRunEventsByShare", <<id, user, run>>,
          UNION {EventsOf(r.org, r.workflow, r.id) : r \in ById(RunsShared(id, user), run)})

Expires == TimePasses /\ UNCHANGED <<tables, answer>>

SharingNext ==
    \/ Expires
    \/ \E o \in Orgs, w \in Ids :
         \/ w \in WorkflowIds(o) /\ \E u \in Users : createWorkflowShareInvitation(o, w, u)
         \/ \E all \in BOOLEAN : listWorkflowShares(o, w, all)
         \/ \E ss \in Filters({"pending", "accepted"}) : listWorkflowShareInvitations(o, w, ss)
         \/ \E id \in Ids : revokeWorkflowShare(o, w, id)
    \/ \E o \in Orgs, id \in Ids :
         \/ getWorkflowShareInvitationByToken(o, id)
         \/ \E u \in Users : acceptWorkflowShareInvitation(o, id, u)

SharedNext ==
    \E id \in Ids, u \in Users :
        \/ getSharedWorkflowByShareId(id, u) \/ listWorkflowRunsByShare(id, u)
        \/ \E run \in Ids : \/ getWorkflowRunByIdForShare(id, u, run)
                            \/ listWorkflowRunEventsByShare(id, u, run)

Next == DraftsNext \/ TriggersNext \/ RunsNext \/ ApprovalsNext \/ SharingNext \/ SharedNext

Spec == Init /\ [][Next]_vars
=============================================================================
