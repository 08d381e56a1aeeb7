---------------------------- MODULE PgWorkflows ----------------------------
(***************************************************************************)
(* Workflows, their triggers, runs, approvals and shares in the store over *)
(* PostgreSQL, as PgAccounts: one transaction of statements of             *)
(* Repositories for a method, under an organization, or under a user alone *)
(* who reads what is shared with him.                                      *)
(***************************************************************************)
EXTENDS Integers, FiniteSets, Tables

CONSTANTS Ids, Orgs, Users, Hashes, Keys, Requests, Triggers, MaxAttempt,
          Clients       \* requests whose transactions have more than one statement

VARIABLES db, expired, answer, tx

vars == <<db, expired, answer, tx>>

Rows == INSTANCE Repositories

NoTx == [op |-> "none"]

Init ==
    /\ db = [workflows |-> {}, triggers |-> {}, runs |-> {}, events |-> {}, approvals |-> {},
             invitations |-> {}, shares |-> {}]
    /\ expired = {} /\ answer = None /\ tx = [c \in Clients |-> NoTx]

Answers(op, args, result) == answer' = <<op, args, result>>
Selects(op, args, result) == Answers(op, args, result) /\ UNCHANGED <<db, expired, tx>>
Commits(op, args, table, statement) ==
    /\ statement.ok /\ Answers(op, args, statement.row)
    /\ db' = [db EXCEPT ![table] = statement.rows] /\ UNCHANGED <<expired, tx>>
Begins(c, state) == tx[c] = NoTx /\ tx' = [tx EXCEPT ![c] = state] /\ UNCHANGED <<db, expired, answer>>
Fresh(table) == Ids \ IdsOf(db[table])

InOrg(table, org) == {r \in db[table] : r.org = org}
WorkflowIds(org) == IdsOf(InOrg("workflows", org))
\* What a user sees who is in no organization: his shares, the workflows of
\* those that are not revoked, his runs of them and the events of these.
SharesOf(user) == {s \in db.shares : s.user = user}
SharedWith(user, org, workflow) ==
    \E s \in SharesOf(user) : s.org = org /\ s.workflow = workflow /\ ~s.revoked
WorkflowsOf(user) == {w \in db.workflows : SharedWith(user, w.org, w.id)}
RunsOf(user) == {r \in db.runs : r.user = user /\ SharedWith(user, r.org, r.workflow)}
EventsOf(user) ==
    {e \in db.events : \E r \in RunsOf(user) : r.org = e.org /\ r.workflow = e.workflow /\ r.id = e.run}

-----------------------------------------------------------------------------
createWorkflow(org, trigger) ==
    \E id \in Fresh("workflows") :
        Commits("createWorkflow", <<org, trigger>>, "workflows",
                Rows!createWorkflow(db.workflows, id, org, trigger))

\* The source and the newest revision of its family are read.
createDraftReads(c, org, source) ==
    LET w == Rows!getWorkflowById(InOrg("workflows", org), org, source) IN
    /\ w # None
    /\ Begins(c, [op |-> "draft", args |-> <<org, source>>, source |-> w,
                  revision |-> Rows!maxRevision(InOrg("workflows", org), org, w.family) + 1])

createWorkflowDraftFromWorkflow(c) ==
    /\ tx[c].op = "draft" /\ tx' = [tx EXCEPT ![c] = NoTx]
    /\ \E id \in Fresh("workflows") :
         LET inserted == Rows!createWorkflowDraftFromWorkflow(db.workflows, id, tx[c].source,
                                                              tx[c].revision) IN
         IF inserted.ok
         THEN /\ db' = [db EXCEPT !.workflows = inserted.rows]
              /\ Answers("createWorkflowDraftFromWorkflow", tx[c].args, inserted.row)
         ELSE UNCHANGED <<db, answer>>
    /\ UNCHANGED expired

listWorkflows(org) ==
    Selects("listWorkflows", org, Rows!listWorkflows(InOrg("workflows", org), org))

\* The workflow is read in a transaction of its own, but its family is for good.
listWorkflowRevisions(org, id) ==
    LET w == Rows!getWorkflowById(InOrg("workflows", org), org, id) IN
    Selects("listWorkflowRevisions", <<org, id>>,
            IF w = None THEN {}
            ELSE Rows!listWorkflowRevisions(InOrg("workflows", org), org, w.family))

getWorkflowById(org, id) ==
    Selects("getWorkflowById", <<org, id>>, Rows!getWorkflowById(InOrg("workflows", org), org, id))

updateWorkflowDraft(org, id) ==
    Selects("updateWorkflowDraft", <<org, id>>,
            Rows!updateWorkflowDraft(InOrg("workflows", org), org, id))

publishWorkflow(org, id) ==
    Commits("publishWorkflow", <<org, id>>, "workflows",
            Rows!publishWorkflow(db.workflows, InOrg("workflows", org), org, id))

Subscribed(trigger) == {trigger} \ {None}

\* The rows the statement saw are deleted once the transaction commits; what
\* another one has inserted since then stays.
deletesTriggers(c, org, id, trigger) ==
    Begins(c, [op |-> "sync", args |-> <<org, id, trigger>>,
               gone |-> Rows!deleteTriggers(InOrg("triggers", org), org, id)])

syncWorkflowTriggerSubscriptions(c) ==
    /\ tx[c].op = "sync" /\ tx' = [tx EXCEPT ![c] = NoTx]
    /\ \E id \in Fresh("triggers") :
         LET org == tx[c].args[1]
             workflow == tx[c].args[2]
             replaced == Rows!replaceWorkflowTriggerSubscriptions(db.triggers, tx[c].gone, id, org,
                                                                  workflow, Subscribed(tx[c].args[3])) IN
         IF replaced.ok
         THEN /\ db' = [db EXCEPT !.triggers = replaced.rows]
              /\ Answers("syncWorkflowTriggerSubscriptions", tx[c].args, replaced.row)
         ELSE UNCHANGED <<db, answer>>
    /\ UNCHANGED expired

listWorkflowTriggerSubscriptions(org, ids) ==
    Selects("listWorkflowTriggerSubscriptions", <<org, ids>>,
            Rows!listWorkflowTriggerSubscriptions(InOrg("triggers", org), org, ids))

patchWorkflowTriggerSubscription(org, id, enabled) ==
    Commits("patchWorkflowTriggerSubscription", <<org, id, enabled>>, "triggers",
            Rows!updateWorkflowTriggerSubscriptionEnabled(db.triggers, InOrg("triggers", org), org, id,
                                                          enabled))

\* Row security is off in this transaction.
getWorkflowTriggerSubscriptionByWebhookTokenHash(hash) ==
    Selects("getWorkflowTriggerSubscriptionByWebhookTokenHash", hash,
            Rows!getWorkflowTriggerSubscriptionByWebhookTokenHash(db.triggers, hash))

DraftsNext ==
    \/ \E o \in Orgs :
         \/ listWorkflows(o)
         \/ \E t \in Triggers \cup {None} : createWorkflow(o, t)
         \/ \E id \in Ids :
              \/ \E c \in Clients : createDraftReads(c, o, id)
              \/ listWorkflowRevisions(o, id)
              \/ getWorkflowById(o, id) \/ updateWorkflowDraft(o, id) \/ publishWorkflow(o, id)
    \/ \E c \in Clients : createWorkflowDraftFromWorkflow(c)

TriggersNext ==
    \/ \E o \in Orgs :
         \/ \E w \in WorkflowIds(o) :
              \/ \E c \in Clients : deletesTriggers(c, o, w, Find(db.workflows, w).trigger)
              \/ listWorkflowTriggerSubscriptions(o, {w})
         \/ listWorkflowTriggerSubscriptions(o, Ids)
         \/ \E id \in Ids, on \in BOOLEAN : patchWorkflowTriggerSubscription(o, id, on)
    \/ \E h \in Hashes : getWorkflowTriggerSubscriptionByWebhookTokenHash(h)
    \/ \E c \in Clients : syncWorkflowTriggerSubscriptions(c)

-----------------------------------------------------------------------------
createWorkflowRun(org, workflow, user, key) ==
    \E id \in Fresh("runs") :
        Commits("createWorkflowRun", <<org, workflow, user, key>>, "runs",
                Rows!createWorkflowRun(db.runs, id, org, workflow, user, key))

listWorkflowRuns(org, workflow) ==
    Selects("listWorkflowRuns", <<org, workflow>>,
            Rows!listWorkflowRuns(InOrg("runs", org), org, workflow))

getWorkflowRunById(org, workflow, id) ==
    Selects("getWorkflowRunById", <<org, workflow, id>>,
            Rows!getWorkflowRunById(InOrg("runs", org), org, workflow, id))

getWorkflowRunByBlockedRequestId(org, request) ==
    Selects("getWorkflowRunByBlockedRequestId", <<org, request>>,
            Rows!getWorkflowRunByBlockedRequestId(InOrg("runs", org), org, request))

countWorkflowRunsByStatuses(org, statuses) ==
    Selects("countWorkflowRunsByStatuses", <<org, statuses>>,
            Rows!countWorkflowRunsByStatuses(InOrg("runs", org), org, statuses))

clearWorkflowRunBlock(org, workflow, id, request) ==
    Commits("clearWorkflowRunBlock", <<org, workflow, id, request>>, "runs",
            Rows!clearWorkflowRunBlock(db.runs, InOrg("runs", org), org, workflow, id, request))

markWorkflowRunFailed(org, workflow, id) ==
    Commits("markWorkflowRunFailed", <<org, workflow, id>>, "runs",
            Rows!markWorkflowRunFailed(db.runs, InOrg("runs", org), org, workflow, id))

deleteQueuedWorkflowRun(org, workflow, id) ==
    Commits("deleteQueuedWorkflowRun", <<org, workflow, id>>, "runs",
            Rows!deleteQueuedWorkflowRun(db.runs, InOrg("runs", org), org, workflow, id))

appendWorkflowRunEvent(org, workflow, run) ==
    \E id \in Fresh("events") :
        Commits("appendWorkflowRunEvent", <<org, workflow, run>>, "events",
                Rows!appendWorkflowRunEvent(db.events, db.runs, id, org, workflow, run))

listWorkflowRunEvents(org, workflow, run) ==
    Selects("listWorkflowRunEvents", <<org, workflow, run>>,
            Rows!listWorkflowRunEvents(InOrg("events", org), org, workflow, run))

listWorkflowApprovalRequests(org, statuses) ==
    Selects("listWorkflowApprovalRequests", <<org, statuses>>,
            Rows!listWorkflowApprovalRequests(InOrg("approvals", org), org, statuses))

getWorkflowApprovalRequestById(org, id) ==
    Selects("getWorkflowApprovalRequestById", <<org, id>>,
            Rows!getWorkflowApprovalRequestById(InOrg("approvals", org), org, id))

decideWorkflowApprovalRequest(org, id, status) ==
    Commits("decideWorkflowApprovalRequest", <<org, id, status>>, "approvals",
            Rows!decideWorkflowApprovalRequest(db.approvals, InOrg("approvals", org), org, id, status))

WorkerBlocks(r, request) ==
    /\ r.attempt < MaxAttempt /\ \A s \in db.runs : s.blocked # request
    /\ db' = [db EXCEPT !.runs = Rows!markWorkflowRunBlocked(@, r, request)]
    /\ UNCHANGED <<expired, answer, tx>>

WorkerAsks(r) ==
    /\ r.status = "running"
    /\ \E id \in Fresh("approvals") :
         db' = [db EXCEPT !.approvals = Rows!createWorkflowApprovalRequest(@, id, r)]
    /\ UNCHANGED <<expired, answer, tx>>

Eventless(id) == \A e \in db.events : e.run # id
Filters(S) == {{x} : x \in S} \cup {S}

RunsNext ==
    \E o \in Orgs :
        \/ \E w \in WorkflowIds(o) :
             \/ listWorkflowRuns(o, w)
             \/ \E u \in Users, k \in Keys \cup {None} : createWorkflowRun(o, w, u, k)
             \/ \E id \in Ids :
                  \/ getWorkflowRunById(o, w, id) \/ markWorkflowRunFailed(o, w, id)
                  \/ Eventless(id) /\ deleteQueuedWorkflowRun(o, w, id)
                  \/ \E q \in Requests : clearWorkflowRunBlock(o, w, id, q)
        \/ \E ss \in Filters({"queued", "running"}) : countWorkflowRunsByStatuses(o, ss)
        \/ \E q \in Requests : getWorkflowRunByBlockedRequestId(o, q)
        \/ \E r \in InOrg("runs", o), q \in Requests : WorkerBlocks(r, q)

ApprovalsNext ==
    \E o \in Orgs :
        \/ \E w \in WorkflowIds(o), id \in Ids :
             appendWorkflowRunEvent(o, w, id) \/ listWorkflowRunEvents(o, w, id)
        \/ \E r \in InOrg("runs", o) : WorkerAsks(r)
        \/ \E ss \in Filters({"pending", "approved", "rejected"}) : listWorkflowApprovalRequests(o, ss)
        \/ \E id \in Ids :
             \/ getWorkflowApprovalRequestById(o, id)
             \/ \E s \in {"approved", "rejected", "expired"} : decideWorkflowApprovalRequest(o, id, s)

-----------------------------------------------------------------------------
createWorkflowShareInvitation(org, workflow, email) ==
    \E id \in Fresh("invitations") :
        Commits("createWorkflowShareInvitation", <<org, workflow, email>>, "invitations",
                Rows!createWorkflowShareInvitation(db.invitations, id, org, workflow, email))

listWorkflowShareInvitations(org, workflow, statuses) ==
    Selects("listWorkflowShareInvitations", <<org, workflow, statuses>>,
            Rows!listWorkflowShareInvitations(InOrg("invitations", org), org, workflow, statuses))

getWorkflowShareInvitationByToken(org, token) ==
    Selects("getWorkflowShareInvitationByToken", <<org, token>>,
            Rows!getWorkflowShareInvitationByToken(InOrg("invitations", org), org, token))

\* The invitation and its workflow are read, and the invitation is in order.
acceptShareReads(c, org, token, user) ==
    LET i == Rows!getWorkflowShareInvitationByToken(InOrg("invitations", org), org, token) IN
    /\ i # None /\ i.email = user /\ i.id \notin expired /\ i.status = "pending"
    /\ Rows!getWorkflowById(InOrg("workflows", org) \cup WorkflowsOf(user), org, i.workflow) # None
    /\ Begins(c, [op |-> "accept", args |-> <<org, token, user>>, invitation |-> i])

\* The update of the invitation holds its row until the transaction ends.
acceptWorkflowShareInvitation(c) ==
    /\ tx[c].op = "accept" /\ tx' = [tx EXCEPT ![c] = NoTx]
    /\ \E id \in Fresh("shares") :
         LET i == tx[c].invitation
             user == tx[c].args[3]
             marked == Rows!markWorkflowShareInvitationAccepted(db.invitations,
                           InOrg("invitations", i.org), i.org, i.id)
             revoked == Rows!revokeActiveWorkflowSharesForUser(db.shares, InOrg("shares", i.org),
                            i.org, i.workflow, user)
             inserted == Rows!createWorkflowShare(revoked.rows, id, i.org, i.workflow, user) IN
         IF marked.row # None /\ inserted.ok
         THEN /\ db' = [db EXCEPT !.invitations = marked.rows, !.shares = inserted.rows]
              /\ Answers("acceptWorkflowShareInvitation", tx[c].args, inserted.row)
         ELSE UNCHANGED <<db, answer>>
    /\ UNCHANGED expired

listWorkflowShares(org, workflow, all) ==
    Selects("listWorkflowShares", <<org, workflow, all>>,
            Rows!listWorkflowSharesByWorkflow(InOrg("shares", org), org, workflow, all))

revokeWorkflowShare(org, workflow, id) ==
    Commits("revokeWorkflowShare", <<org, workflow, id>>, "shares",
            Rows!revokeWorkflowShare(db.shares, InOrg("shares", org), org, workflow, id))

getSharedWorkflowByShareId(id, user) ==
    Selects("getSharedWorkflowByShareId", <<id, user>>,
            Rows!getSharedWorkflowByShareForUser(SharesOf(user), WorkflowsOf(user), id, user))

listWorkflowRunsByShare(id, user) ==
    Selects("listWorkflowRunsByShare", <<id, user>>,
            Rows!listWorkflowRunsForShareUser(SharesOf(user), RunsOf(user), id, user))

getWorkflowRunByIdForShare(id, user, run) ==
    Selects("getWorkflowRunByIdForShare", <<id, user, run>>,
            Rows!getWorkflowRunByIdForShareUser(SharesOf(user), RunsOf(user), id, run, user))

listWorkflowRunEventsByShare(id, user, run) ==
    Selects("listWorkflowRunEventsByShare", <<id, user, run>>,
            Rows!listWorkflowRunEventsForShareUser(SharesOf(user), RunsOf(user), EventsOf(user), id, run,
                                                   user))

Expires(id) ==
    /\ id \in IdsOf(db.invitations) /\ expired' = expired \cup {id} /\ UNCHANGED <<db, answer, tx>>

SharingNext ==
    \/ \E id \in Ids : Expires(id)
    \/ \E o \in Orgs, w \in Ids :
         \/ w \in WorkflowIds(o) /\ \E u \in Users : createWorkflowShareInvitation(o, w, u)
         \/ \E all \in BOOLEAN : listWorkflowShares(o, w, all)
         \/ \E ss \in Filters({"pending", "accepted"}) : listWorkflowShareInvitations(o, w, ss)
         \/ \E id \in Ids : revokeWorkflowShare(o, w, id)
    \/ \E o \in Orgs, id \in Ids :
         \/ getWorkflowShareInvitationByToken(o, id)
         \/ \E u \in Users, c \in Clients : acceptShareReads(c, o, id, u)
    \/ \E c \in Clients : acceptWorkflowShareInvitation(c)

SharedNext ==
    \E id \in Ids, u \in Users :
        \/ getSharedWorkflowByShareId(id, u) \/ listWorkflowRunsByShare(id, u)
        \/ \E run \in Ids : \/ getWorkflowRunByIdForShare(id, u, run)
                            \/ listWorkflowRunEventsByShare(id, u, run)

Next == DraftsNext \/ TriggersNext \/ RunsNext \/ ApprovalsNext \/ SharingNext \/ SharedNext

Spec == Init /\ [][Next]_vars

-----------------------------------------------------------------------------
\* An invitation found in time is in time until the transaction ends.
Reading == {tx[c].args[2] : c \in {c \in Clients : tx[c].op = "accept"}}

Memory == INSTANCE MemoryWorkflows WITH tables <- db, expired <- expired \ Reading

\* What the database answers about workflows, runs and shares, the in-memory
\* store on which the API's tests run answers too.
ImplementsMemoryStore == Memory!Spec
=============================================================================
