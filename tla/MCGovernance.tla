---------------------------- MODULE MCGovernance -----------------------------
(***************************************************************************)
(* Who may do what in an organization, in one run: a behaviour is about    *)
(* shared runs, about accounts, about the organization's members and       *)
(* settings, or about one family of workflows, and the others stay as they *)
(* begin.                                                                  *)
(***************************************************************************)
EXTENDS SharedRuns, TLC

CONSTANTS
    People, Browsers, Sessions, States, MaxTokens, MaxOutages,      \* accounts
    Users, Founder, Invites, Bootstrap, Fields, MaxWrites,          \* the organization
    Workflows, Deliveries, MaxEdits, MaxSubscriptions               \* workflows

ASSUME PeopleAssumption == None \notin Browsers \cup Sessions \cup States \cup Users
ASSUME WorkflowsAssumption == IsFiniteSet(Workflows)

VARIABLES
    scene,
    users, session, workspaces, oauthStates, jar, accReq, tokens, outages, exchanged, signIns,
    disturbed,
    role, orgInvites, doc, admins, ticket, audit, orgReq, writes, acked, overlapped,
    workflow, subs, lastId, wriReq, edits, delivery, webhookRuns, webhookJobs, webhookBegun

Acc == INSTANCE Accounts WITH Users <- People, Requests <- Slots, req <- accReq

Org == INSTANCE Organizations WITH Requests <- Slots, invites <- orgInvites, req <- orgReq

Wri == INSTANCE Authoring WITH Requests <- Slots, req <- wriReq, runs <- webhookRuns, jobs <- webhookJobs,
                           begun <- webhookBegun

accVars == <<users, session, workspaces, oauthStates, jar, accReq, tokens, outages, exchanged,
             signIns, disturbed>>
orgVars == <<role, orgInvites, doc, admins, ticket, audit, orgReq, writes, acked, overlapped>>
wriVars == <<workflow, subs, lastId, wriReq, edits, delivery, webhookRuns, webhookJobs, webhookBegun>>
allVars == <<scene, vars, accVars, orgVars, wriVars>>

Symmetry == Permutations(Slots) \cup Permutations(Workflows)

\* Two invitations and a run, or one invitation and the runs of two requests;
\* invitations and subscriptions lapse while there is no run.
FewRuns ==
    /\ Cardinality(invites') = 2 => drawn' <= 1 /\ faults' = 0
    /\ drawn' > 0 => canceled' = canceled /\ \A i \in invites' : ~i.lapsed
    /\ drawn' > 1 => \A s \in Slots : req'[s].at \notin {"events", "accept"}

\* A worker begins only runs whose add is reported as failed, the only ones that
\* are ever deleted, and with such a run there are three requests for changes.
FewUndone ==
    /\ \A d \in webhookBegun' \ webhookBegun : delivery[d].pc = "undo"
    /\ (\E d \in Deliveries : delivery'[d].pc \in {"undo", "unavailable"}) => edits' <= 3

\* Where members are not what it is about, the founder is no administrator.
GovernanceInit ==
    /\ scene \in {"runs", "accounts", "organization", "workflows"}
    /\ Init /\ Acc!Init /\ Org!Init /\ Wri!Init
    /\ scene # "organization" => admins = {}

GovernanceNext ==
    \/ scene = "runs" /\ Next /\ FewRuns /\ UNCHANGED <<scene, accVars, orgVars, wriVars>>
    \/ scene = "accounts" /\ Acc!Next /\ UNCHANGED <<scene, vars, orgVars, wriVars>>
    \/ scene = "organization" /\ Org!Next /\ UNCHANGED <<scene, vars, accVars, wriVars>>
    \/ scene = "workflows" /\ Wri!Next /\ FewUndone /\ UNCHANGED <<scene, vars, accVars, orgVars>>

GovernanceSpec == GovernanceInit /\ [][GovernanceNext]_allVars

-----------------------------------------------------------------------------
\* Who was signed out stays out: a request that begins after its session was
\* revoked, or with a cookie that a refresh has exchanged, is never let in; a
\* browser that lost no answer and never had two refreshes under way holds the
\* current token of its session; an OAuth state signs in once at most; whoever
\* is answered has a workspace (authenticateFromRefreshCookie, oauthCallback).
SignInsHold == scene = "accounts" =>
    /\ Acc!RevokedStaysOut /\ Acc!ExchangedStaysOut /\ Acc!CookieIsCurrent
    /\ Acc!OAuthStateOnce /\ Acc!AnsweredHasWorkspace

\* A member other than the founder was invited by email and has accepted, and
\* whoever has accepted is a member (acceptInvitation); a section that was
\* patched and answered keeps its value, unless two patches of its document
\* were under way at once; what was answered of an administrator's role is in
\* the log.
MembershipHolds == scene = "organization" =>
    /\ Org!MembersWereInvited /\ Org!AcceptedAreMembers
    /\ Org!PatchesKeepSections /\ Org!AnsweredIsAudited

\* No two revisions of a family have one number, though two requests may read
\* the same maximum; every subscription is the one its published workflow's dsl
\* asks for, and the only one; with one idempotency key a subscription has one
\* run at most, which has a job once its call is answered, and a call that was
\* told to retry has left none but one that a worker had begun
\* (createWorkflowDraftFromWorkflow, publishWorkflow, deleteQueuedWorkflowRun).
RevisionsHold == scene = "workflows" => Wri!RevisionsDiffer /\ Wri!SubscriptionsFollowDsl /\ Wri!WebhookRunsOnce

\* What no step may do. The last system administrator goes only when two
\* removals were past their check at once; an owner is made only by one who was
\* an owner when its request was checked; what is published never changes,
\* however an edit that read a draft and a publication interleave; a run that a
\* worker has begun is not deleted (deletePlatformUserRole,
\* updateMembershipRole, updateWorkflowDraft, deleteQueuedWorkflowRun).
NobodyOversteps ==
    [][/\ scene = "organization" => Org!LastAdminGoes /\ Org!OwnerIsMade
       /\ scene = "workflows" => Wri!StaysPublished /\ Wri!BegunStay
       /\ scene = "runs" => TriedStay]_allVars
=============================================================================
