------------------------------ MODULE MCStores ------------------------------
(***************************************************************************)
(* PgAppStore against MemoryAppStore: a behaviour calls the methods of one *)
(* topic, of one of the four families, on a few rows; the tables of the    *)
(* other families stay empty.                                              *)
(***************************************************************************)
EXTENDS Integers, FiniteSets, TLC

CONSTANTS
    None,
    i1, i2, i3,         \* ids
    o1, o2,             \* organizations, users, email addresses, slugs and hashes
    c1, c2,             \* requests whose transactions are open
    k1, k2, v1, v2      \* every other value

VARIABLES
    topic,
    accounts, accountTx, invitationsExpired, accountAnswer,
    workflows, workflowTx, sharesExpired, workflowAnswer,
    exec, execTx, tokensExpired, execAnswer,
    sessions, sessionTx, sessionAnswer

Clients == {c1, c2}
Triggers == {[type |-> "webhook", hash |-> k1], [type |-> "cron", hash |-> None]}

A == INSTANCE PgAccounts WITH
    Ids <- {i1, i2}, Emails <- {o1, o2}, Slugs <- {o1, o2}, Hashes <- {o1, o2}, Values <- {v1},
    Keys <- {k1}, Months <- {k2}, Statuses <- {"open", "closed"}, Roles <- {"owner", "member"},
    Granted <- {"member"}, Amounts <- {-1, 1}, MaxCount <- 2,
    db <- accounts, tx <- accountTx, expired <- invitationsExpired, answer <- accountAnswer

W == INSTANCE PgWorkflows WITH
    Ids <- {i1, i2, i3}, Orgs <- {o1, o2}, Users <- {o1, o2}, Hashes <- {k1}, Keys <- {k2},
    Requests <- {v1}, MaxAttempt <- 1,
    db <- workflows, tx <- workflowTx, expired <- sharesExpired, answer <- workflowAnswer

E == INSTANCE PgExec WITH
    Ids <- {i1, i2}, Orgs <- {o1, o2}, Connectors <- {k1, k2}, Names <- {v1}, Values <- {v1, v2},
    Slugs <- {v2}, Labels <- {v2}, Components <- {v2},
    db <- exec, tx <- execTx, expired <- tokensExpired, answer <- execAnswer

S == INSTANCE PgSessions WITH
    Ids <- {i1, i2}, Orgs <- {o1, o2}, Keys <- {k1}, Tries <- {v1}, Agents <- {v1, v2}, Pins <- {v1},
    Priorities <- {1, 2}, Paths <- {v1}, Channels <- {v1}, AccountKeys <- {k1, k2}, Names <- {v1},
    Subjects <- {v1},
    db <- sessions, tx <- sessionTx, answer <- sessionAnswer

AccountTopics == {"members", "sign-ins", "roles", "settings", "support"}
WorkflowTopics == {"drafts", "triggers", "runs", "approvals", "sharing", "shared"}
ExecTopics == {"secrets", "pairing", "devices", "toolsets", "builder"}
SessionTopics == {"sessions", "events", "bindings", "memory", "channels", "lists", "requests"}

accountVars == <<accounts, accountTx, invitationsExpired, accountAnswer>>
workflowVars == <<workflows, workflowTx, sharesExpired, workflowAnswer>>
execVars == <<exec, execTx, tokensExpired, execAnswer>>
sessionVars == <<sessions, sessionTx, sessionAnswer>>

\* No step depends on the last answer.
View == <<topic, accounts, accountTx, invitationsExpired, workflows, workflowTx, sharesExpired,
          exec, execTx, tokensExpired, sessions, sessionTx>>
Symmetry == Permutations({i1, i2}) \cup Permutations({o1, o2}) \cup Permutations(Clients)

Init ==
    /\ topic \in AccountTopics \cup WorkflowTopics \cup ExecTopics \cup SessionTopics
    /\ A!Init /\ W!Init /\ E!Init /\ S!Init

Size(rows) == Cardinality(rows)

-----------------------------------------------------------------------------
AccountsNext ==
    /\ topic \in AccountTopics
    /\ \/ /\ topic = "support" => A!UserIds = {}
          /\ \E e \in {o1, o2} : A!createUser(e)
       \/ /\ topic \in {"settings", "support"} /\ A!OrgIds = {}
          /\ \E u \in A!UserIds, s \in {o1, o2} : A!createOrganizationWithOwner(s, u)
       \/ /\ topic = "members" /\ A!MembersNext
          /\ Size(accounts'.organizations) + Size(accounts'.invitations) <= 3
          /\ \/ Size(accounts'.organizations) + Size(accounts'.invitations) <= 2
             \/ \A c \in Clients : accountTx'[c] = A!NoTx
       \/ topic = "sign-ins" /\ A!SessionsNext
       \/ topic = "roles" /\ A!RolesNext
       \/ topic = "settings" /\ A!SettingsNext
       \/ /\ topic = "support" /\ A!SupportNext
          /\ \A t \in {"tickets", "events", "audit"} : Size(accounts'[t]) <= 1
    /\ UNCHANGED <<workflowVars, execVars, sessionVars>>

\* A third id only for the drafts of one family of revisions.
WorkflowBounds ==
    /\ topic = "drafts" =>
          Size({w \in workflows'.workflows : w.revision = 1 \/ w.status = "published"}) <= 1
    /\ topic # "drafts" => \A t \in DOMAIN workflows : i3 \notin {r.id : r \in workflows'[t]}
    /\ topic \in {"approvals", "sharing", "shared"} => Size(workflows'.workflows) <= 1
    /\ topic \in {"approvals", "shared"} => Size(workflows'.events) <= 1 /\ Size(workflows'.runs) <= 1
    /\ topic = "shared" => /\ Size(workflows'.invitations) <= 1 /\ Size(workflows'.shares) <= 1
                           /\ Size({c \in Clients : workflowTx'[c] # W!NoTx}) <= 1

WorkflowsNext ==
    /\ topic \in WorkflowTopics
    /\ \/ /\ topic # "drafts"
          /\ \E o \in {o1, o2} : \/ W!createWorkflow(o, None)
                                 \/ topic = "triggers" /\ \E t \in Triggers : W!createWorkflow(o, t)
       \/ topic = "drafts" /\ W!DraftsNext
       \/ topic = "triggers" /\ W!TriggersNext
       \/ topic = "runs" /\ W!RunsNext
       \/ /\ topic \in {"approvals", "shared"}
          /\ \E o, u \in {o1, o2} : \E w \in W!WorkflowIds(o) :
               \/ W!createWorkflowRun(o, w, u, None)
               \/ \E r \in workflows.runs : topic = "shared" /\ W!appendWorkflowRunEvent(o, w, r.id)
               \/ \E r \in workflows.runs : topic = "approvals" /\ W!WorkerBlocks(r, v1)
       \/ topic = "approvals" /\ W!ApprovalsNext
       \/ topic \in {"sharing", "shared"} /\ W!SharingNext
       \/ topic = "shared" /\ W!SharedNext
    /\ WorkflowBounds
    /\ UNCHANGED <<accountVars, execVars, sessionVars>>

\* Rows of one table at a time for the devices. Two calls at a time for one
\* toolset; for two toolsets one, while both are their organizations' own.
ExecBounds ==
    /\ Size(exec'.toolsets) > 1 =>
         LET open == Size({c \in Clients : execTx'[c] # E!NoTx}) IN
         \/ open = 0
         \/ open = 1 /\ \A t \in exec'.toolsets : t.from = None
    /\ Size({t \in {"agents", "executors", "managed"} : exec'[t] # {}}) <= 1

ExecNext ==
    /\ topic \in ExecTopics
    /\ \/ topic = "secrets" /\ E!SecretsNext
       \/ topic = "pairing" /\ E!PairingNext
       \/ topic = "devices" /\ E!DevicesNext
       \/ topic = "toolsets" /\ E!ToolsetsNext
       \/ topic = "builder" /\ E!BuilderNext
    /\ ExecBounds
    /\ UNCHANGED <<accountVars, workflowVars, sessionVars>>

\* Three events of one session; two of the rows that hang on an account or on
\* a document.
SessionBounds ==
    /\ Size(sessions'.events) <= 3 /\ Size(sessions'.jobs) <= 1
    /\ Size(sessions'.sessions) <= 1 \/ Size(sessions'.events) <= 1
    /\ Size(sessions'.secrets) + Size(sessions'.entries) + Size(sessions'.notices) <= 2
    /\ Size(sessions'.documents) + Size(sessions'.chunks) <= 3

SessionsNext ==
    /\ topic \in SessionTopics
    /\ \/ topic = "sessions" /\ S!SessionsNext
       \/ topic = "events" /\ S!EventsNext
       \/ topic = "bindings" /\ S!BindingsNext
       \/ topic = "memory" /\ S!MemoryNext
       \/ topic = "channels" /\ S!AccountsNext
       \/ topic = "lists" /\ S!ListsNext
       \/ topic = "requests" /\ S!RequestsNext
    /\ SessionBounds
    /\ UNCHANGED <<accountVars, workflowVars, execVars>>

Next == UNCHANGED topic /\ (AccountsNext \/ WorkflowsNext \/ ExecNext \/ SessionsNext)

Spec == Init /\ [][Next]_<<topic, accountVars, workflowVars, execVars, sessionVars>>

-----------------------------------------------------------------------------
(* Memory!Spec of each family; while another family is called it is not     *)
(* looked at, since nothing of it changes.                                  *)

AccountsAgree ==
    A!Memory!Init /\ [][(topic \in AccountTopics => A!Memory!Next)]_<<A!Memory!vars>>
WorkflowsAgree ==
    W!Memory!Init /\ [][(topic \in WorkflowTopics => W!Memory!Next)]_<<W!Memory!vars>>
ExecAgree ==
    E!Memory!Init /\ [][(topic \in ExecTopics => E!Memory!Next)]_<<E!Memory!vars>>
SessionsAgree ==
    S!Memory!Init /\ [][(topic \in SessionTopics => S!Memory!Next \/ S!GivesKeyAgain)]_<<S!Memory!vars>>

\* Every call that the modules model, on the tables of accounts, organizations,
\* sign-ins and support; of workflows, triggers, runs, approvals and shares; of
\* secrets, pairing, devices and toolsets; of agent sessions, memory and channels
\* - its statements interleaved with those of other calls, changes and answers
\* what one atomic call of MemoryAppStore does (PgAppStore); save
\* createAgentSession with a key that a session has, where the database answers
\* that session and the in-memory store makes another
\* (repositories.ts:2914-2929, memory-store.ts:2483-2519).
StoresAgree == AccountsAgree /\ WorkflowsAgree /\ ExecAgree /\ SessionsAgree
=============================================================================
