------------------------------ MODULE LlmSecrets ------------------------------
(***************************************************************************)
(* The secrets language models are called with: kept by owners and admins, *)
(* and brought by two OAuth flows, a redirect to Google and back, and a    *)
(* device code that is polled.  What a flow has begun is in the memory of  *)
(* the API's process; the secret it ends in is created, or the one of its  *)
(* name is found and rotated, in as many statements, with anything         *)
(* between.                                                                *)
(***************************************************************************)
EXTENDS Naturals, FiniteSets

CONSTANTS
    Users, Orgs, Providers,
    Slots,
    MaxFlows,       \* bounds the flows begun
    MaxSecrets,     \* bounds the rows ever inserted
    None

VARIABLES
    admins,         \* <<user, org>> with the role of an owner or admin
    secrets,        \* rows: [id, org, connector, value], one name per connector
    made,
    flows,          \* begun: [id, user, org, provider], by redirect or device code
    begun,
    req,            \* the request a slot serves
    written,        \* values that were stored in some row
    missed,         \* values whose row was gone when it was rotated
    connected       \* flows whose user was told success

vars == <<admins, secrets, made, flows, begun, req, written, missed, connected>>

Init ==
    /\ admins = Users \X Orgs
    /\ secrets = {} /\ made = 0
    /\ flows = {} /\ begun = 0
    /\ req = [s \in Slots |-> None]
    /\ written = {} /\ missed = {} /\ connected = {}

IsAdmin(u, o) == <<u, o>> \in admins
Named(o, connector) == {k \in secrets : k.org = o /\ k.connector = connector}
Found(s) == Named(req[s].org, req[s].flow.provider)
Answer(s) == req' = [req EXCEPT ![s] = None]
At(s, step) == req[s] # None /\ req[s].at = step

(* Members lose and get the role by the routes of module Organizations. *)
updateMembershipRole(u, o) ==
    /\ admins' = IF IsAdmin(u, o) THEN admins \ {<<u, o>>} ELSE admins \cup {<<u, o>>}
    /\ UNCHANGED <<secrets, made, flows, begun, req, written, missed, connected>>

-----------------------------------------------------------------------------
(* The routes of secrets: the value 0 stands for one a user typed in. *)
insert(o, connector, v) ==
    /\ made < MaxSecrets
    /\ made' = made + 1
    /\ secrets' = secrets \cup {[id |-> made + 1, org |-> o, connector |-> connector, value |-> v]}
    /\ written' = written \cup {v}

createSecret(u, o, connector) ==
    /\ IsAdmin(u, o) /\ Named(o, connector) = {}
    /\ insert(o, connector, 0)
    /\ UNCHANGED <<admins, flows, begun, req, missed, connected>>

rotateSecret(u, k) ==
    /\ k \in secrets /\ IsAdmin(u, k.org) /\ k.value # 0
    /\ secrets' = (secrets \ {k}) \cup {[k EXCEPT !.value = 0]}
    /\ UNCHANGED <<admins, made, flows, begun, req, written, missed, connected>>

deleteSecret(u, k) ==
    /\ k \in secrets /\ IsAdmin(u, k.org)
    /\ secrets' = secrets \ {k}
    /\ UNCHANGED <<admins, made, flows, begun, req, written, missed, connected>>

-----------------------------------------------------------------------------
(* A flow begins: an admin is sent to the provider, or given a device code. *)
Begin(u, o, provider) ==
    /\ IsAdmin(u, o) /\ begun < MaxFlows
    /\ begun' = begun + 1
    /\ flows' = flows \cup {[id |-> begun + 1, user |-> u, org |-> o, provider |-> provider]}
    /\ UNCHANGED <<admins, secrets, made, req, written, missed, connected>>

startRedirect(u, o) == Begin(u, o, "vertex")

startDevice(u, o, provider) == provider # "vertex" /\ Begin(u, o, provider)

(* The redirect comes back to the user it left from; its state serves once.  *)
(* The role is not asked for again.                                          *)
vertexCallback(s, f) ==
    /\ req[s] = None /\ f \in flows /\ f.provider = "vertex"
    /\ flows' = flows \ {f}
    /\ req' = [req EXCEPT ![s] = [at |-> "exchange", flow |-> f, org |-> f.org, secret |-> None]]
    /\ UNCHANGED <<admins, secrets, made, begun, written, missed, connected>>

exchangeCodeForConnection(s) ==
    /\ At(s, "exchange")
    /\ \/ req' = [req EXCEPT ![s].at = "store"]
       \/ Answer(s)
    /\ UNCHANGED <<admins, secrets, made, flows, begun, written, missed, connected>>

devicePoll_AnyOrg(s, u, o, f) ==
    /\ req[s] = None /\ f \in flows /\ f.provider # "vertex" /\ IsAdmin(u, o)
    /\ req' = [req EXCEPT ![s] = [at |-> "store", flow |-> f, org |-> o, secret |-> None]]
    /\ UNCHANGED <<admins, secrets, made, flows, begun, written, missed, connected>>

(* A poll with the token, by any admin of the organization the code is for. *)
devicePoll(s, u, o, f) ==
    /\ req[s] = None /\ f \in flows /\ f.provider # "vertex" /\ IsAdmin(u, o) /\ f.org = o
    /\ req' = [req EXCEPT ![s] = [at |-> "store", flow |-> f, org |-> o, secret |-> None]]
    /\ UNCHANGED <<admins, secrets, made, flows, begun, written, missed, connected>>

createConnectorSecret_TakesExisting(s) ==
    /\ At(s, "store")
    /\ IF Found(s) = {}
       THEN insert(req[s].org, req[s].flow.provider, req[s].flow.id)
       ELSE UNCHANGED <<secrets, made, written>>
    /\ req' = [req EXCEPT ![s].at = "done"]
    /\ UNCHANGED <<admins, flows, begun, missed, connected>>

createConnectorSecret_NoIndex(s) ==
    /\ At(s, "store")
    /\ insert(req[s].org, req[s].flow.provider, req[s].flow.id)
    /\ req' = [req EXCEPT ![s].at = "done"]
    /\ UNCHANGED <<admins, flows, begun, missed, connected>>

(* SECRET_ALREADY_EXISTS sends the flow to look for the row. *)
createConnectorSecret(s) ==
    /\ At(s, "store")
    /\ \/ /\ Found(s) = {}
          /\ insert(req[s].org, req[s].flow.provider, req[s].flow.id)
          /\ req' = [req EXCEPT ![s].at = "done"]
       \/ /\ Found(s) # {}
          /\ req' = [req EXCEPT ![s].at = "find"]
          /\ UNCHANGED <<secrets, made, written>>
    /\ UNCHANGED <<admins, flows, begun, missed, connected>>

listConnectorSecrets(s) ==
    /\ At(s, "find")
    /\ \/ \E k \in Found(s) :
             req' = [req EXCEPT ![s].at = "rotate", ![s].secret = k.id]
       \/ Found(s) = {} /\ Answer(s)
    /\ UNCHANGED <<admins, secrets, made, flows, begun, written, missed, connected>>

Hit(s) == {k \in secrets : k.id = req[s].secret}

(* The row that was found is rotated; that it is gone is not noticed. *)
rotateConnectorSecret(s) ==
    /\ At(s, "rotate")
    /\ LET hit == Hit(s)
       IN  /\ secrets' = (secrets \ hit) \cup {[k EXCEPT !.value = req[s].flow.id] : k \in hit}
           /\ written' = IF hit = {} THEN written ELSE written \cup {req[s].flow.id}
           /\ missed' = IF hit = {} THEN missed \cup {req[s].flow.id} ELSE missed
    /\ req' = [req EXCEPT ![s].at = "done"]
    /\ UNCHANGED <<admins, made, flows, begun, connected>>

(* The user is told; a device code serves until then. *)
answerConnected(s) ==
    /\ At(s, "done")
    /\ connected' = connected \cup {req[s].flow}
    /\ flows' = flows \ {req[s].flow}
    /\ Answer(s)
    /\ UNCHANGED <<admins, secrets, made, begun, written, missed>>

(* The process restarts and forgets every flow; or a flow expires. *)
apiRestarts ==
    /\ flows # {} \/ \E s \in Slots : req[s] # None
    /\ flows' = {} /\ req' = [s \in Slots |-> None]
    /\ UNCHANGED <<admins, secrets, made, begun, written, missed, connected>>

flowExpires(f) ==
    /\ f \in flows
    /\ flows' = flows \ {f}
    /\ UNCHANGED <<admins, secrets, made, begun, req, written, missed, connected>>

Next ==
    \/ \E u \in Users, o \in Orgs :
          \/ updateMembershipRole(u, o)
          \/ \E p \in Providers : createSecret(u, o, p) \/ startDevice(u, o, p)
          \/ startRedirect(u, o)
    \/ \E u \in Users, k \in secrets : rotateSecret(u, k) \/ deleteSecret(u, k)
    \/ \E s \in Slots :
          \/ \E f \in flows : vertexCallback(s, f) \/ \E u \in Users, o \in Orgs : devicePoll(s, u, o, f)
          \/ exchangeCodeForConnection(s) \/ createConnectorSecret(s) \/ listConnectorSecrets(s)
          \/ rotateConnectorSecret(s) \/ answerConnected(s)
    \/ apiRestarts
    \/ \E f \in flows : flowExpires(f)

Spec == Init /\ [][Next]_vars

-----------------------------------------------------------------------------
(* One secret of a name for a connector, however many flows and requests    *)
(* find none and create it at once (SECRET_ALREADY_EXISTS).                  *)
OneSecretPerName ==
    \A k, l \in secrets : k.org = l.org /\ k.connector = l.connector => k = l

(* A flow whose user was told that it is connected has stored what it        *)
(* brought, whether it created the secret or found it taken, unless the row  *)
(* it found was deleted before it was rotated (server.ts:3853-3882).         *)
ConnectedWasStored == \A f \in connected : f.id \in written \cup missed

(* What a flow brought is a secret of the organization and the provider it   *)
(* was begun for, whoever polls for it.                                      *)
SecretsStayInTheirFlow ==
    \A s \in Slots : At(s, "rotate") \/ At(s, "done") => req[s].org = req[s].flow.org

(* The three together: what is kept of what providers hand out.              *)
SecretsHold == OneSecretPerName /\ ConnectedWasStored /\ SecretsStayInTheirFlow

(* What does not hold: a user is told success and nothing was stored.        *)
ConnectedIsStored == \A f \in connected : f.id \in written

(* Nor does this: who brings a secret is an admin when it is stored.         *)
StoredByAdmins ==
    [][\A k \in secrets' \ secrets : \A s \in Slots :
        At(s, "store") /\ req[s].flow.id = k.value => IsAdmin(req[s].flow.user, k.org)]_vars
=============================================================================
