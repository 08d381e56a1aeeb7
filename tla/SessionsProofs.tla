----------------------------- MODULE SessionsProofs -----------------------------
(***************************************************************************)
(* What users see and keep, for every number of users, organizations,      *)
(* sessions, clients, edges, toolsets and requests: an inductive invariant *)
(* of each scene of MCSessions, and the properties of the run that follow  *)
(* from them.                                                              *)
(***************************************************************************)
EXTENDS MCSessions, FiniteSetTheorems, SequenceTheorems, TLAPS

(* What is proved about is what the routes and flows build: a secret is of a *)
(* connector, "vertex" or one of the others, and a request serves one flow.  *)
Kinds == Providers \cup {"vertex"}
Flow == [id : Nat, user : Users, org : Orgs, provider : Kinds]
Secret == [id : Nat, org : Orgs, connector : Kinds, value : Nat]
Request == [at : {"exchange", "store", "find", "rotate", "done"}, flow : Flow, org : Orgs,
            secret : Nat \cup {None}]

RowsTyped ==
    /\ made \in Nat /\ begun \in Nat
    /\ secrets \subseteq Secret /\ flows \subseteq Flow
ServesItsFlow(s) ==
    req[s] # None =>
        /\ req[s] \in Request /\ req[s].org = req[s].flow.org
        /\ req[s].at = "done" => req[s].flow.id \in written \cup missed
SlotsServe ==
    /\ DOMAIN req = Slots /\ req = [s \in Slots |-> req[s]]
    /\ \A s \in Slots : ServesItsFlow(s)
ConnectedTyped == connected \subseteq Flow

IInv == RowsTyped /\ SlotsServe /\ ConnectedTyped /\ OneSecretPerName /\ ConnectedWasStored

(* In the initial state nothing has begun.                                   *)
LEMMA InitIInv == Init => IInv
BY DEF Init, IInv, RowsTyped, SlotsServe, ServesItsFlow, ConnectedTyped, OneSecretPerName,
       ConnectedWasStored

(* A row that is inserted under a name nobody has keeps the names apart      *)
(* (createConnectorSecret and its unique index).                             *)
LEMMA InsertKeepsNames ==
    ASSUME NEW o \in Orgs, NEW c \in Kinds, NEW v \in Nat,
           RowsTyped, OneSecretPerName, Named(o, c) = {}, insert(o, c, v)
    PROVE  /\ made' \in Nat /\ secrets' \subseteq Secret
           /\ OneSecretPerName' /\ written' = written \cup {v}
BY DEF RowsTyped, OneSecretPerName, Named, insert, Secret

(* Rows whose value is replaced keep their names (rotateConnectorSecret).    *)
LEMMA RotateKeepsNames ==
    ASSUME NEW hit \in SUBSET secrets, NEW v \in Nat, RowsTyped, OneSecretPerName,
           secrets' = (secrets \ hit) \cup {[k EXCEPT !.value = v] : k \in hit}
    PROVE  secrets' \subseteq Secret /\ OneSecretPerName'
<1> DEFINE new(k) == [k EXCEPT !.value = v]
<1>1. \A k \in hit : new(k) \in Secret /\ new(k).org = k.org /\ new(k).connector = k.connector
  BY DEF RowsTyped, Secret
<1>2. secrets' \subseteq Secret
  BY <1>1 DEF RowsTyped
<1>3. ASSUME NEW k \in secrets', NEW l \in secrets', k.org = l.org, k.connector = l.connector
      PROVE  k = l
  <2>1. PICK a \in secrets : /\ a.org = k.org /\ a.connector = k.connector
                            /\ IF a \in hit THEN k = new(a) ELSE k = a
    BY <1>1
  <2>2. PICK b \in secrets : /\ b.org = l.org /\ b.connector = l.connector
                            /\ IF b \in hit THEN l = new(b) ELSE l = b
    BY <1>1
  <2>3. a = b
    BY <1>3, <2>1, <2>2 DEF OneSecretPerName
  <2> QED
    BY <2>1, <2>2, <2>3
<1> QED
  BY <1>2, <1>3 DEF OneSecretPerName

(* A slot whose request goes on in the same organization still serves its    *)
(* flow, and the others do.                                                  *)
LEMMA SlotGoesOn ==
    ASSUME NEW s \in Slots, SlotsServe, NEW r, req' = [req EXCEPT ![s] = r],
           written \subseteq written', missed \subseteq missed',
           r # None => /\ r \in Request /\ r.org = r.flow.org
                       /\ r.at = "done" => r.flow.id \in (written \cup missed)'
    PROVE  SlotsServe'
BY DEF SlotsServe, ServesItsFlow

(* Every action preserves it.                                                *)
LEMMA NextIInv == IInv /\ [Next]_vars => IInv'
<1> SUFFICES ASSUME IInv, [Next]_vars PROVE IInv'
  OBVIOUS
<1> USE DEF IInv
<1>1. ASSUME NEW u \in Users, NEW o \in Orgs, updateMembershipRole(u, o) PROVE IInv'
  BY <1>1 DEF updateMembershipRole, RowsTyped, SlotsServe, ServesItsFlow, ConnectedTyped,
              OneSecretPerName, ConnectedWasStored
<1>2. ASSUME NEW u \in Users, NEW o \in Orgs, NEW p \in Providers, createSecret(u, o, p)
      PROVE  IInv'
  <2>1. /\ Named(o, p) = {} /\ insert(o, p, 0)
        /\ UNCHANGED <<admins, flows, begun, req, missed, connected>>
    BY <1>2 DEF createSecret
  <2>2. /\ made' \in Nat /\ secrets' \subseteq Secret
        /\ OneSecretPerName' /\ written' = written \cup {0}
    BY <2>1, InsertKeepsNames DEF Kinds
  <2> QED
    BY <2>1, <2>2 DEF RowsTyped, SlotsServe, ServesItsFlow, ConnectedTyped, ConnectedWasStored
<1>3. ASSUME NEW u \in Users, NEW o \in Orgs, NEW p \in Kinds, Begin(u, o, p) PROVE IInv'
  BY <1>3 DEF Begin, Flow, RowsTyped, SlotsServe, ServesItsFlow, ConnectedTyped, OneSecretPerName,
              ConnectedWasStored
<1>4. ASSUME NEW u \in Users, NEW k \in secrets, rotateSecret(u, k) PROVE IInv'
  <2>1. /\ secrets' = (secrets \ {k}) \cup {[x EXCEPT !.value = 0] : x \in {k}}
        /\ UNCHANGED <<admins, made, flows, begun, req, written, missed, connected>>
    BY <1>4 DEF rotateSecret
  <2>2. {k} \in SUBSET secrets /\ 0 \in Nat
    OBVIOUS
  <2>3. secrets' \subseteq Secret /\ OneSecretPerName'
    BY ONLY <2>1, <2>2, IInv, RotateKeepsNames, Zenon DEF IInv
  <2> QED
    BY <2>1, <2>3 DEF RowsTyped, SlotsServe, ServesItsFlow, ConnectedTyped, ConnectedWasStored
<1>5. ASSUME NEW u \in Users, NEW k \in secrets, deleteSecret(u, k) PROVE IInv'
  BY <1>5 DEF deleteSecret, RowsTyped, SlotsServe, ServesItsFlow, ConnectedTyped, OneSecretPerName,
              ConnectedWasStored
<1>6. ASSUME NEW s \in Slots, NEW f \in flows, vertexCallback(s, f) PROVE IInv'
  <2>1. SlotsServe'
    BY <1>6, SlotGoesOn DEF vertexCallback, Request, RowsTyped, Flow
  <2> QED
    BY <1>6, <2>1 DEF vertexCallback, RowsTyped, ConnectedTyped, OneSecretPerName,
                      ConnectedWasStored
<1>7. ASSUME NEW s \in Slots, NEW f \in flows, NEW u \in Users, NEW o \in Orgs,
             devicePoll(s, u, o, f)
      PROVE  IInv'
  <2>1. SlotsServe'
    BY <1>7, SlotGoesOn DEF devicePoll, Request, RowsTyped, Flow
  <2> QED
    BY <1>7, <2>1 DEF devicePoll, RowsTyped, ConnectedTyped, OneSecretPerName, ConnectedWasStored
<1>8. ASSUME NEW s \in Slots, exchangeCodeForConnection(s) PROVE IInv'
  <2>1. SlotsServe'
    BY <1>8, SlotGoesOn DEF exchangeCodeForConnection, At, Answer, SlotsServe, ServesItsFlow, Request
  <2> QED
    BY <1>8, <2>1 DEF exchangeCodeForConnection, RowsTyped, ConnectedTyped, OneSecretPerName,
                      ConnectedWasStored
<1>9. ASSUME NEW s \in Slots, createConnectorSecret(s) PROVE IInv'
  <2>1. /\ At(s, "store") /\ req[s] \in Request /\ req[s].org = req[s].flow.org
        /\ UNCHANGED <<admins, flows, begun, missed, connected>>
    BY <1>9 DEF createConnectorSecret, At, SlotsServe, ServesItsFlow
  <2>2. CASE /\ Found(s) = {} /\ insert(req[s].org, req[s].flow.provider, req[s].flow.id)
             /\ req' = [req EXCEPT ![s].at = "done"]
    <3>1. /\ req[s].org \in Orgs /\ req[s].flow.provider \in Kinds /\ req[s].flow.id \in Nat
      BY <2>1 DEF Request, Flow
    <3>2. /\ made' \in Nat /\ secrets' \subseteq Secret
          /\ OneSecretPerName' /\ written' = written \cup {req[s].flow.id}
      BY <2>2, <3>1, InsertKeepsNames DEF Found
    <3>3. SlotsServe'
      BY <2>1, <2>2, <3>2, SlotGoesOn DEF Request
    <3> QED
      BY <2>1, <3>2, <3>3 DEF RowsTyped, ConnectedTyped, ConnectedWasStored
  <2>3. CASE req' = [req EXCEPT ![s].at = "find"] /\ UNCHANGED <<secrets, made, written>>
    <3>1. SlotsServe'
      BY <2>1, <2>3, SlotGoesOn DEF Request
    <3> QED
      BY <2>1, <2>3, <3>1 DEF RowsTyped, ConnectedTyped, OneSecretPerName, ConnectedWasStored
  <2> QED
    BY <1>9, <2>2, <2>3 DEF createConnectorSecret
<1>10. ASSUME NEW s \in Slots, listConnectorSecrets(s) PROVE IInv'
  <2>1. /\ At(s, "find") /\ req[s] \in Request /\ req[s].org = req[s].flow.org
        /\ UNCHANGED <<admins, secrets, made, flows, begun, written, missed, connected>>
    BY <1>10 DEF listConnectorSecrets, At, SlotsServe, ServesItsFlow
  <2>2. CASE Answer(s)
    BY <2>1, <2>2, SlotGoesOn DEF Answer, RowsTyped, ConnectedTyped, OneSecretPerName, ConnectedWasStored
  <2>3. ASSUME NEW k \in Found(s),
               req' = [req EXCEPT ![s].at = "rotate", ![s].secret = k.id]
        PROVE  IInv'
    <3>1. k.id \in Nat
      BY DEF Found, Named, RowsTyped, Secret
    <3>2. req' = [req EXCEPT ![s] = [req[s] EXCEPT !.at = "rotate", !.secret = k.id]]
      BY <2>1, <2>3 DEF SlotsServe, Request
    <3>3. /\ [req[s] EXCEPT !.at = "rotate", !.secret = k.id] \in Request
          /\ [req[s] EXCEPT !.at = "rotate", !.secret = k.id].at # "done"
          /\ [req[s] EXCEPT !.at = "rotate", !.secret = k.id].org = req[s].org
          /\ [req[s] EXCEPT !.at = "rotate", !.secret = k.id].flow = req[s].flow
      BY <2>1, <3>1 DEF Request
    <3>4. SlotsServe'
      BY <2>1, <3>2, <3>3, SlotGoesOn
    <3> QED
      BY <2>1, <3>4 DEF RowsTyped, ConnectedTyped, OneSecretPerName, ConnectedWasStored
  <2> QED
    BY <1>10, <2>2, <2>3 DEF listConnectorSecrets
<1>11. ASSUME NEW s \in Slots, rotateConnectorSecret(s) PROVE IInv'
  <2> DEFINE v == req[s].flow.id
  <2>1. /\ req[s] \in Request /\ req[s].org = req[s].flow.org /\ v \in Nat
        /\ secrets' = (secrets \ Hit(s)) \cup {[k EXCEPT !.value = v] : k \in Hit(s)}
        /\ written \subseteq written' /\ missed \subseteq missed' /\ v \in (written \cup missed)'
        /\ req' = [req EXCEPT ![s].at = "done"]
        /\ UNCHANGED <<admins, made, flows, begun, connected>>
    BY <1>11 DEF rotateConnectorSecret, At, SlotsServe, ServesItsFlow, Request, Flow
  <2>2. secrets' \subseteq Secret /\ OneSecretPerName'
    BY <2>1, RotateKeepsNames DEF Hit
  <2>3. SlotsServe'
    BY <2>1, SlotGoesOn DEF Request
  <2> QED
    BY <2>1, <2>2, <2>3 DEF RowsTyped, ConnectedTyped, ConnectedWasStored
<1>12. ASSUME NEW s \in Slots, answerConnected(s) PROVE IInv'
  <2>1. SlotsServe'
    BY <1>12, SlotGoesOn DEF answerConnected, Answer
  <2> QED
    BY <1>12, <2>1 DEF answerConnected, At, SlotsServe, ServesItsFlow, Request, RowsTyped,
                       ConnectedTyped, OneSecretPerName, ConnectedWasStored
<1>13. CASE apiRestarts
  BY <1>13 DEF apiRestarts, RowsTyped, SlotsServe, ServesItsFlow, ConnectedTyped, OneSecretPerName,
               ConnectedWasStored
<1>14. ASSUME NEW f \in flows, flowExpires(f) PROVE IInv'
  BY <1>14 DEF flowExpires, RowsTyped, SlotsServe, ServesItsFlow, ConnectedTyped, OneSecretPerName,
               ConnectedWasStored
<1>15. CASE UNCHANGED vars
  BY <1>15 DEF vars, RowsTyped, SlotsServe, ServesItsFlow, ConnectedTyped, OneSecretPerName,
               ConnectedWasStored
<1> QED
  BY <1>1, <1>2, <1>3, <1>4, <1>5, <1>6, <1>7, <1>8, <1>9, <1>10, <1>11, <1>12, <1>13, <1>14, <1>15
     DEF Next, startDevice, startRedirect, Kinds

(* A connector has one secret of its name in every reachable state, for any  *)
(* number of users, flows and requests served at once.                       *)
THEOREM NamesAreUnique == Spec => []OneSecretPerName
<1>1. IInv => OneSecretPerName
  BY DEF IInv
<1> QED
  BY <1>1, InitIInv, NextIInv, PTL DEF Spec

(* Who is told that a provider is connected had its secret stored, or the    *)
(* row it found was deleted before it was rotated.                           *)
THEOREM ToldWhenStored == Spec => []ConnectedWasStored
<1>1. IInv => ConnectedWasStored
  BY DEF IInv
<1> QED
  BY <1>1, InitIInv, NextIInv, PTL DEF Spec

(* What a flow brings is stored for the organization it was begun for.       *)
THEOREM FlowsKeepTheirOrganization == Spec => []SecretsStayInTheirFlow
<1>1. IInv => SecretsStayInTheirFlow
  BY DEF IInv, SlotsServe, ServesItsFlow, SecretsStayInTheirFlow, At
<1> QED
  BY <1>1, InitIInv, NextIInv, PTL DEF Spec
(* The three hold together in every reachable state: what is kept of what    *)
(* providers hand out.                                                       *)
THEOREM SecretsAreKept == Spec => []SecretsHold
<1>1. IInv => SecretsHold
  BY DEF IInv, SlotsServe, ServesItsFlow, SecretsStayInTheirFlow, At, SecretsHold
<1> QED
  BY <1>1, InitIInv, NextIInv, PTL DEF Spec
-----------------------------------------------------------------------------
(* The gallery of toolsets.  A row is what the routes build, and so is the   *)
(* request a slot serves, whose shape goes with how far it is.               *)
Toolset ==
    [id : Nat, org : Orgs, visibility : Unpublished \cup {"public"}, slug : Slugs \cup {None},
     content : Contents, from : [id : Nat, slug : Slugs \cup {None}, content : Contents] \cup {None}]

PutRequest == [at : {"put"}, org : Orgs, id : Nat, visibility : Unpublished, content : Contents]
EditRequest ==
    [at : {"edit"}, org : Orgs, id : Nat, visibility : Unpublished, content : Contents,
     slug : Slugs \cup {None}]
PublishRequest == [at : {"publish"}, org : Orgs, id : Nat, slug : Slugs]
AdoptRequest == [at : {"adopt"}, org : Orgs, source : Toolset]

\* The content a public row has, or a request copies, was once in the gallery.
WasShown(t) == <<t.id, t.slug, t.content>> \in shown
ServesToolset(r) ==
    \/ r \in PutRequest \cup EditRequest \cup PublishRequest
    \/ r \in AdoptRequest /\ WasShown(r.source)

GalleryRows ==
    /\ tooMade \in Nat /\ toolsets \subseteq Toolset
    /\ Too!OneToolsetPerSlug /\ Too!PublishedContentStays /\ Too!AdoptedWasShown
GallerySlots ==
    /\ tooReq = [s \in Slots |-> tooReq[s]]
    /\ \A s \in Slots : tooReq[s] = None \/ ServesToolset(tooReq[s])
GalleryInv == GalleryRows /\ GallerySlots

(* In the initial state there is no toolset.                                 *)
LEMMA InitGallery == Too!Init => GalleryInv
BY DEF Too!Init, GalleryInv, GalleryRows, GallerySlots, Too!OneToolsetPerSlug,
       Too!PublishedContentStays, Too!AdoptedWasShown

(* One row is written, whichever others go: when it is public, it has been   *)
(* shown and no row that stays has its slug.                                 *)
LEMMA RowIsWritten ==
    ASSUME GalleryRows, NEW t \in Toolset, tooMade' \in Nat, shown \subseteq shown',
           \A u \in toolsets' : u = t \/ u \in toolsets,
           t.visibility = "public" =>
               /\ <<t.id, t.slug, t.content>> \in shown'
               /\ \A u \in toolsets' : u.visibility = "public" /\ u.slug = t.slug => u = t,
           t.from # None => <<t.from.id, t.from.slug, t.from.content>> \in shown'
    PROVE  GalleryRows'
<1>1. toolsets' \subseteq Toolset
  BY DEF GalleryRows
<1>2. ASSUME NEW u \in toolsets', NEW v \in toolsets', u.visibility = "public",
             v.visibility = "public", u.slug = v.slug
      PROVE  u = v
  BY <1>2 DEF GalleryRows, Too!OneToolsetPerSlug
<1>3. ASSUME NEW u \in toolsets', u.visibility = "public"
      PROVE  <<u.id, u.slug, u.content>> \in shown'
  BY <1>3 DEF GalleryRows, Too!PublishedContentStays
<1>4. ASSUME NEW u \in toolsets', u.from # None
      PROVE  <<u.from.id, u.from.slug, u.from.content>> \in shown'
  BY <1>4 DEF GalleryRows, Too!AdoptedWasShown
<1> QED
  BY <1>1, <1>2, <1>3, <1>4 DEF GalleryRows, Too!OneToolsetPerSlug, Too!PublishedContentStays,
     Too!AdoptedWasShown

(* A slot goes on to another request, or to none.                            *)
LEMMA ToolsetSlotMoves ==
    ASSUME GallerySlots, NEW s \in Slots, NEW r, tooReq' = [tooReq EXCEPT ![s] = r],
           shown \subseteq shown',
           \/ r = None
           \/ r \in PutRequest \cup EditRequest \cup PublishRequest
           \/ r \in AdoptRequest /\ <<r.source.id, r.source.slug, r.source.content>> \in shown'
    PROVE  GallerySlots'
BY DEF GallerySlots, ServesToolset, WasShown

(* Every action keeps it.                                                    *)
LEMMA NextGallery == GalleryInv /\ [Too!Next]_tooVars => GalleryInv'
<1> SUFFICES ASSUME GalleryInv, [Too!Next]_tooVars PROVE GalleryInv'
  OBVIOUS
<1> USE GalleryAssumption DEF GalleryInv
<1>r. ASSUME NEW s \in Slots, tooReq[s] # None
      PROVE  /\ tooReq[s].at = "put" => tooReq[s] \in PutRequest
             /\ tooReq[s].at = "edit" => tooReq[s] \in EditRequest
             /\ tooReq[s].at = "publish" => tooReq[s] \in PublishRequest
             /\ tooReq[s].at = "adopt" => tooReq[s] \in AdoptRequest /\ WasShown(tooReq[s].source)
  BY <1>r DEF GallerySlots, ServesToolset, PutRequest, EditRequest, PublishRequest, AdoptRequest
<1>s. ASSUME UNCHANGED <<toolsets, tooMade, shown>> PROVE GalleryRows'
  BY <1>s DEF GalleryRows, Too!OneToolsetPerSlug, Too!PublishedContentStays, Too!AdoptedWasShown
<1>t. ASSUME UNCHANGED tooReq, shown \subseteq shown' PROVE GallerySlots'
  BY <1>t DEF GallerySlots, ServesToolset, WasShown
<1>1. ASSUME NEW org \in Orgs, NEW v \in Unpublished, NEW c \in Contents,
             Too!createAgentToolset(org, v, c)
      PROVE  GalleryInv'
  <2> DEFINE t == [id |-> tooMade + 1, org |-> org, visibility |-> v, slug |-> None,
                   content |-> c, from |-> None]
  <2>1. tooMade + 1 \in Nat
    BY DEF GalleryRows
  <2>2. t \in Toolset /\ t.visibility # "public" /\ t.from = None
    BY <2>1 DEF Toolset
  <2>3. /\ toolsets' = toolsets \cup {t} /\ tooMade' = tooMade + 1
        /\ UNCHANGED <<shown, tooReq>>
    BY <1>1 DEF Too!createAgentToolset, Too!insert
  <2> HIDE DEF t
  <2>4. GalleryRows'
    BY <2>1, <2>2, <2>3, RowIsWritten
  <2> QED
    BY <2>3, <2>4, <1>t
<1>2. ASSUME NEW t \in toolsets, Too!deleteAgentToolset(t) PROVE GalleryInv'
  <2>1. toolsets' \subseteq toolsets /\ UNCHANGED <<tooMade, shown, tooReq>>
    BY <1>2 DEF Too!deleteAgentToolset
  <2>2. GalleryRows'
    BY <2>1 DEF GalleryRows, Too!OneToolsetPerSlug, Too!PublishedContentStays, Too!AdoptedWasShown
  <2> QED
    BY <2>1, <2>2, <1>t
<1>3. ASSUME NEW org \in Orgs, NEW id, NEW v \in Unpublished,
             Too!unpublishAgentToolset(org, id, v)
      PROVE  GalleryInv'
  <2>1. PICK t \in toolsets : Too!Put([t EXCEPT !.visibility = v, !.slug = None])
    BY <1>3 DEF Too!unpublishAgentToolset, Too!Rows
  <2> DEFINE u == [t EXCEPT !.visibility = v, !.slug = None]
  <2>2. /\ t \in Toolset /\ t.content \in Contents
        /\ t.from # None => <<t.from.id, t.from.slug, t.from.content>> \in shown
    BY DEF GalleryRows, Toolset, Too!AdoptedWasShown
  <2>3. u \in Toolset /\ u.visibility # "public" /\ u.from = t.from
    BY <2>2 DEF Toolset
  <2>4. /\ toolsets' = {w \in toolsets : w.id # u.id} \cup {u}
        /\ UNCHANGED <<tooMade, shown, tooReq>>
    BY <1>3, <2>1 DEF Too!unpublishAgentToolset, Too!Put
  <2> HIDE DEF u
  <2>5. tooMade' \in Nat
    BY <2>4 DEF GalleryRows
  <2>6. GalleryRows'
    BY <2>2, <2>3, <2>4, <2>5, RowIsWritten
  <2> QED
    BY <2>4, <2>6, <1>t
<1>4. ASSUME NEW s \in Slots, NEW org \in Orgs, NEW v \in Unpublished, NEW c \in Contents,
             Too!putToolset(s, org, v, c)
      PROVE  GalleryInv'
  <2>1. PICK t \in toolsets :
          tooReq' = [tooReq EXCEPT ![s] = [at |-> "put", org |-> org, id |-> t.id,
                                           visibility |-> v, content |-> c]]
    BY <1>4 DEF Too!putToolset
  <2>2. [at |-> "put", org |-> org, id |-> t.id, visibility |-> v, content |-> c] \in PutRequest
    BY DEF PutRequest, GalleryRows, Toolset
  <2>3. UNCHANGED <<toolsets, tooMade, shown>>
    BY <1>4 DEF Too!putToolset
  <2> QED
    BY <2>1, <2>2, <2>3, <1>s, ToolsetSlotMoves
<1>5. ASSUME NEW s \in Slots, Too!existingToolset(s) PROVE GalleryInv'
  <2>1. /\ tooReq[s] \in PutRequest /\ UNCHANGED <<toolsets, tooMade, shown>>
    BY <1>5, <1>r DEF Too!existingToolset
  <2>2. CASE Too!Answer(s)
    BY <2>1, <2>2, <1>s, ToolsetSlotMoves DEF Too!Answer
  <2>3. ASSUME NEW t \in toolsets,
               tooReq' = [tooReq EXCEPT ![s] = [at |-> "edit", org |-> t.org, id |-> t.id,
                                                visibility |-> tooReq[s].visibility,
                                                content |-> tooReq[s].content,
                                                slug |-> t.slug]]
        PROVE  GalleryInv'
    <3>1. t.org \in Orgs /\ t.id \in Nat /\ t.slug \in Slugs \cup {None}
      BY DEF GalleryRows, Toolset
    <3>2. tooReq[s].visibility \in Unpublished /\ tooReq[s].content \in Contents
      BY <2>1 DEF PutRequest
    <3>3. [at |-> "edit", org |-> t.org, id |-> t.id, visibility |-> tooReq[s].visibility,
           content |-> tooReq[s].content, slug |-> t.slug] \in EditRequest
      BY <3>1, <3>2 DEF EditRequest
    <3> QED
      BY <2>1, <2>3, <3>3, <1>s, ToolsetSlotMoves
  <2> QED
    BY <1>5, <2>2, <2>3 DEF Too!existingToolset, Too!Rows
<1>6. ASSUME NEW s \in Slots, Too!updateAgentToolset(s) PROVE GalleryInv'
  <2>1. tooReq[s] \in EditRequest /\ Too!Answer(s) /\ UNCHANGED <<tooMade, shown>>
    BY <1>6, <1>r DEF Too!updateAgentToolset
  <2>2. GallerySlots'
    BY <2>1, ToolsetSlotMoves DEF Too!Answer
  <2>3. CASE UNCHANGED toolsets
    BY <2>1, <2>2, <2>3, <1>s
  <2>4. ASSUME NEW t \in toolsets, Too!Put(Too!Edited(s, t)) PROVE GalleryInv'
    <3> DEFINE u == Too!Edited(s, t)
    <3>1. /\ t \in Toolset
          /\ t.from # None => <<t.from.id, t.from.slug, t.from.content>> \in shown
      BY DEF GalleryRows, Too!AdoptedWasShown
    <3>2. /\ tooReq[s].visibility \in Unpublished /\ tooReq[s].content \in Contents
          /\ tooReq[s].slug \in Slugs \cup {None}
      BY <2>1 DEF EditRequest
    <3>3. u \in Toolset /\ u.visibility # "public" /\ u.from = t.from
      BY <3>1, <3>2 DEF Too!Edited, Toolset
    <3>4. toolsets' = {w \in toolsets : w.id # u.id} \cup {u}
      BY <2>4 DEF Too!Put
    <3> HIDE DEF u
    <3>5. tooMade' \in Nat
      BY <2>1 DEF GalleryRows
    <3>6. GalleryRows'
      BY <2>1, <3>1, <3>3, <3>4, <3>5, RowIsWritten
    <3> QED
      BY <2>2, <3>6
  <2> QED
    BY <1>6, <2>3, <2>4 DEF Too!updateAgentToolset, Too!Rows
<1>7. ASSUME NEW s \in Slots, NEW org \in Orgs, NEW slug \in Slugs, Too!publishToolset(s, org, slug)
      PROVE  GalleryInv'
  <2>1. PICK t \in toolsets :
          tooReq' = [tooReq EXCEPT ![s] = [at |-> "publish", org |-> org, id |-> t.id, slug |-> slug]]
    BY <1>7 DEF Too!publishToolset
  <2>2. [at |-> "publish", org |-> org, id |-> t.id, slug |-> slug] \in PublishRequest
    BY DEF PublishRequest, GalleryRows, Toolset
  <2>3. UNCHANGED <<toolsets, tooMade, shown>>
    BY <1>7 DEF Too!publishToolset
  <2> QED
    BY <2>1, <2>2, <2>3, <1>s, ToolsetSlotMoves
<1>8. ASSUME NEW s \in Slots, NEW org \in Orgs, NEW slug \in Slugs, Too!adoptToolset(s, org, slug)
      PROVE  GalleryInv'
  <2>1. PICK t \in toolsets :
          /\ t.visibility = "public"
          /\ tooReq' = [tooReq EXCEPT ![s] = [at |-> "adopt", org |-> org, source |-> t]]
    BY <1>8 DEF Too!adoptToolset, Too!getPublicAgentToolsetBySlug, Too!Public
  <2>2. [at |-> "adopt", org |-> org, source |-> t] \in AdoptRequest
    BY DEF AdoptRequest, GalleryRows
  <2>3. UNCHANGED <<toolsets, tooMade, shown>>
    BY <1>8 DEF Too!adoptToolset
  <2>4. <<t.id, t.slug, t.content>> \in shown'
    BY <2>1, <2>3 DEF GalleryRows, Too!PublishedContentStays
  <2> QED
    BY <2>1, <2>2, <2>3, <2>4, <1>s, ToolsetSlotMoves
<1>9. ASSUME NEW s \in Slots, Too!publishAgentToolset(s) PROVE GalleryInv'
  <2>1. tooReq[s] \in PublishRequest /\ Too!Answer(s) /\ UNCHANGED tooMade
    BY <1>9, <1>r DEF Too!publishAgentToolset
  <2>2. CASE UNCHANGED <<toolsets, shown>>
    BY <2>1, <2>2, <1>s, ToolsetSlotMoves DEF Too!Answer
  <2>3. ASSUME \A u \in Too!Public(tooReq[s].slug) : u.id = tooReq[s].id,
               NEW t \in toolsets, t.id = tooReq[s].id,
               Too!Put([t EXCEPT !.visibility = "public", !.slug = tooReq[s].slug]),
               shown' = shown \cup {<<t.id, tooReq[s].slug, t.content>>}
        PROVE  GalleryInv'
    <3> DEFINE u == [t EXCEPT !.visibility = "public", !.slug = tooReq[s].slug]
    <3>1. /\ t \in Toolset
          /\ t.from # None => <<t.from.id, t.from.slug, t.from.content>> \in shown
      BY DEF GalleryRows, Too!AdoptedWasShown
    <3>2. tooReq[s].slug \in Slugs
      BY <2>1 DEF PublishRequest
    <3>3. /\ u \in Toolset /\ u.id = t.id /\ u.slug = tooReq[s].slug /\ u.content = t.content
          /\ u.from = t.from
      BY <3>1, <3>2 DEF Toolset
    <3>4. toolsets' = {w \in toolsets : w.id # u.id} \cup {u}
      BY <2>3 DEF Too!Put
    <3> HIDE DEF u
    <3>5. tooMade' \in Nat
      BY <2>1 DEF GalleryRows
    <3>6. <<u.id, u.slug, u.content>> \in shown' /\ shown \subseteq shown'
      BY <2>3, <3>3
    <3>7. ASSUME NEW w \in toolsets', w.visibility = "public", w.slug = u.slug PROVE w = u
      BY <2>3, <3>3, <3>4, <3>7 DEF Too!Public
    <3>8. GalleryRows'
      BY <3>1, <3>3, <3>4, <3>5, <3>6, <3>7, RowIsWritten
    <3> QED
      BY <2>1, <3>6, <3>8, ToolsetSlotMoves DEF Too!Answer
  <2> QED
    BY <1>9, <2>2, <2>3 DEF Too!publishAgentToolset, Too!Rows
<1>10. ASSUME NEW s \in Slots, Too!adoptPublicAgentToolset(s) PROVE GalleryInv'
  <2> DEFINE o == tooReq[s].source
             f == [id |-> o.id, slug |-> o.slug, content |-> o.content]
             t == [id |-> tooMade + 1, org |-> tooReq[s].org, visibility |-> "org", slug |-> None,
                   content |-> o.content, from |-> f]
  <2>1. /\ tooReq[s] \in AdoptRequest /\ WasShown(o) /\ Too!Answer(s) /\ UNCHANGED shown
        /\ toolsets' = toolsets \cup {t} /\ tooMade' = tooMade + 1
    BY <1>10, <1>r DEF Too!adoptPublicAgentToolset, Too!insert
  <2>2. tooMade + 1 \in Nat
    BY DEF GalleryRows
  <2>3. o \in Toolset /\ tooReq[s].org \in Orgs
    BY <2>1 DEF AdoptRequest
  <2>4. f \in [id : Nat, slug : Slugs \cup {None}, content : Contents] /\ o.content \in Contents
    BY <2>3 DEF Toolset
  <2>5. <<f.id, f.slug, f.content>> \in shown'
    BY <2>1 DEF WasShown
  <2> HIDE DEF f
  <2>6. t \in Toolset /\ t.visibility # "public" /\ t.from = f
    BY <2>2, <2>3, <2>4, GalleryAssumption DEF Toolset
  <2> HIDE DEF t
  <2>7. GalleryRows'
    BY <2>1, <2>2, <2>5, <2>6, RowIsWritten
  <2> QED
    BY <2>1, <2>7, ToolsetSlotMoves DEF Too!Answer
<1>11. ASSUME NEW s \in Slots, Too!requestDies(s) PROVE GalleryInv'
  BY <1>11, <1>s, ToolsetSlotMoves DEF Too!requestDies, Too!Answer
<1>12. CASE UNCHANGED tooVars
  BY <1>12, <1>s, <1>t DEF tooVars
<1> QED
  BY <1>1, <1>2, <1>3, <1>4, <1>5, <1>6, <1>7, <1>8, <1>9, <1>10, <1>11, <1>12 DEF Too!Next

(* What is about the gallery is a behaviour of Toolsets.                     *)
LEMMA GalleryIsServed == SessionsSpec => Too!Init /\ [][Too!Next]_tooVars
<1>1. SessionsInit => Too!Init
  BY DEF SessionsInit
<1>2. [SessionsNext]_allVars => [Too!Next]_tooVars
  BY DEF SessionsNext, allVars
<1> QED
  BY <1>1, <1>2, PTL DEF SessionsSpec

(* In the gallery a slug is one toolset's, a public toolset has the content  *)
(* that was published, and what is adopted was there (publishAgentToolset,   *)
(* updateAgentToolset, adoptPublicAgentToolset).                             *)
THEOREM GalleryIsKept == SessionsSpec => []GalleryHolds
<1>1. GalleryInv => GalleryHolds
  BY DEF GalleryInv, GalleryRows, GalleryHolds
<1> QED
  BY <1>1, GalleryIsServed, InitGallery, NextGallery, PTL
-----------------------------------------------------------------------------
(* The routes of sessions.  The events of a session are what the handlers    *)
(* append, and a key is on one of them at most.                              *)
Written == {Rou!Event("user_message", m.message, m.try) : m \in Messages}
Entry == {Rou!Event("session_created", None, None), Rou!Event("system", None, None)} \cup Written
KeysOnce ==
    \A id \in Rou!Ids : \A i, j \in DOMAIN entries[id] :
        entries[id][i].try # None /\ entries[id][i].try = entries[id][j].try => i = j
EntriesKept == entries \in [Rou!Ids -> Seq(Entry)] /\ KeysOnce

\* A request that has stored its message, or a command, names the event of it.
Holds(id, seq, m) ==
    /\ id \in Rou!Ids /\ seq \in Nat /\ m \in Messages
    /\ seq + 1 \in DOMAIN entries[id]
    /\ entries[id][seq + 1] = Rou!Event("user_message", m.message, m.try)
IsCommand(c) ==
    /\ c = [session |-> c.session, seq |-> c.seq, message |-> c.message]
    /\ \E m \in Messages : m.message = c.message /\ Holds(c.session, c.seq, m)
SendRequest ==
    [at : {"send", "sent"}, session : Rou!Ids, message : Messages, via : {"api", "socket"}, seq : Nat]
CommandOf(r) == [session |-> r.session, seq |-> r.seq, message |-> r.message.message]
ServesRoute(r) ==
    /\ r.at \in {"created", "append", "reset"} => r.session \in Rou!Ids
    /\ r.at = "append" => r.message \in Messages /\ r.via \in {"api", "socket"}
    /\ r.at \in {"send", "sent"} => r \in SendRequest /\ Holds(r.session, r.seq, r.message)
    /\ r.at = "sent" => CommandOf(r) \in stream
RouteSlots ==
    /\ rouReq = [s \in Slots |-> rouReq[s]]
    /\ \A s \in Slots : rouReq[s] = None \/ ServesRoute(rouReq[s])
CommandsKept == (\A c \in stream : IsCommand(c)) /\ Rou!AcceptedReachesBrain

IsSession(t) ==
    t = [id |-> t.id, key |-> t.key, peer |-> t.peer, binding |-> t.binding, status |-> t.status,
         pin |-> t.pin]
SessionRows ==
    /\ IsFiniteSet(sessions)
    /\ \A t \in sessions : IsSession(t) /\ t.id \in Rou!Ids
    /\ Rou!OneSessionPerKey /\ Rou!BindingsExist

RoutesInv == EntriesKept /\ RouteSlots /\ CommandsKept /\ SessionRows

(* In the initial state there is no session.                                 *)
LEMMA InitRoutes == Rou!Init => RoutesInv
<1> SUFFICES ASSUME Rou!Init PROVE RoutesInv
  OBVIOUS
<1>1. EntriesKept
  BY DEF Rou!Init, EntriesKept, KeysOnce
<1>2. RouteSlots /\ CommandsKept
  BY DEF Rou!Init, RouteSlots, CommandsKept, Rou!AcceptedReachesBrain
<1>3. SessionRows
  BY FS_EmptySet DEF Rou!Init, SessionRows, Rou!OneSessionPerKey, Rou!BindingsExist
<1> QED
  BY <1>1, <1>2, <1>3 DEF RoutesInv

(* The invariant says what the run checks: a command names the event of its  *)
(* message, and one that has a key names the only event with that key.       *)
LEMMA RoutesFollow == RoutesInv => RoutesHold
<1> SUFFICES ASSUME RoutesInv PROVE RoutesHold
  OBVIOUS
<1> USE DEF RoutesInv
<1>1. Rou!CommandsNameTheirEvent
  <2> SUFFICES ASSUME NEW c \in stream
               PROVE  /\ c.seq + 1 \in DOMAIN entries[c.session]
                      /\ entries[c.session][c.seq + 1].type = "user_message"
                      /\ entries[c.session][c.seq + 1].message = c.message
    BY DEF Rou!CommandsNameTheirEvent
  <2>1. PICK m \in Messages : m.message = c.message /\ Holds(c.session, c.seq, m)
    BY DEF CommandsKept, IsCommand
  <2> QED
    BY <2>1 DEF Holds, Rou!Event
<1>2. ASSUME NEW c \in stream, NEW d \in stream, c.session = d.session, c.message = d.message,
             NEW m \in Messages, m.message = c.message, m.try # None
      PROVE  c = d
  <2>1. Holds(c.session, c.seq, m) /\ Holds(d.session, d.seq, m)
    BY <1>2, MessagesAssumption DEF CommandsKept, IsCommand
  <2>2. c.seq + 1 = d.seq + 1 /\ c.seq \in Nat /\ d.seq \in Nat
    BY <1>2, <2>1 DEF EntriesKept, KeysOnce, Holds, Rou!Event
  <2>3. c.seq = d.seq
    BY <2>2
  <2> QED
    BY <1>2, <2>3 DEF CommandsKept, IsCommand
<1>3. Rou!KeyedMessagesAreOne
  BY <1>2 DEF Rou!KeyedMessagesAreOne, EntriesKept, KeysOnce
<1> QED
  BY <1>1, <1>3 DEF RoutesHold, CommandsKept, SessionRows

-----------------------------------------------------------------------------
(* Events are appended only, so what named an event goes on to.              *)
EntriesStay ==
    \A id \in Rou!Ids : \A i \in DOMAIN entries[id] :
        i \in DOMAIN entries'[id] /\ entries'[id][i] = entries[id][i]
WillHold(id, seq, m) ==
    /\ id \in Rou!Ids /\ seq \in Nat /\ m \in Messages
    /\ seq + 1 \in DOMAIN entries'[id]
    /\ entries'[id][seq + 1] = Rou!Event("user_message", m.message, m.try)
WillServe(r) ==
    /\ r.at \in {"created", "append", "reset"} => r.session \in Rou!Ids
    /\ r.at = "append" => r.message \in Messages /\ r.via \in {"api", "socket"}
    /\ r.at \in {"send", "sent"} => r \in SendRequest /\ WillHold(r.session, r.seq, r.message)
    /\ r.at = "sent" => CommandOf(r) \in stream'

LEMMA HoldsStay ==
    ASSUME EntriesStay, NEW id, NEW seq, NEW m, Holds(id, seq, m) PROVE WillHold(id, seq, m)
BY DEF EntriesStay, Holds, WillHold

(* An event is appended whose key, if it has one, no other has.              *)
LEMMA EntryIsAppended ==
    ASSUME EntriesKept, NEW id \in Rou!Ids, NEW e \in Entry,
           entries' = [entries EXCEPT ![id] = Append(@, e)],
           e.try = None \/ \A i \in DOMAIN entries[id] : entries[id][i].try # e.try
    PROVE  /\ EntriesKept' /\ EntriesStay
           /\ Len(entries[id]) \in Nat /\ Len(entries[id]) + 1 \in DOMAIN entries'[id]
           /\ entries'[id][Len(entries[id]) + 1] = e
<1>1. /\ entries[id] \in Seq(Entry) /\ Len(entries[id]) \in Nat
      /\ DOMAIN entries[id] = 1..Len(entries[id])
  BY DEF EntriesKept
<1>2. /\ entries'[id] = Append(entries[id], e)
      /\ \A k \in Rou!Ids : k # id => entries'[k] = entries[k]
  BY DEF EntriesKept
<1>3. /\ entries'[id] \in Seq(Entry) /\ DOMAIN entries'[id] = 1..(Len(entries[id]) + 1)
      /\ entries'[id][Len(entries[id]) + 1] = e
      /\ \A i \in 1..Len(entries[id]) : entries'[id][i] = entries[id][i]
  BY <1>1, <1>2
<1>4. entries' \in [Rou!Ids -> Seq(Entry)]
  BY <1>1, <1>2, <1>3 DEF EntriesKept
<1>5. EntriesStay
  BY <1>1, <1>2, <1>3 DEF EntriesStay
<1>6. ASSUME NEW k \in Rou!Ids, NEW i \in DOMAIN entries'[k], NEW j \in DOMAIN entries'[k],
             entries'[k][i].try # None, entries'[k][i].try = entries'[k][j].try
      PROVE  i = j
  <2>1. CASE k # id
    BY <1>2, <1>6, <2>1 DEF EntriesKept, KeysOnce
  <2>2. CASE k = id
    <3>1. /\ i \in DOMAIN entries[id] \/ i = Len(entries[id]) + 1
          /\ j \in DOMAIN entries[id] \/ j = Len(entries[id]) + 1
      BY <1>1, <1>3, <2>2
    <3> QED
      BY <1>1, <1>3, <1>6, <2>2, <3>1 DEF EntriesKept, KeysOnce
  <2> QED
    BY <2>1, <2>2
<1>7. KeysOnce'
  BY <1>6 DEF KeysOnce
<1> QED
  BY <1>1, <1>3, <1>4, <1>5, <1>7 DEF EntriesKept

(* A message is stored, or was under its key: seq names it either way.       *)
LEMMA MessageIsStored ==
    ASSUME EntriesKept, NEW id \in Rou!Ids, NEW m \in Messages,
           Rou!append(id, Rou!Event("user_message", m.message, m.try))
    PROVE  EntriesKept' /\ EntriesStay /\ WillHold(id, Rou!Seq0(id, m.try), m)
<1> DEFINE e == Rou!Event("user_message", m.message, m.try)
<1>0. e \in Entry /\ e.try = m.try
  BY DEF Entry, Written, Rou!Event
<1>1. CASE Rou!Repeats(id, m.try) = {}
  <2>1. entries' = [entries EXCEPT ![id] = Append(@, e)]
    BY <1>0, <1>1 DEF Rou!append
  <2>2. e.try = None \/ \A i \in DOMAIN entries[id] : entries[id][i].try # e.try
    BY <1>0, <1>1 DEF Rou!Repeats
  <2>3. Rou!Seq0(id, m.try) = Len(entries[id])
    BY <1>1 DEF Rou!Seq0
  <2> HIDE DEF e
  <2>4. /\ EntriesKept' /\ EntriesStay
        /\ Len(entries[id]) \in Nat /\ Len(entries[id]) + 1 \in DOMAIN entries'[id]
        /\ entries'[id][Len(entries[id]) + 1] = e
    BY <1>0, <2>1, <2>2, EntryIsAppended
  <2> QED
    BY <2>3, <2>4 DEF WillHold, e
<1>2. CASE Rou!Repeats(id, m.try) # {}
  <2>1. UNCHANGED entries
    BY <1>0, <1>2 DEF Rou!append
  <2>2. PICK i \in Rou!Repeats(id, m.try) : Rou!Seq0(id, m.try) = i - 1
    BY <1>2 DEF Rou!Seq0
  <2>3. i \in DOMAIN entries[id] /\ m.try # None /\ entries[id][i].try = m.try
    BY <2>2 DEF Rou!Repeats
  <2>4. entries[id] \in Seq(Entry) /\ i \in Nat /\ i >= 1 /\ entries[id][i] \in Entry
    BY <2>3 DEF EntriesKept
  <2>5. PICK n \in Messages : entries[id][i] = Rou!Event("user_message", n.message, n.try)
    BY <2>3, <2>4 DEF Entry, Written, Rou!Event
  <2>6. n = m
    BY <2>3, <2>5, MessagesAssumption DEF Rou!Event
  <2>7. i - 1 \in Nat /\ (i - 1) + 1 = i
    BY <2>4
  <2> QED
    BY <2>1, <2>2, <2>3, <2>5, <2>6, <2>7 DEF WillHold, EntriesStay, EntriesKept, KeysOnce
<1> QED
  BY <1>1, <1>2

(* A slot goes on to another request, or to none, while events only grow.    *)
LEMMA RouteSlotMoves ==
    ASSUME RouteSlots, NEW s \in Slots, NEW r, rouReq' = [rouReq EXCEPT ![s] = r],
           EntriesStay, stream \subseteq stream', r = None \/ WillServe(r)
    PROVE  RouteSlots'
<1>1. ASSUME NEW q, ServesRoute(q) PROVE WillServe(q)
  BY <1>1, HoldsStay DEF ServesRoute, WillServe
<1>2. \A p \in Slots : rouReq'[p] = None \/ WillServe(rouReq'[p])
  BY <1>1 DEF RouteSlots
<1> QED
  BY <1>2 DEF RouteSlots, ServesRoute, WillServe, Holds, WillHold

(* The commands and the promises stand while events and commands only grow.  *)
LEMMA CommandsStand ==
    ASSUME CommandsKept, EntriesStay, stream \subseteq stream',
           \A c \in stream' \ stream : IsCommand(c)',
           \A a \in accepted' \ accepted :
               \E c \in stream' : c.session = a[1] /\ c.message = a[2].message
    PROVE  CommandsKept'
<1>1. ASSUME NEW c \in stream PROVE IsCommand(c)'
  BY HoldsStay DEF CommandsKept, IsCommand, Holds, WillHold
<1> QED
  BY <1>1 DEF CommandsKept, Rou!AcceptedReachesBrain

(* Sessions are marked: their rows keep their ids and keys, and a binding or *)
(* none, and no binding goes that one has.                                   *)
LEMMA SessionsAreMarked ==
    ASSUME SessionRows, NEW f, f = [t \in sessions |-> f[t]], sessions' = {f[t] : t \in sessions},
           \A t \in sessions : IsSession(f[t]) /\ f[t].id = t.id /\ f[t].key = t.key,
           \A t \in sessions : f[t].binding # None => \E b \in bindings' : b.id = f[t].binding
    PROVE  SessionRows'
<1>1. f \in Surjection(sessions, sessions')
  BY DEF Surjection
<1>2. IsFiniteSet(sessions')
  BY <1>1, FS_Surjection DEF SessionRows
<1>3. \A t \in sessions' : IsSession(t) /\ t.id \in Rou!Ids
  BY DEF SessionRows
<1>4. ASSUME NEW t \in sessions', NEW u \in sessions', t.key = u.key PROVE t = u
  <2>1. PICK v \in sessions : t = f[v] /\ v.key = t.key
    OBVIOUS
  <2>2. PICK w \in sessions : u = f[w] /\ w.key = u.key
    OBVIOUS
  <2> QED
    BY <1>4, <2>1, <2>2 DEF SessionRows, Rou!OneSessionPerKey
<1>5. \A t \in sessions' : t.binding # None => \E b \in bindings' : b.id = t.binding
  OBVIOUS
<1> QED
  BY <1>2, <1>3, <1>4, <1>5 DEF SessionRows, Rou!OneSessionPerKey, Rou!BindingsExist

(* Rows whose pin, status or binding is set are sessions with their keys.    *)
LEMMA SessionIsSet ==
    ASSUME NEW t, IsSession(t), NEW v
    PROVE  /\ IsSession([t EXCEPT !.pin = v]) /\ [t EXCEPT !.pin = v].id = t.id
           /\ [t EXCEPT !.pin = v].key = t.key /\ [t EXCEPT !.pin = v].binding = t.binding
           /\ IsSession([t EXCEPT !.status = v]) /\ [t EXCEPT !.status = v].id = t.id
           /\ [t EXCEPT !.status = v].key = t.key /\ [t EXCEPT !.status = v].binding = t.binding
           /\ IsSession([t EXCEPT !.binding = v]) /\ [t EXCEPT !.binding = v].id = t.id
           /\ [t EXCEPT !.binding = v].key = t.key /\ [t EXCEPT !.binding = v].binding = v
BY DEF IsSession

(* Nothing is written to a session: its events stay.                         *)
LEMMA EntriesUnchanged ==
    ASSUME UNCHANGED entries PROVE EntriesStay /\ (EntriesKept => EntriesKept')
BY DEF EntriesStay, EntriesKept, KeysOnce

(* Sessions and bindings are not touched.                                    *)
LEMMA SessionsUnchanged ==
    ASSUME SessionRows, UNCHANGED <<sessions, bindings>> PROVE SessionRows'
BY DEF SessionRows, Rou!OneSessionPerKey, Rou!BindingsExist

(* A step of one slot that writes no session and no command.                 *)
LEMMA RouteStep ==
    ASSUME RoutesInv, NEW s \in Slots, NEW r, rouReq' = [rouReq EXCEPT ![s] = r],
           EntriesStay, EntriesKept', r = None \/ WillServe(r),
           UNCHANGED <<sessions, bindings, stream, accepted>>
    PROVE  RoutesInv'
<1>1. RouteSlots'
  BY RouteSlotMoves DEF RoutesInv
<1>2. CommandsKept'
  BY CommandsStand DEF RoutesInv
<1> QED
  BY <1>1, <1>2, SessionsUnchanged DEF RoutesInv

(* A step of no slot that writes neither events nor commands.                *)
LEMMA RowStep ==
    ASSUME RoutesInv, UNCHANGED <<entries, stream, rouReq, accepted>>, SessionRows'
    PROVE  RoutesInv'
<1>1. RouteSlots'
  BY DEF RoutesInv, RouteSlots, ServesRoute, Holds
<1>2. CommandsKept'
  BY CommandsStand, EntriesUnchanged DEF RoutesInv
<1> QED
  BY <1>1, <1>2, EntriesUnchanged DEF RoutesInv

(* The bindings: a row is added, changed under its id, or deleted, which     *)
(* sets the binding of its sessions to null.                                 *)
LEMMA BindingsChange ==
    ASSUME RoutesInv, NEW b,
           Rou!createAgentBinding(b) \/ Rou!patchAgentBinding(b) \/ Rou!deleteAgentBinding(b)
    PROVE  RoutesInv'
<1> USE DEF RoutesInv
<1>0. UNCHANGED <<entries, stream, rouReq, accepted>>
  BY DEF Rou!createAgentBinding, Rou!patchAgentBinding, Rou!deleteAgentBinding
<1>1. CASE Rou!createAgentBinding(b)
  <2>1. SessionRows'
    BY <1>1 DEF Rou!createAgentBinding, SessionRows, Rou!OneSessionPerKey, Rou!BindingsExist
  <2> QED
    BY <1>0, <2>1, RowStep
<1>2. CASE Rou!patchAgentBinding(b)
  <2>1. SessionRows'
    BY <1>2 DEF Rou!patchAgentBinding, SessionRows, Rou!OneSessionPerKey, Rou!BindingsExist
  <2> QED
    BY <1>0, <2>1, RowStep
<1>3. CASE Rou!deleteAgentBinding(b)
  <2> DEFINE f == [t \in sessions |-> IF t.binding = b.id THEN [t EXCEPT !.binding = None] ELSE t]
  <2>1. sessions' = {f[t] : t \in sessions} /\ bindings' = bindings \ {b}
    BY <1>3 DEF Rou!deleteAgentBinding
  <2>2. ASSUME NEW t \in sessions
        PROVE  /\ IsSession(f[t]) /\ f[t].id = t.id /\ f[t].key = t.key
               /\ t.binding = b.id => f[t].binding = None
               /\ t.binding # b.id => f[t] = t
    <3> DEFINE g == [t EXCEPT !.binding = None]
    <3>1. IsSession(t)
      BY DEF SessionRows
    <3>2. IsSession(g) /\ g.id = t.id /\ g.key = t.key /\ g.binding = None
      BY <3>1, SessionIsSet
    <3>3. f[t] = IF t.binding = b.id THEN g ELSE t
      OBVIOUS
    <3> HIDE DEF f, g
    <3> QED
      BY <3>1, <3>2, <3>3
  <2>3. ASSUME NEW t \in sessions, f[t].binding # None
        PROVE  \E c \in bindings' : c.id = f[t].binding
    <3>1. f[t].binding = t.binding /\ t.binding # b.id
      BY <2>2, <2>3
    <3>2. PICK c \in bindings : c.id = t.binding
      BY <2>3, <3>1 DEF SessionRows, Rou!BindingsExist
    <3> QED
      BY <2>1, <3>1, <3>2
  <2>4. f = [t \in sessions |-> f[t]]
    OBVIOUS
  <2> HIDE DEF f
  <2>5. SessionRows'
    BY <2>1, <2>2, <2>3, <2>4, SessionsAreMarked
  <2> QED
    BY <1>0, <2>5, RowStep
<1> QED
  BY <1>1, <1>2, <1>3

(* A session is archived, restored or pinned.                                *)
LEMMA SessionChanges ==
    ASSUME RoutesInv, NEW id, Rou!archiveAgentSession(id) \/ Rou!restoreAgentSession(id) \/ Rou!brainPins(id)
    PROVE  RoutesInv'
<1> USE DEF RoutesInv
<1>0. UNCHANGED <<entries, stream, rouReq, accepted, bindings>>
  BY DEF Rou!archiveAgentSession, Rou!restoreAgentSession, Rou!Marked, Rou!brainPins
<1>1. ASSUME NEW v, sessions' = {IF t.id = id THEN [t EXCEPT !.status = v] ELSE t : t \in sessions}
      PROVE  RoutesInv'
  <2> DEFINE f == [t \in sessions |-> IF t.id = id THEN [t EXCEPT !.status = v] ELSE t]
  <2>1. sessions' = {f[t] : t \in sessions} /\ f = [t \in sessions |-> f[t]]
    BY <1>1
  <2>2. \A t \in sessions : IsSession(f[t]) /\ f[t].id = t.id /\ f[t].key = t.key /\ f[t].binding = t.binding
    BY SessionIsSet DEF SessionRows
  <2> HIDE DEF f
  <2>3. SessionRows'
    BY <1>0, <2>1, <2>2, SessionsAreMarked DEF SessionRows, Rou!BindingsExist
  <2> QED
    BY <1>0, <2>3, RowStep
<1>2. ASSUME NEW v, sessions' = {IF t.id = id THEN [t EXCEPT !.pin = v] ELSE t : t \in sessions}
      PROVE  RoutesInv'
  <2> DEFINE f == [t \in sessions |-> IF t.id = id THEN [t EXCEPT !.pin = v] ELSE t]
  <2>1. sessions' = {f[t] : t \in sessions} /\ f = [t \in sessions |-> f[t]]
    BY <1>2
  <2>2. \A t \in sessions : IsSession(f[t]) /\ f[t].id = t.id /\ f[t].key = t.key /\ f[t].binding = t.binding
    BY SessionIsSet DEF SessionRows
  <2> HIDE DEF f
  <2>3. SessionRows'
    BY <1>0, <2>1, <2>2, SessionsAreMarked DEF SessionRows, Rou!BindingsExist
  <2> QED
    BY <1>0, <2>3, RowStep
<1> QED
  BY <1>1, <1>2 DEF Rou!archiveAgentSession, Rou!restoreAgentSession, Rou!Marked, Rou!brainPins

(* The session of a key is inserted where the key is free, with a binding    *)
(* that exists, or the one that has the key is returned (createAgentSession).*)
LEMMA SessionIsCreated ==
    ASSUME RoutesInv, NEW s \in Slots, Rou!createAgentSession(s)
    PROVE  RoutesInv'
<1> USE DEF RoutesInv
<1> DEFINE b == rouReq[s].binding
           key == Rou!sessionKey(rouReq[s].ask, Rou!Agent(b))
           taken == {t \in sessions : t.key = key}
           id == Rou!Cardinality(sessions) + 1
<1>0. UNCHANGED <<bindings, entries, stream, accepted>> /\ EntriesStay /\ EntriesKept'
  BY EntriesUnchanged DEF Rou!createAgentSession
<1>1. CASE Rou!Answer(s) /\ UNCHANGED sessions
  BY <1>0, <1>1, RouteStep DEF Rou!Answer
<1>2. CASE /\ taken # {} /\ UNCHANGED sessions
           /\ rouReq' = [rouReq EXCEPT ![s] = [at |-> "created", session |-> (CHOOSE t \in taken : TRUE).id]]
  <2>1. (CHOOSE t \in taken : TRUE).id \in Rou!Ids
    BY <1>2 DEF SessionRows
  <2> DEFINE r == [at |-> "created", session |-> (CHOOSE t \in taken : TRUE).id]
  <2>2. WillServe(r)
    BY <2>1 DEF WillServe
  <2>3. rouReq' = [rouReq EXCEPT ![s] = r]
    BY <1>2
  <2> HIDE DEF r
  <2> QED
    BY <1>0, <1>2, <2>2, <2>3, RouteStep
<1>3. ASSUME taken = {}, Rou!Cardinality(sessions) < MaxSessions,
             b # None => \E c \in bindings : c.id = b.id,
             sessions' = sessions \cup {[id |-> id, key |-> key, peer |-> rouReq[s].ask.peer,
                                         binding |-> IF b = None THEN None ELSE b.id,
                                         status |-> "active", pin |-> None]},
             rouReq' = [rouReq EXCEPT ![s] = [at |-> "created", session |-> id]]
      PROVE  RoutesInv'
  <2> DEFINE t == [id |-> id, key |-> key, peer |-> rouReq[s].ask.peer,
                   binding |-> IF b = None THEN None ELSE b.id, status |-> "active", pin |-> None]
             r == [at |-> "created", session |-> id]
  <2>1. Rou!Cardinality(sessions) = Cardinality(sessions)
    BY DEF Rou!Cardinality, Cardinality
  <2>2. Cardinality(sessions) \in Nat
    BY FS_CardinalityType DEF SessionRows
  <2>3. id \in Rou!Ids
    BY <1>3, <2>1, <2>2, SessionsAssumption DEF Rou!Ids
  <2>4. /\ IsSession(t) /\ t.id = id /\ t.key = key
        /\ t.binding # None => \E c \in bindings : c.id = t.binding
    BY <1>3 DEF IsSession
  <2>5. WillServe(r)
    BY <2>3 DEF WillServe
  <2>6. sessions' = sessions \cup {t} /\ rouReq' = [rouReq EXCEPT ![s] = r]
    BY <1>3
  <2>7. \A u \in sessions : u.key # key
    BY <1>3
  <2> HIDE DEF t, r, id, key, b, taken
  <2>8. IsFiniteSet(sessions')
    BY <2>6, FS_AddElement DEF SessionRows
  <2>9. SessionRows'
    <3>1. \A u \in sessions' : IsSession(u) /\ u.id \in Rou!Ids
      BY <2>3, <2>4, <2>6 DEF SessionRows
    <3>2. \A u, v \in sessions' : u.key = v.key => u = v
      BY <2>4, <2>6, <2>7 DEF SessionRows, Rou!OneSessionPerKey
    <3>3. \A u \in sessions' : u.binding # None => \E c \in bindings' : c.id = u.binding
      BY <1>0, <2>4, <2>6 DEF SessionRows, Rou!BindingsExist
    <3> QED
      BY <2>8, <3>1, <3>2, <3>3 DEF SessionRows, Rou!OneSessionPerKey, Rou!BindingsExist
  <2>10. RouteSlots'
    BY <1>0, <2>5, <2>6, RouteSlotMoves
  <2>11. CommandsKept'
    BY <1>0, CommandsStand
  <2> QED
    BY <1>0, <2>9, <2>10, <2>11
<1> QED
  BY <1>1, <1>2, <1>3 DEF Rou!createAgentSession

(* The message is stored and the slot goes on with its seq.                  *)
LEMMA MessageStep ==
    ASSUME RoutesInv, NEW s \in Slots, Rou!userMessage(s) PROVE RoutesInv'
<1> DEFINE id == rouReq[s].session
           m == rouReq[s].message
           r == [at |-> "send", session |-> id, message |-> m, via |-> rouReq[s].via,
                 seq |-> Rou!Seq0(id, m.try)]
<1>1. id \in Rou!Ids /\ m \in Messages /\ rouReq[s].via \in {"api", "socket"}
  BY DEF Rou!userMessage, RoutesInv, RouteSlots, ServesRoute
<1>2. /\ Rou!append(id, Rou!Event("user_message", m.message, m.try))
      /\ rouReq' = [rouReq EXCEPT ![s] = r]
      /\ UNCHANGED <<bindings, sessions, stream, accepted>>
  BY DEF Rou!userMessage
<1>3. EntriesKept' /\ EntriesStay /\ WillHold(id, Rou!Seq0(id, m.try), m)
  BY <1>1, <1>2, MessageIsStored DEF RoutesInv
<1>4. Rou!Seq0(id, m.try) \in Nat
  BY <1>3 DEF WillHold
<1>5. WillServe(r)
  BY <1>1, <1>3, <1>4 DEF WillServe, SendRequest
<1> HIDE DEF r
<1> QED
  BY <1>2, <1>3, <1>5, RouteStep

(* The command is given to the brain, and the slot has given it.             *)
LEMMA CommandStep ==
    ASSUME RoutesInv, NEW s \in Slots, Rou!toBrain(s) PROVE RoutesInv'
<1> DEFINE q == rouReq[s]
           r == [q EXCEPT !.at = "sent"]
           c == CommandOf(q)
<1>1. q \in SendRequest /\ Holds(q.session, q.seq, q.message)
  BY DEF Rou!toBrain, RoutesInv, RouteSlots, ServesRoute
<1>2. /\ stream' = stream \cup {c} /\ UNCHANGED <<bindings, sessions, entries, accepted>>
  BY DEF Rou!toBrain, Rou!Command, CommandOf
<1>3. rouReq' = [rouReq EXCEPT ![s] = r]
  BY DEF Rou!toBrain
<1>4. r \in SendRequest /\ r.session = q.session /\ r.seq = q.seq /\ r.message = q.message
  BY <1>1 DEF SendRequest
<1>5. EntriesStay /\ EntriesKept'
  BY <1>2, EntriesUnchanged DEF RoutesInv
<1>6. WillHold(q.session, q.seq, q.message)
  BY <1>1, <1>5, HoldsStay
<1>7. WillServe(r)
  BY <1>2, <1>4, <1>6 DEF WillServe, CommandOf
<1>8. RouteSlots'
  BY <1>2, <1>3, <1>5, <1>7, RouteSlotMoves DEF RoutesInv
<1>9. q.message \in Messages
  BY <1>1 DEF Holds
<1>10. ASSUME NEW d \in stream' \ stream PROVE IsCommand(d)'
  <2>1. d = c
    BY <1>2, <1>10
  <2>2. d.session = q.session /\ d.seq = q.seq /\ d.message = q.message.message
    BY <2>1 DEF CommandOf
  <2>3. d = [session |-> d.session, seq |-> d.seq, message |-> d.message]
    BY <2>1 DEF CommandOf
  <2>4. WillHold(d.session, d.seq, q.message)
    BY <1>6, <2>2
  <2> QED
    BY <1>9, <2>2, <2>3, <2>4 DEF IsCommand, Holds, WillHold
<1>11. CommandsKept'
  BY <1>2, <1>5, <1>10, CommandsStand DEF RoutesInv
<1> QED
  BY <1>2, <1>5, <1>8, <1>11, SessionsUnchanged DEF RoutesInv

(* The sender is told once the command was given.                            *)
LEMMA AcceptStep ==
    ASSUME RoutesInv, NEW s \in Slots, Rou!accept(s) PROVE RoutesInv'
<1>1. /\ CommandOf(rouReq[s]) \in stream
      /\ accepted' \subseteq accepted \cup {<<rouReq[s].session, rouReq[s].message>>}
      /\ Rou!Answer(s) /\ UNCHANGED <<bindings, sessions, entries, stream>>
  BY DEF Rou!accept, RoutesInv, RouteSlots, ServesRoute, Rou!Told
<1>2. EntriesStay /\ EntriesKept'
  BY <1>1, EntriesUnchanged DEF RoutesInv
<1>3. RouteSlots'
  BY <1>1, <1>2, RouteSlotMoves DEF RoutesInv, Rou!Answer
<1>4. ASSUME NEW a \in accepted' \ accepted
      PROVE  \E c \in stream' : c.session = a[1] /\ c.message = a[2].message
  <2>1. a = <<rouReq[s].session, rouReq[s].message>>
    BY <1>1, <1>4
  <2> QED
    BY <1>1, <2>1 DEF CommandOf
<1>5. CommandsKept'
  BY <1>1, <1>2, <1>4, CommandsStand DEF RoutesInv
<1> QED
  BY <1>1, <1>2, <1>3, <1>5, SessionsUnchanged DEF RoutesInv

(* An executor is forgotten before the reset is written.                     *)
LEMMA ResetStep ==
    ASSUME RoutesInv, NEW s \in Slots, NEW id \in Rou!Ids, Rou!setAgentSessionPinnedAgent(s, id)
    PROVE  RoutesInv'
<1> DEFINE f == [t \in sessions |-> IF t.id = id THEN [t EXCEPT !.pin = None] ELSE t]
           r == [at |-> "reset", session |-> id]
<1>1. /\ sessions' = {f[t] : t \in sessions} /\ f = [t \in sessions |-> f[t]]
      /\ rouReq' = [rouReq EXCEPT ![s] = r]
      /\ UNCHANGED <<bindings, entries, stream, accepted>>
  BY DEF Rou!setAgentSessionPinnedAgent
<1>2. \A t \in sessions : IsSession(f[t]) /\ f[t].id = t.id /\ f[t].key = t.key /\ f[t].binding = t.binding
  BY SessionIsSet DEF RoutesInv, SessionRows
<1>3. WillServe(r)
  BY DEF WillServe
<1> HIDE DEF f, r
<1>b. SessionRows /\ \A t \in sessions : f[t].binding # None => \E b \in bindings' : b.id = f[t].binding
  BY <1>1, <1>2 DEF RoutesInv, SessionRows, Rou!BindingsExist
<1>4. SessionRows'
  BY <1>1, <1>2, <1>b, SessionsAreMarked
<1>5. EntriesStay /\ EntriesKept'
  BY <1>1, EntriesUnchanged DEF RoutesInv
<1>6. RouteSlots' /\ CommandsKept'
  BY <1>1, <1>3, <1>5, RouteSlotMoves, CommandsStand DEF RoutesInv
<1> QED
  BY <1>4, <1>5, <1>6 DEF RoutesInv

(* What is said of a session in its own events has no key.                   *)
LEMMA NoteStep ==
    ASSUME RoutesInv, NEW s \in Slots, Rou!sessionCreated(s) \/ Rou!sessionReset(s)
    PROVE  RoutesInv'
<1>1. /\ rouReq[s].session \in Rou!Ids /\ Rou!Answer(s)
      /\ UNCHANGED <<bindings, sessions, stream, accepted>>
  BY DEF Rou!sessionCreated, Rou!sessionReset, RoutesInv, RouteSlots, ServesRoute
<1>2. PICK e \in {Rou!Event("session_created", None, None), Rou!Event("system", None, None)} :
        Rou!append(rouReq[s].session, e)
  BY DEF Rou!sessionCreated, Rou!sessionReset
<1>3. e \in Entry /\ e.try = None
  BY DEF Entry, Rou!Event
<1>4. entries' = [entries EXCEPT ![rouReq[s].session] = Append(@, e)]
  BY <1>2, <1>3 DEF Rou!append, Rou!Repeats
<1>5. EntriesKept' /\ EntriesStay
  BY <1>1, <1>3, <1>4, EntryIsAppended DEF RoutesInv
<1> QED
  BY <1>1, <1>5, RouteStep DEF Rou!Answer

(* Every action keeps it.                                                    *)
LEMMA NextRoutes == RoutesInv /\ [Rou!Next]_rouVars => RoutesInv'
<1> SUFFICES ASSUME RoutesInv, [Rou!Next]_rouVars PROVE RoutesInv'
  OBVIOUS
<1>0. ASSUME UNCHANGED entries PROVE EntriesStay /\ EntriesKept'
  BY <1>0, EntriesUnchanged DEF RoutesInv
<1>1. ASSUME NEW s \in Slots, NEW r, Rou!listAgentBindings(s, r) PROVE RoutesInv'
  <2> DEFINE q == [at |-> "create", ask |-> r, binding |-> Rou!matched(r)]
  <2>1. /\ rouReq' = [rouReq EXCEPT ![s] = q]
        /\ UNCHANGED <<bindings, sessions, entries, stream, accepted>>
    BY <1>1 DEF Rou!listAgentBindings
  <2>2. WillServe(q)
    BY DEF WillServe
  <2> HIDE DEF q
  <2> QED
    BY <1>0, <2>1, <2>2, RouteStep
<1>2. ASSUME NEW s \in Slots, NEW id \in Rou!Ids, NEW m \in Messages,
             Rou!getAgentSessionById(s, id, m) \/ Rou!socketSend(s, id, m)
      PROVE  RoutesInv'
  <2>1. PICK via \in {"api", "socket"} :
          rouReq' = [rouReq EXCEPT ![s] = [at |-> "append", session |-> id, message |-> m, via |-> via]]
    BY <1>2 DEF Rou!getAgentSessionById, Rou!socketSend
  <2> DEFINE q == [at |-> "append", session |-> id, message |-> m, via |-> via]
  <2>2. UNCHANGED <<bindings, sessions, entries, stream, accepted>>
    BY <1>2 DEF Rou!getAgentSessionById, Rou!socketSend
  <2>3. WillServe(q)
    BY DEF WillServe
  <2> HIDE DEF q
  <2> QED
    BY <1>0, <2>1, <2>2, <2>3, RouteStep DEF q
<1>3. ASSUME NEW s \in Slots, Rou!gatewayFails(s) \/ Rou!requestDies(s) PROVE RoutesInv'
  <2>1. Rou!Answer(s) /\ UNCHANGED <<bindings, sessions, entries, stream, accepted>>
    BY <1>3 DEF Rou!gatewayFails, Rou!requestDies
  <2> QED
    BY <1>0, <2>1, RouteStep DEF Rou!Answer
<1>4. CASE UNCHANGED rouVars
  <2>1. SessionRows'
    BY <1>4, SessionsUnchanged DEF rouVars, RoutesInv
  <2> QED
    BY <1>4, <2>1, RowStep DEF rouVars
<1> QED
  BY <1>1, <1>2, <1>3, <1>4, BindingsChange, SessionChanges, SessionIsCreated, MessageStep,
     CommandStep, AcceptStep, ResetStep, NoteStep DEF Rou!Next

(* What is about the routes is a behaviour of SessionRoutes.                 *)
LEMMA RoutesAreServed == SessionsSpec => Rou!Init /\ [][Rou!Next]_rouVars
<1>1. SessionsInit => Rou!Init
  BY DEF SessionsInit
<1>2. [SessionsNext]_allVars => [Rou!Next]_rouVars
  BY DEF SessionsNext, allVars
<1> QED
  BY <1>1, <1>2, PTL DEF SessionsSpec

(* A conversation has one session, what was answered 202 is a command the    *)
(* brain was given, a command names the event of its message, a message sent *)
(* again under its key is one event, and a session's binding exists, however *)
(* many requests interleave (createAgentSession, server.ts:4344-4425).       *)
THEOREM RoutesAreKept == SessionsSpec => []RoutesHold
<1> QED
  BY RoutesFollow, RoutesAreServed, InitRoutes, NextRoutes, PTL
-----------------------------------------------------------------------------
(* The sockets of a session's clients: what the handlers and the brain keep. *)
Joining == [session : Chats, at : {"read", "added", "noted"}, pin : 0..MaxPins]
Saying == [session : Chats, event : 0..MaxEvents]
Sending == [session : Chats, event : 0..MaxEvents, to : (SUBSET Edges) \cup {None}]
Broadcast == [session : Chats, event : 0..MaxEvents, pin : 0..MaxPins]

EventsTyped ==
    /\ events \in [Chats -> Seq({"brain"} \cup Edges)] /\ \A s \in Chats : Len(events[s]) <= MaxEvents
    /\ pin \in [Chats -> 0..MaxPins]
RoutingTyped ==
    /\ members \in [Edges -> [Chats -> SUBSET Clients]] /\ presence \in [Chats -> SUBSET Edges]
    /\ bus \in [Edges -> Seq(Broadcast)] /\ brain \in [Brains -> Sending \cup {None}]
SocketsTyped ==
    /\ sock \in [Clients -> [state : {"new", "open", "closed"}, joined : Chats \cup {None}]]
    /\ join \in [Clients -> Joining \cup {None}] /\ say \in [Clients -> Saying \cup {None}]
    /\ seen \in [Clients -> [at : SUBSET Nat, from : Nat, pin : 0..MaxPins]]
ClientsTyped == EventsTyped /\ RoutingTyped /\ SocketsTyped

\* A client is in the set of the session it has joined, on its edge, and in no
\* other.
JoinedAreMembers ==
    \A c \in Clients, s \in Chats : c \in members[EdgeOf[c]][s] <=> sock[c].joined = s

\* A join that has left the old session ends in the new one, or in none.
Entered(c) == join[c] # None /\ join[c].at \in {"added", "noted"}
JoinsInOrder ==
    \A c \in Clients :
        /\ sock[c].state = "new" => sock[c].joined = None /\ join[c] = None
        /\ Entered(c) => sock[c].joined \in {None, join[c].session}

\* Once a join has noted its edge, Redis has it, unless the key lapsed.
Noted(c) == join[c] = None \/ join[c].at = "noted"
EdgesAreNoted ==
    \A c \in Clients, s \in Chats :
        sock[c].joined = s /\ Noted(c) /\ s \notin lapsed => EdgeOf[c] \in presence[s]

\* What the client was sent, or will be, of the events since the oldest it got.
Sent(c, s, n) ==
    \E b \in Brains : /\ brain[b] # None /\ brain[b].session = s /\ brain[b].event = n
                      /\ brain[b].to = None \/ EdgeOf[c] \in brain[b].to
OnBus(c, s, n) ==
    \E i \in DOMAIN bus[EdgeOf[c]] : bus[EdgeOf[c]][i].session = s /\ bus[EdgeOf[c]][i].event = n
BeingShown(c, s, n) ==
    \E d \in Clients : EdgeOf[d] = EdgeOf[c] /\ say[d] = [session |-> s, event |-> n]
Covered(c, s, n) ==
    n \in seen[c].at \/ Sent(c, s, n) \/ OnBus(c, s, n) \/ BeingShown(c, s, n) \/ <<s, n>> \in lost
Due(c, s, n) == n >= seen[c].from /\ events[s][n] \in {"brain", EdgeOf[c]}
Gapless(c, s) == \A n \in DOMAIN events[s] : Due(c, s, n) => Covered(c, s, n)
Gapfree == \A c \in Clients, s \in Chats : Cli!Watches(c, s) /\ s \notin lapsed => Gapless(c, s)

ClientsInv == ClientsTyped /\ JoinedAreMembers /\ JoinsInOrder /\ EdgesAreNoted /\ Gapfree

(* In the initial state nobody has joined and nothing is stored.             *)
LEMMA InitClients == Cli!Init => ClientsInv
<1> SUFFICES ASSUME Cli!Init PROVE ClientsInv
  OBVIOUS
<1>1. EventsTyped /\ RoutingTyped
  BY ClientsAssumption DEF Cli!Init, EventsTyped, RoutingTyped
<1>2. SocketsTyped
  BY ClientsAssumption DEF Cli!Init, SocketsTyped
<1>3. JoinedAreMembers /\ JoinsInOrder /\ EdgesAreNoted
  BY ClientsAssumption DEF Cli!Init, JoinedAreMembers, JoinsInOrder, EdgesAreNoted, Entered
<1>4. Gapfree
  BY ClientsAssumption DEF Cli!Init, Gapfree, Cli!Watches, Cli!Open
<1> QED
  BY <1>1, <1>2, <1>3, <1>4 DEF ClientsInv, ClientsTyped

(* The invariant says what the run checks.                                   *)
LEMMA ClientsInvFollow == ClientsInv => Cli!NoGap /\ Cli!OneSessionAtATime
<1> SUFFICES ASSUME ClientsInv PROVE Cli!NoGap /\ Cli!OneSessionAtATime
  OBVIOUS
<1>1. Cli!OneSessionAtATime
  BY DEF ClientsInv, JoinedAreMembers, Cli!OneSessionAtATime, Cli!Edge
<1>2. ASSUME NEW c \in Clients, NEW s \in Chats, NEW n \in DOMAIN events[s], Covered(c, s, n)
      PROVE  n \in seen[c].at \/ Cli!Coming(c, s, n) \/ <<s, n>> \in lost
  <2>1. CASE Sent(c, s, n)
    BY <2>1 DEF Sent, Cli!Coming, Cli!Edge
  <2>2. CASE OnBus(c, s, n)
    BY <2>2 DEF OnBus, Cli!Coming, Cli!Edge
  <2>3. CASE BeingShown(c, s, n)
    <3>1. PICK d \in Clients : EdgeOf[d] = EdgeOf[c] /\ say[d] = [session |-> s, event |-> n]
      BY <2>3 DEF BeingShown
    <3>2. CASE say[d] # None
      BY <3>1, <3>2 DEF Cli!Coming, Cli!Edge
    <3>3. CASE say[d] = None
      <4>1. n \in 0..MaxEvents
        BY ClientsAssumption DEF ClientsInv, ClientsTyped, EventsTyped
      <4> QED
        BY <3>1, <3>3, <4>1, RecordsAssumption
    <3> QED
      BY <3>2, <3>3
  <2> QED
    BY <1>2, <2>1, <2>2, <2>3 DEF Covered
<1>3. Cli!NoGap
  BY <1>2 DEF Cli!NoGap, ClientsInv, Gapfree, Gapless, Due, Cli!Edge
<1> QED
  BY <1>1, <1>3

-----------------------------------------------------------------------------
(* What a brain sends is made, and sent on, with any edges to go.            *)
LEMMA SendingIsMade ==
    ASSUME NEW s \in Chats, NEW n \in 0..MaxEvents
    PROVE  [session |-> s, event |-> n, to |-> None] \in Sending
<1>1. None \in (SUBSET Edges) \cup {None}
  OBVIOUS
<1> QED
  BY <1>1, Zenon DEF Sending

LEMMA SendingGoesOn ==
    ASSUME NEW r \in Sending, NEW t \in SUBSET Edges
    PROVE  /\ r.session \in Chats /\ r.event \in 0..MaxEvents
           /\ r.to = None \/ r.to \in SUBSET Edges
           /\ [r EXCEPT !.to = t] \in Sending /\ [r EXCEPT !.to = t].to = t
           /\ [r EXCEPT !.to = t].session = r.session /\ [r EXCEPT !.to = t].event = r.event
<1>1. t \in (SUBSET Edges) \cup {None}
  OBVIOUS
<1> DEFINE To == (SUBSET Edges) \cup {None}
<1>2. r \in [session : Chats, event : 0..MaxEvents, to : To] /\ t \in To
  BY <1>1 DEF Sending
<1>3. r.to = None \/ r.to \in SUBSET Edges
  BY <1>2
<1> HIDE DEF To
<1>4. [r EXCEPT !.to = t] \in [session : Chats, event : 0..MaxEvents, to : To]
  BY <1>2
<1> QED
  BY <1>2, <1>3, <1>4 DEF Sending, To

(* The types are kept by every action.                                       *)
LEMMA BrainKeepsTypes ==
    ASSUME ClientsTyped, NEW b \in Brains,
           \/ \E s \in Chats : Cli!appendAgentSessionEvent(b, s) \/ Cli!setAgentSessionPinnedExecutor(b, s)
           \/ Cli!smembers(b) \/ Cli!broadcastToSessionEdges(b) \/ Cli!BrainDies(b)
    PROVE  ClientsTyped'
<1> USE ClientsAssumption DEF ClientsTyped
<1>1. ASSUME NEW s \in Chats, Cli!appendAgentSessionEvent(b, s) PROVE ClientsTyped'
  <2>1. events[s] \in Seq({"brain"} \cup Edges) /\ Len(events[s]) \in Nat
    BY DEF EventsTyped
  <2>2. Len(events[s]) + 1 \in 0..MaxEvents
    BY <1>1, <2>1 DEF Cli!appendAgentSessionEvent
  <2>3. EventsTyped'
    BY <1>1, <2>1, <2>2 DEF Cli!appendAgentSessionEvent, EventsTyped
  <2>4. [session |-> s, event |-> Len(events[s]) + 1, to |-> None] \in Sending
    BY <2>2, SendingIsMade
  <2>5. RoutingTyped'
    BY <1>1, <2>4 DEF Cli!appendAgentSessionEvent, RoutingTyped
  <2> QED
    BY <1>1, <2>3, <2>5 DEF Cli!appendAgentSessionEvent, SocketsTyped
<1>2. ASSUME NEW s \in Chats, Cli!setAgentSessionPinnedExecutor(b, s) PROVE ClientsTyped'
  <2>1. pin[s] + 1 \in 0..MaxPins
    BY <1>2 DEF Cli!setAgentSessionPinnedExecutor, EventsTyped
  <2>2. EventsTyped'
    BY <1>2, <2>1 DEF Cli!setAgentSessionPinnedExecutor, EventsTyped
  <2>3. [session |-> s, event |-> 0, to |-> None] \in Sending
    BY SendingIsMade
  <2>4. RoutingTyped'
    BY <1>2, <2>3 DEF Cli!setAgentSessionPinnedExecutor, RoutingTyped
  <2> QED
    BY <1>2, <2>2, <2>4 DEF Cli!setAgentSessionPinnedExecutor, SocketsTyped
<1>3. CASE Cli!smembers(b)
  <2>1. brain[b] \in Sending
    BY <1>3 DEF Cli!smembers, RoutingTyped
  <2>2. [brain[b] EXCEPT !.to = presence[brain[b].session]] \in Sending
    BY <2>1, SendingGoesOn DEF RoutingTyped
  <2>3. brain' = [brain EXCEPT ![b] = [brain[b] EXCEPT !.to = presence[brain[b].session]]]
    BY <1>3 DEF Cli!smembers
  <2>4. RoutingTyped'
    BY <1>3, <2>2, <2>3 DEF Cli!smembers, RoutingTyped
  <2> QED
    BY <1>3, <2>4 DEF Cli!smembers, EventsTyped, SocketsTyped
<1>4. CASE Cli!broadcastToSessionEdges(b)
  <2>1. /\ brain[b] \in Sending /\ brain[b].to \in SUBSET Edges
        /\ brain[b].session \in Chats /\ brain[b].event \in 0..MaxEvents
    BY <1>4, SendingGoesOn DEF Cli!broadcastToSessionEdges, RoutingTyped
  <2>2. UNCHANGED <<events, pin, members, presence, sock, join, say, seen, lapsed, lost>>
    BY <1>4 DEF Cli!broadcastToSessionEdges
  <2>3. CASE brain' = [brain EXCEPT ![b] = None] /\ UNCHANGED bus
    <3>1. RoutingTyped'
      BY <2>2, <2>3 DEF RoutingTyped
    <3> QED
      BY <2>2, <3>1 DEF EventsTyped, SocketsTyped
  <2>4. ASSUME NEW e \in brain[b].to,
               bus' = [bus EXCEPT ![e] = Append(@, [session |-> brain[b].session,
                                                    event |-> brain[b].event,
                                                    pin |-> pin[brain[b].session]])],
               brain' = [brain EXCEPT ![b].to = @ \ {e}]
        PROVE  ClientsTyped'
    <3> DEFINE cmd == [session |-> brain[b].session, event |-> brain[b].event,
                       pin |-> pin[brain[b].session]]
    <3>1. cmd \in Broadcast
      BY <2>1 DEF Broadcast, EventsTyped
    <3>2. [brain[b] EXCEPT !.to = brain[b].to \ {e}] \in Sending
      BY <2>1, SendingGoesOn
    <3>3. brain' = [brain EXCEPT ![b] = [brain[b] EXCEPT !.to = brain[b].to \ {e}]]
      BY <2>4
    <3>4. bus[e] \in Seq(Broadcast) /\ bus' = [bus EXCEPT ![e] = Append(bus[e], cmd)]
      BY <2>1, <2>4 DEF RoutingTyped
    <3> HIDE DEF cmd
    <3> DEFINE r == [brain[b] EXCEPT !.to = brain[b].to \ {e}]
    <3> HIDE DEF r
    <3>5. brain' \in [Brains -> Sending \cup {None}]
      BY <3>2, <3>3 DEF RoutingTyped, r
    <3>6. Append(bus[e], cmd) \in Seq(Broadcast)
      BY <3>1, <3>4
    <3>7. bus' \in [Edges -> Seq(Broadcast)]
      BY <3>4, <3>6 DEF RoutingTyped
    <3>8. RoutingTyped'
      BY <2>2, <3>5, <3>7 DEF RoutingTyped
    <3> QED
      BY <2>2, <3>8 DEF EventsTyped, SocketsTyped
  <2> QED
    BY <1>4, <2>3, <2>4 DEF Cli!broadcastToSessionEdges
<1>5. CASE Cli!BrainDies(b)
  BY <1>5 DEF Cli!BrainDies, EventsTyped, RoutingTyped, SocketsTyped
<1> QED
  BY <1>1, <1>2, <1>3, <1>4, <1>5

LEMMA EdgeKeepsTypes ==
    ASSUME ClientsTyped, NEW e \in Edges, Cli!clientBroadcast(e)
    PROVE  /\ ClientsTyped' /\ Head(bus[e]) \in Broadcast /\ bus[e] # <<>>
           /\ bus' = [bus EXCEPT ![e] = Tail(bus[e])]
           /\ \A c \in Clients :
                 /\ seen'[c].from = seen[c].from /\ seen[c].at \subseteq seen'[c].at
                 /\ c \in members[e][Head(bus[e]).session] /\ Head(bus[e]).event # 0 =>
                       Head(bus[e]).event \in seen'[c].at
<1> USE ClientsAssumption DEF ClientsTyped
<1> DEFINE cmd == Head(bus[e])
           next(c) == IF c \notin members[e][cmd.session] THEN seen[c]
                      ELSE IF cmd.event = 0 THEN [seen[c] EXCEPT !.pin = cmd.pin]
                      ELSE [seen[c] EXCEPT !.at = @ \cup {cmd.event}]
           Seen == [at : SUBSET Nat, from : Nat, pin : 0..MaxPins]
<1>1. bus[e] \in Seq(Broadcast) /\ bus[e] # <<>>
  BY DEF Cli!clientBroadcast, RoutingTyped
<1>2. cmd \in Broadcast /\ Tail(bus[e]) \in Seq(Broadcast)
  BY <1>1
<1>3. cmd.event \in Nat /\ cmd.pin \in 0..MaxPins
  BY <1>2 DEF Broadcast
<1>4. /\ bus' = [bus EXCEPT ![e] = Tail(bus[e])] /\ seen' = [c \in Clients |-> next(c)]
      /\ UNCHANGED <<events, pin, members, presence, brain, sock, join, say, lapsed, lost>>
  BY DEF Cli!clientBroadcast
<1> HIDE DEF cmd
<1>5. ASSUME NEW c \in Clients
      PROVE  /\ next(c) \in Seen /\ next(c).from = seen[c].from /\ seen[c].at \subseteq next(c).at
             /\ c \in members[e][cmd.session] /\ cmd.event # 0 => cmd.event \in next(c).at
  <2>1. seen[c] \in Seen
    BY DEF SocketsTyped
  <2>2. CASE c \notin members[e][cmd.session]
    BY <2>1, <2>2
  <2>3. CASE c \in members[e][cmd.session] /\ cmd.event = 0
    BY <1>3, <2>1, <2>3
  <2>4. CASE c \in members[e][cmd.session] /\ cmd.event # 0
    BY <1>3, <2>1, <2>4
  <2> QED
    BY <2>2, <2>3, <2>4
<1> HIDE DEF next
<1>6. SocketsTyped'
  BY <1>4, <1>5 DEF SocketsTyped
<1>7. RoutingTyped'
  BY <1>2, <1>4 DEF RoutingTyped
<1>8. EventsTyped'
  BY <1>4 DEF EventsTyped
<1> QED
  BY <1>1, <1>2, <1>4, <1>5, <1>6, <1>7, <1>8 DEF cmd

(* Who leaves goes from the set of the session it has joined, and nobody else.*)
LEMMA LeftIsOut ==
    ASSUME ClientsTyped, NEW c \in Clients
    PROVE  /\ Cli!Left(c) \in [Edges -> [Chats -> SUBSET Clients]]
           /\ \A d \in Clients, s \in Chats :
                 d \in Cli!Left(c)[EdgeOf[d]][s] <=>
                     d \in members[EdgeOf[d]][s] /\ ~(d = c /\ sock[c].joined = s)
<1> DEFINE e == EdgeOf[c]
           t == sock[c].joined
<1>1. /\ members \in [Edges -> [Chats -> SUBSET Clients]] /\ e \in Edges
      /\ t \in Chats \cup {None} /\ None \notin Chats /\ EdgeOf \in [Clients -> Edges]
  BY ClientsAssumption DEF ClientsTyped, RoutingTyped, SocketsTyped
<1>2. Cli!Left(c) = IF t = None THEN members ELSE [members EXCEPT ![e][t] = @ \ {c}]
  BY DEF Cli!Left, Cli!Edge
<1> HIDE DEF e, t
<1>3. CASE t = None
  BY <1>1, <1>2, <1>3 DEF t
<1>4. CASE t # None
  <2>1. /\ t \in Chats /\ members[e] \in [Chats -> SUBSET Clients]
        /\ members[e][t] \ {c} \in SUBSET Clients
    BY <1>1, <1>4
  <2> DEFINE m == [members[e] EXCEPT ![t] = members[e][t] \ {c}]
  <2>2. m \in [Chats -> SUBSET Clients] /\ \A s \in Chats : m[s] = IF s = t THEN members[e][t] \ {c} ELSE members[e][s]
    BY <2>1
  <2>3. Cli!Left(c) = [members EXCEPT ![e] = m]
    BY <1>1, <1>2, <1>4
  <2> HIDE DEF m
  <2>4. Cli!Left(c) \in [Edges -> [Chats -> SUBSET Clients]]
    BY <1>1, <2>2, <2>3
  <2>5. ASSUME NEW d \in Clients, NEW s \in Chats
        PROVE  d \in Cli!Left(c)[EdgeOf[d]][s] <=> d \in members[EdgeOf[d]][s] /\ ~(d = c /\ t = s)
    <3>1. EdgeOf[d] \in Edges
      BY <1>1
    <3>2. Cli!Left(c)[EdgeOf[d]] = IF EdgeOf[d] = e THEN m ELSE members[EdgeOf[d]]
      BY <1>1, <2>3, <3>1
    <3>3. CASE EdgeOf[d] = e
      BY <2>2, <3>2, <3>3
    <3>4. CASE EdgeOf[d] # e
      BY <3>2, <3>4 DEF e
    <3> QED
      BY <3>3, <3>4
  <2> QED
    BY <2>4, <2>5 DEF t
<1> QED
  BY <1>3, <1>4

(* The socket of one client, and what its edge serves it.                    *)
LEMMA ClientKeepsTypes ==
    ASSUME ClientsTyped, NEW c \in Clients,
           \/ \E s \in Chats : Cli!sessionJoin(c, s) \/ Cli!sessionLeave(c, s) \/ Cli!userMessage(c, s)
           \/ Cli!wireClientSocket(c) \/ Cli!sadd(c) \/ Cli!saddFails(c)
           \/ Cli!socketCloses(c)
    PROVE  ClientsTyped'
<1> USE ClientsAssumption DEF ClientsTyped
<1>0. EdgeOf[c] \in Edges
  OBVIOUS
<1>1. ASSUME NEW s \in Chats, Cli!sessionJoin(c, s) PROVE ClientsTyped'
  <2>1. [session |-> s, at |-> "read", pin |-> pin[s]] \in Joining
    BY DEF Joining, EventsTyped
  <2>2. SocketsTyped'
    BY <1>1, <2>1 DEF Cli!sessionJoin, SocketsTyped
  <2> QED
    BY <1>1, <2>2 DEF Cli!sessionJoin, EventsTyped, RoutingTyped
<1>2. ASSUME NEW s \in Chats, Cli!sessionLeave(c, s) PROVE ClientsTyped'
  <2>1. SocketsTyped'
    BY <1>2 DEF Cli!sessionLeave, SocketsTyped
  <2>2. RoutingTyped'
    BY <1>0, <1>2 DEF Cli!sessionLeave, RoutingTyped, Cli!Edge
  <2> QED
    BY <1>2, <2>1, <2>2 DEF Cli!sessionLeave, EventsTyped
<1>3. ASSUME NEW s \in Chats, Cli!userMessage(c, s) PROVE ClientsTyped'
  <2>1. events[s] \in Seq({"brain"} \cup Edges) /\ Len(events[s]) \in Nat
    BY DEF EventsTyped
  <2>2. Len(events[s]) + 1 \in 0..MaxEvents
    BY <1>3, <2>1 DEF Cli!userMessage
  <2>3. EventsTyped'
    BY <1>0, <1>3, <2>1, <2>2 DEF Cli!userMessage, EventsTyped, Cli!Edge
  <2>4. [session |-> s, event |-> Len(events[s]) + 1] \in Saying
    BY <2>2 DEF Saying
  <2>5. SocketsTyped'
    BY <1>3, <2>4 DEF Cli!userMessage, SocketsTyped
  <2> QED
    BY <1>3, <2>3, <2>5 DEF Cli!userMessage, RoutingTyped
<1>4. CASE Cli!wireClientSocket(c)
  <2>1. SocketsTyped'
    BY <1>4 DEF Cli!wireClientSocket, SocketsTyped
  <2> QED
    BY <1>4, <2>1 DEF Cli!wireClientSocket, EventsTyped, RoutingTyped
<1>5. CASE Cli!sadd(c) \/ Cli!saddFails(c)
  <2>1. join[c] \in Joining /\ join' = [join EXCEPT ![c] = [join[c] EXCEPT !.at = "noted"]]
    BY <1>5 DEF Cli!sadd, Cli!saddFails, SocketsTyped
  <2>2. [join[c] EXCEPT !.at = "noted"] \in Joining /\ join[c].session \in Chats
    BY <2>1 DEF Joining
  <2>3. SocketsTyped'
    BY <1>5, <2>1, <2>2 DEF Cli!sadd, Cli!saddFails, SocketsTyped
  <2>4. RoutingTyped'
    <3>1. presence \in [Chats -> SUBSET Edges] /\ EdgeOf[c] \in Edges
      BY <1>0, ClientsAssumption DEF RoutingTyped
    <3>2. \/ UNCHANGED presence
          \/ presence' = [presence EXCEPT ![join[c].session] = @ \cup {EdgeOf[c]}]
      BY <1>5 DEF Cli!sadd, Cli!saddFails, Cli!Edge
    <3>3. presence' \in [Chats -> SUBSET Edges]
      BY <2>2, <3>1, <3>2
    <3> QED
      BY <1>5, <3>3 DEF Cli!sadd, Cli!saddFails, RoutingTyped
  <2> QED
    BY <1>5, <2>3, <2>4 DEF Cli!sadd, Cli!saddFails, EventsTyped
<1>6. CASE Cli!socketCloses(c)
  <2>1. SocketsTyped'
    BY <1>6 DEF Cli!socketCloses, SocketsTyped
  <2>2. RoutingTyped'
    <3>1. members' \in [Edges -> [Chats -> SUBSET Clients]]
      BY <1>6, LeftIsOut DEF Cli!socketCloses
    <3> QED
      BY <1>6, <3>1 DEF Cli!socketCloses, RoutingTyped
  <2> QED
    BY <1>6, <2>1, <2>2 DEF Cli!socketCloses, EventsTyped
<1> QED
  BY <1>1, <1>2, <1>3, <1>4, <1>5, <1>6

LEMMA EntryKeepsTypes ==
    ASSUME ClientsTyped, NEW c \in Clients, Cli!addClientToSession(c)
    PROVE  /\ ClientsTyped' /\ join[c] \in Joining /\ join[c].session \in Chats
           /\ join'[c] \in Joining /\ join'[c].session = join[c].session /\ join'[c].at = "added"
           /\ sock'[c].joined = join[c].session /\ sock'[c].state = sock[c].state
           /\ \A d \in Clients : d # c => join'[d] = join[d] /\ sock'[d] = sock[d] /\ seen'[d] = seen[d]
           /\ \A d \in Clients, s \in Chats :
                 d \in members'[EdgeOf[d]][s] <=>
                     IF d = c THEN s = join[c].session \/ (d \in members[EdgeOf[d]][s] /\ sock[c].joined # s)
                     ELSE d \in members[EdgeOf[d]][s]
<1> DEFINE e == EdgeOf[c]
           t == join[c].session
           Sets == [Edges -> [Chats -> SUBSET Clients]]
           left == Cli!Left(c)
<1>1. join[c] \in Joining /\ t \in Chats /\ join[c].pin \in 0..MaxPins
  BY DEF Cli!addClientToSession, ClientsTyped, SocketsTyped, Joining
<1>2. e \in Edges /\ EdgeOf \in [Clients -> Edges]
  BY ClientsAssumption
<1>3. /\ members' = [left EXCEPT ![e][t] = @ \cup {c}] /\ sock' = [sock EXCEPT ![c].joined = t]
      /\ seen' = [seen EXCEPT ![c] = [at |-> {}, from |-> 1, pin |-> join[c].pin]]
      /\ join' = [join EXCEPT ![c].at = "added"]
      /\ UNCHANGED <<events, pin, presence, bus, brain, say, lapsed, lost>>
  BY DEF Cli!addClientToSession, Cli!Edge
<1>4. /\ left \in Sets
      /\ \A d \in Clients, s \in Chats :
            d \in left[EdgeOf[d]][s] <=>
                d \in members[EdgeOf[d]][s] /\ ~(d = c /\ sock[c].joined = s)
  BY LeftIsOut
<1> HIDE DEF left
<1>5. [join[c] EXCEPT !.at = "added"] \in Joining /\ [join[c] EXCEPT !.at = "added"].session = t
  BY <1>1 DEF Joining
<1> HIDE DEF e, t
<1>6. SocketsTyped'
  <2>1. sock' \in [Clients -> [state : {"new", "open", "closed"}, joined : Chats \cup {None}]]
    BY <1>1, <1>3 DEF ClientsTyped, SocketsTyped
  <2>2. join' \in [Clients -> Joining \cup {None}]
    BY <1>3, <1>5 DEF ClientsTyped, SocketsTyped
  <2>3. [at |-> {}, from |-> 1, pin |-> join[c].pin] \in [at : SUBSET Nat, from : Nat, pin : 0..MaxPins]
    BY <1>1
  <2>4. seen' \in [Clients -> [at : SUBSET Nat, from : Nat, pin : 0..MaxPins]]
    BY <1>3, <2>3 DEF ClientsTyped, SocketsTyped
  <2> QED
    BY <1>3, <2>1, <2>2, <2>4 DEF ClientsTyped, SocketsTyped
<1>7. /\ members' \in Sets
      /\ \A f \in Edges, s \in Chats :
            members'[f][s] = IF f = e /\ s = t THEN left[e][t] \cup {c} ELSE left[f][s]
  BY <1>1, <1>2, <1>3, <1>4
<1>8. ClientsTyped'
  BY <1>3, <1>6, <1>7 DEF ClientsTyped, RoutingTyped, EventsTyped
<1>9. ASSUME NEW d \in Clients, NEW s \in Chats
      PROVE  d \in members'[EdgeOf[d]][s] <=>
                 IF d = c THEN s = t \/ (d \in members[EdgeOf[d]][s] /\ sock[c].joined # s)
                 ELSE d \in members[EdgeOf[d]][s]
  <2>1. members'[EdgeOf[d]][s] = IF EdgeOf[d] = e /\ s = t THEN left[e][t] \cup {c} ELSE left[EdgeOf[d]][s]
    BY <1>2, <1>7
  <2>2. CASE d = c
    BY <1>4, <2>1, <2>2 DEF e
  <2>3. CASE d # c
    BY <1>4, <2>1, <2>3
  <2> QED
    BY <2>2, <2>3
<1>10. /\ join'[c] \in Joining /\ join'[c].session = t /\ join'[c].at = "added"
       /\ sock'[c].joined = t /\ sock'[c].state = sock[c].state
       /\ \A d \in Clients : d # c => join'[d] = join[d] /\ sock'[d] = sock[d] /\ seen'[d] = seen[d]
  BY <1>1, <1>3, <1>5 DEF ClientsTyped, SocketsTyped, Joining
<1> QED
  BY <1>1, <1>8, <1>9, <1>10 DEF t

(* The tail has every event from the oldest one it has.                      *)
LEMMA TailKeepsTypes ==
    ASSUME ClientsTyped, NEW c \in Clients, Cli!listAgentSessionEventsTail(c)
    PROVE  /\ ClientsTyped' /\ join[c].session \in Chats /\ join'[c] = None
           /\ \A d \in Clients : d # c => join'[d] = join[d] /\ seen'[d] = seen[d]
           /\ \A n \in DOMAIN events[join[c].session] : n >= seen'[c].from => n \in seen'[c].at
<1> DEFINE s == join[c].session
           L == Len(events[s])
           f == IF L > TailLimit THEN L - TailLimit + 1 ELSE 1
           q == [seen[c] EXCEPT !.at = seen[c].at \cup Cli!TailOf(s), !.from = f]
<1>1. join[c] \in Joining /\ s \in Chats
  BY DEF Cli!listAgentSessionEventsTail, ClientsTyped, SocketsTyped, Joining
<1>2. seen[c] \in [at : SUBSET Nat, from : Nat, pin : 0..MaxPins]
  BY DEF ClientsTyped, SocketsTyped
<1>3. L \in Nat /\ DOMAIN events[s] = 1..L
  BY <1>1 DEF ClientsTyped, EventsTyped
<1>4. f \in Nat /\ Cli!TailOf(s) \in SUBSET Nat /\ \A n \in 1..L : n >= f => n \in Cli!TailOf(s)
  BY <1>3, ClientsAssumption DEF Cli!TailOf
<1>5. seen' = [seen EXCEPT ![c] = q] /\ join' = [join EXCEPT ![c] = None]
  BY <1>2 DEF Cli!listAgentSessionEventsTail, ClientsTyped, SocketsTyped
<1>6. UNCHANGED <<events, pin, members, presence, bus, brain, sock, say, lapsed, lost>>
  BY DEF Cli!listAgentSessionEventsTail
<1> HIDE DEF f
<1>7. /\ q \in [at : SUBSET Nat, from : Nat, pin : 0..MaxPins] /\ q.from = f
      /\ q.at = seen[c].at \cup Cli!TailOf(s)
  BY <1>2, <1>4
<1> HIDE DEF q, s
<1>8. SocketsTyped'
  BY <1>5, <1>6, <1>7 DEF ClientsTyped, SocketsTyped
<1>9. ClientsTyped'
  BY <1>6, <1>8 DEF ClientsTyped, EventsTyped, RoutingTyped
<1>10. seen'[c] = q /\ join'[c] = None /\ \A d \in Clients : d # c => join'[d] = join[d] /\ seen'[d] = seen[d]
  BY <1>5 DEF ClientsTyped, SocketsTyped
<1> QED
  BY <1>1, <1>3, <1>4, <1>7, <1>9, <1>10 DEF s

(* What a client says is shown to the members on its edge.                   *)
LEMMA ShowKeepsTypes ==
    ASSUME ClientsTyped, NEW c \in Clients, Cli!showUserMessage(c)
    PROVE  /\ ClientsTyped' /\ say[c] \in Saying
           /\ say'[c] = None /\ \A d \in Clients : d # c => say'[d] = say[d]
           /\ \A d \in Clients :
                 /\ seen'[d].from = seen[d].from /\ seen[d].at \subseteq seen'[d].at
                 /\ d \in members[EdgeOf[c]][say[c].session] => say[c].event \in seen'[d].at
<1> DEFINE q == say[c]
           Seen == [at : SUBSET Nat, from : Nat, pin : 0..MaxPins]
           next(d) == IF d \in members[EdgeOf[c]][q.session]
                      THEN [seen[d] EXCEPT !.at = @ \cup {q.event}] ELSE seen[d]
<1>1. q \in Saying /\ q.event \in Nat
  BY DEF Cli!showUserMessage, ClientsTyped, SocketsTyped, Saying
<1>2. /\ seen' = [d \in Clients |-> next(d)] /\ say' = [say EXCEPT ![c] = None]
      /\ UNCHANGED <<events, pin, members, presence, bus, brain, sock, join, lapsed, lost>>
  BY DEF Cli!showUserMessage, Cli!Edge
<1> HIDE DEF q
<1>3. ASSUME NEW d \in Clients
      PROVE  /\ next(d) \in Seen /\ next(d).from = seen[d].from /\ seen[d].at \subseteq next(d).at
             /\ d \in members[EdgeOf[c]][q.session] => q.event \in next(d).at
  <2>1. seen[d] \in Seen
    BY DEF ClientsTyped, SocketsTyped
  <2>2. CASE d \notin members[EdgeOf[c]][q.session]
    BY <2>1, <2>2
  <2>3. CASE d \in members[EdgeOf[c]][q.session]
    BY <1>1, <2>1, <2>3
  <2> QED
    BY <2>2, <2>3
<1> HIDE DEF next
<1>4. SocketsTyped'
  BY <1>2, <1>3 DEF ClientsTyped, SocketsTyped
<1>5. ClientsTyped'
  BY <1>2, <1>4 DEF ClientsTyped, RoutingTyped, EventsTyped
<1>6. say'[c] = None /\ \A d \in Clients : d # c => say'[d] = say[d]
  BY <1>2 DEF ClientsTyped, SocketsTyped
<1> QED
  BY <1>1, <1>2, <1>3, <1>5, <1>6 DEF q

-----------------------------------------------------------------------------
(* Where clients are: one moves, and the others stay where they are.         *)
Places == JoinedAreMembers /\ JoinsInOrder /\ EdgesAreNoted

LEMMA ClientMoves ==
    ASSUME Places, NEW c \in Clients,
           \A d \in Clients : d # c => sock'[d] = sock[d] /\ join'[d] = join[d],
           \A d \in Clients, s \in Chats :
              d # c => (d \in members'[EdgeOf[d]][s] <=> d \in members[EdgeOf[d]][s]),
           \A s \in Chats : c \in members'[EdgeOf[c]][s] <=> sock'[c].joined = s,
           sock'[c].state = "new" => sock'[c].joined = None /\ join'[c] = None,
           join'[c] # None /\ join'[c].at \in {"added", "noted"} =>
              sock'[c].joined \in {None, join'[c].session},
           lapsed \subseteq lapsed', \A s \in Chats : presence[s] \subseteq presence'[s],
           \A s \in Chats :
              sock'[c].joined = s /\ (join'[c] = None \/ join'[c].at = "noted") /\ s \notin lapsed' =>
                 EdgeOf[c] \in presence'[s]
    PROVE  Places'
<1>1. JoinedAreMembers'
  BY DEF Places, JoinedAreMembers
<1>2. JoinsInOrder'
  BY DEF Places, JoinsInOrder, Entered
<1>3. EdgesAreNoted'
  BY DEF Places, EdgesAreNoted, Noted
<1> QED
  BY <1>1, <1>2, <1>3 DEF Places

(* No action lets a client be where it has not joined.                       *)
LEMMA PlacesAreKept ==
    ASSUME ClientsTyped, Places, ClientsTyped',
           \/ UNCHANGED <<members, presence, sock, join, lapsed>>
           \/ \E s \in Chats : Cli!presenceExpires(s)
           \/ \E c \in Clients :
                 \/ \E s \in Chats : Cli!sessionJoin(c, s) \/ Cli!sessionLeave(c, s)
                 \/ Cli!wireClientSocket(c) \/ Cli!addClientToSession(c) \/ Cli!sadd(c)
                 \/ Cli!saddFails(c) \/ Cli!listAgentSessionEventsTail(c) \/ Cli!socketCloses(c)
    PROVE  Places'
<1>0. EdgeOf \in [Clients -> Edges] /\ None \notin Chats
  BY ClientsAssumption
<1>1. CASE UNCHANGED <<members, presence, sock, join, lapsed>>
  BY <1>1 DEF Places, JoinedAreMembers, JoinsInOrder, EdgesAreNoted, Entered, Noted
<1>2. ASSUME NEW s \in Chats, Cli!presenceExpires(s) PROVE Places'
  BY <1>2 DEF Cli!presenceExpires, Places, JoinedAreMembers, JoinsInOrder, EdgesAreNoted, Entered, Noted,
              ClientsTyped, RoutingTyped
<1>j. ASSUME NEW c \in Clients
      PROVE  /\ \A s \in Chats : c \in members[EdgeOf[c]][s] <=> sock[c].joined = s
             /\ sock[c].state = "new" => sock[c].joined = None /\ join[c] = None
             /\ join[c] # None /\ join[c].at \in {"added", "noted"} =>
                  sock[c].joined \in {None, join[c].session}
             /\ \A s \in Chats :
                  sock[c].joined = s /\ (join[c] = None \/ join[c].at = "noted") /\ s \notin lapsed =>
                     EdgeOf[c] \in presence[s]
  BY DEF Places, JoinedAreMembers, JoinsInOrder, EdgesAreNoted, Entered, Noted
<1>3. ASSUME NEW c \in Clients, NEW s \in Chats, Cli!sessionJoin(c, s) PROVE Places'
  <2>1. /\ UNCHANGED <<members, presence, sock, lapsed>> /\ sock[c].state = "open"
        /\ \A d \in Clients : d # c => join'[d] = join[d]
        /\ join'[c] = [session |-> s, at |-> "read", pin |-> pin[s]]
    BY <1>3 DEF Cli!sessionJoin, Cli!Open, ClientsTyped, SocketsTyped
  <2>2. [session |-> s, at |-> "read", pin |-> pin[s]] # None
    <3>1. [session |-> s, at |-> "read", pin |-> pin[s]] \in Joining
      BY DEF Joining, ClientsTyped, EventsTyped
    <3> QED
      BY <3>1, RecordsAssumption DEF Joining
  <2>3. join'[c] # None /\ join'[c].at = "read"
    BY <2>1, <2>2
  <2> QED
    BY <1>j, <2>1, <2>3, ClientMoves
<1>4. ASSUME NEW c \in Clients, NEW s \in Chats, Cli!sessionLeave(c, s) PROVE Places'
  <2>1. /\ UNCHANGED <<join, presence, lapsed>> /\ sock[c].state = "open" /\ sock'[c].state = "open"
        /\ \A d \in Clients : d # c => sock'[d] = sock[d]
        /\ sock'[c].joined = IF sock[c].joined = s THEN None ELSE sock[c].joined
    BY <1>4 DEF Cli!sessionLeave, Cli!Open, ClientsTyped, SocketsTyped
  <2>2. ASSUME NEW d \in Clients, NEW t \in Chats
        PROVE  d \in members'[EdgeOf[d]][t] <=> d \in members[EdgeOf[d]][t] /\ ~(d = c /\ t = s)
    <3>1. /\ members' = [members EXCEPT ![EdgeOf[c]][s] = @ \ {c}]
          /\ members \in [Edges -> [Chats -> SUBSET Clients]]
      BY <1>4 DEF Cli!sessionLeave, Cli!Edge, ClientsTyped, RoutingTyped
    <3>2. EdgeOf[c] \in Edges /\ EdgeOf[d] \in Edges
      BY <1>0
    <3>3. members'[EdgeOf[d]][t] =
            IF EdgeOf[d] = EdgeOf[c] /\ t = s THEN members[EdgeOf[d]][t] \ {c} ELSE members[EdgeOf[d]][t]
      BY <3>1, <3>2
    <3>4. CASE d = c
      BY <3>3, <3>4
    <3>5. CASE d # c
      BY <3>3, <3>5
    <3> QED
      BY <3>4, <3>5
  <2> QED
    BY <1>0, <1>j, <2>1, <2>2, ClientMoves
<1>5. ASSUME NEW c \in Clients, Cli!wireClientSocket(c) PROVE Places'
  <2>1. /\ UNCHANGED <<members, presence, join, lapsed>> /\ sock[c].state = "new"
        /\ \A d \in Clients : d # c => sock'[d] = sock[d]
        /\ sock'[c].joined = sock[c].joined /\ sock'[c].state = "open"
    BY <1>5 DEF Cli!wireClientSocket, ClientsTyped, SocketsTyped
  <2> QED
    BY <1>j, <2>1, ClientMoves
<1>6. ASSUME NEW c \in Clients, Cli!addClientToSession(c) PROVE Places'
  <2>1. UNCHANGED <<presence, lapsed>> /\ join[c] # None
    BY <1>6 DEF Cli!addClientToSession
  <2>2. /\ join[c].session \in Chats /\ join'[c] \in Joining
        /\ join'[c].session = join[c].session /\ join'[c].at = "added"
        /\ sock'[c].joined = join[c].session /\ sock'[c].state = sock[c].state
        /\ \A d \in Clients : d # c => join'[d] = join[d] /\ sock'[d] = sock[d]
        /\ \A d \in Clients, s \in Chats :
              d \in members'[EdgeOf[d]][s] <=>
                  IF d = c THEN s = join[c].session \/ (d \in members[EdgeOf[d]][s] /\ sock[c].joined # s)
                  ELSE d \in members[EdgeOf[d]][s]
    BY <1>6, EntryKeepsTypes
  <2>3. join'[c] # None
    BY <2>2, RecordsAssumption DEF Joining
  <2>4. \A s \in Chats : c \in members'[EdgeOf[c]][s] <=> sock'[c].joined = s
    BY <1>j, <2>2
  <2>5. sock'[c].state # "new"
    BY <1>j, <2>1, <2>2
  <2> QED
    BY <2>1, <2>2, <2>3, <2>4, <2>5, ClientMoves
<1>7. ASSUME NEW c \in Clients, Cli!sadd(c) \/ Cli!saddFails(c) PROVE Places'
  <2>1. /\ join[c] \in Joining /\ join[c] # None /\ join[c].at = "added" /\ join[c].session \in Chats
        /\ join' = [join EXCEPT ![c] = [join[c] EXCEPT !.at = "noted"]]
        /\ UNCHANGED <<members, sock>>
    BY <1>7 DEF Cli!sadd, Cli!saddFails, ClientsTyped, SocketsTyped, Joining
  <2>2. /\ join'[c].session = join[c].session /\ join'[c].at = "noted"
        /\ \A d \in Clients : d # c => join'[d] = join[d]
    BY <2>1 DEF ClientsTyped, SocketsTyped, Joining
  <2>3. /\ lapsed \subseteq lapsed' /\ \A s \in Chats : presence[s] \subseteq presence'[s]
        /\ EdgeOf[c] \in presence'[join[c].session] \/ join[c].session \in lapsed'
    <3>1. presence \in [Chats -> SUBSET Edges]
      BY DEF ClientsTyped, RoutingTyped
    <3>2. CASE Cli!sadd(c)
      <4>1. /\ presence' = [presence EXCEPT ![join[c].session] = @ \cup {EdgeOf[c]}]
            /\ UNCHANGED lapsed
        BY <3>2 DEF Cli!sadd, Cli!Edge
      <4> QED
        BY <2>1, <3>1, <4>1
    <3>3. CASE Cli!saddFails(c)
      BY <3>3 DEF Cli!saddFails
    <3> QED
      BY <1>7, <3>2, <3>3
  <2>4. sock[c].joined \in {None, join[c].session} /\ sock[c].state # "new"
    BY <1>j, <2>1
  <2> QED
    BY <1>0, <1>j, <2>1, <2>2, <2>3, <2>4, ClientMoves
<1>8. ASSUME NEW c \in Clients, Cli!listAgentSessionEventsTail(c) PROVE Places'
  <2>1. /\ UNCHANGED <<members, presence, sock, lapsed>> /\ join[c] # None /\ join[c].at = "noted"
        /\ join'[c] = None /\ \A d \in Clients : d # c => join'[d] = join[d]
    BY <1>8, TailKeepsTypes DEF Cli!listAgentSessionEventsTail
  <2> QED
    BY <1>j, <2>1, ClientMoves
<1>9. ASSUME NEW c \in Clients, Cli!socketCloses(c) PROVE Places'
  <2>1. /\ UNCHANGED <<presence, join, lapsed>> /\ members' = Cli!Left(c)
        /\ \A d \in Clients : d # c => sock'[d] = sock[d]
        /\ sock'[c] = [state |-> "closed", joined |-> None]
    BY <1>9 DEF Cli!socketCloses, ClientsTyped, SocketsTyped
  <2>2. \A d \in Clients, s \in Chats :
           d \in members'[EdgeOf[d]][s] <=> d \in members[EdgeOf[d]][s] /\ ~(d = c /\ sock[c].joined = s)
    BY <2>1, LeftIsOut
  <2>3. sock'[c].joined = None /\ sock'[c].state = "closed"
    BY <2>1
  <2> QED
    BY <1>0, <1>j, <2>1, <2>2, <2>3, ClientMoves
<1> QED
  BY <1>1, <1>2, <1>3, <1>4, <1>5, <1>6, <1>7, <1>8, <1>9

-----------------------------------------------------------------------------
(* What will have been sent: the parts of Covered in the next state.         *)
WillCover(c, s, n) ==
    \/ n \in seen'[c].at
    \/ \E b \in Brains : /\ brain'[b] # None /\ brain'[b].session = s /\ brain'[b].event = n
                         /\ brain'[b].to = None \/ EdgeOf[c] \in brain'[b].to
    \/ \E i \in DOMAIN bus'[EdgeOf[c]] : bus'[EdgeOf[c]][i].session = s /\ bus'[EdgeOf[c]][i].event = n
    \/ \E d \in Clients : EdgeOf[d] = EdgeOf[c] /\ say'[d] = [session |-> s, event |-> n]
    \/ <<s, n>> \in lost'

LEMMA WillCoverIs == \A c, s, n : WillCover(c, s, n) <=> Covered(c, s, n)'
BY DEF WillCover, Covered, Sent, OnBus, BeingShown

(* A step in which no client moves: what covered an event goes on to, and a  *)
(* new event is covered from the start.                                      *)
LEMMA GapsStayClosed ==
    ASSUME Gapfree, UNCHANGED <<sock, join>>, lapsed \subseteq lapsed',
           \A c \in Clients : seen'[c].from = seen[c].from,
           \A s \in Chats : \A n \in DOMAIN events'[s] :
              \/ n \in DOMAIN events[s] /\ events'[s][n] = events[s][n]
              \/ \A c \in Clients : events'[s][n] \in {"brain", EdgeOf[c]} => WillCover(c, s, n),
           \A c \in Clients, s \in Chats : \A n \in DOMAIN events[s] :
              Cli!Watches(c, s) /\ s \notin lapsed /\ Covered(c, s, n) => WillCover(c, s, n)
    PROVE  Gapfree'
<1>1. SUFFICES ASSUME NEW c \in Clients, NEW s \in Chats, Cli!Watches(c, s)', s \notin lapsed',
                      NEW n \in DOMAIN events'[s], Due(c, s, n)'
               PROVE  Covered(c, s, n)'
  BY DEF Gapfree, Gapless
<1>2. Cli!Watches(c, s) /\ s \notin lapsed
  BY <1>1 DEF Cli!Watches, Cli!Open
<1>3. n >= seen[c].from /\ events'[s][n] \in {"brain", EdgeOf[c]}
  BY <1>1 DEF Due
<1>4. WillCover(c, s, n)
  BY <1>2, <1>3 DEF Gapfree, Gapless, Due
<1> QED
  BY <1>4, WillCoverIs

(* A step in which one client moves: where it is then, it has no gap.        *)
LEMMA MoverHasNoGap ==
    ASSUME Gapfree, NEW c \in Clients, UNCHANGED <<events, bus, brain, say, lost>>,
           \A d \in Clients : d # c => sock'[d] = sock[d] /\ join'[d] = join[d] /\ seen'[d] = seen[d],
           lapsed \subseteq lapsed',
           \A s \in Chats : Cli!Watches(c, s)' =>
              \/ Cli!Watches(c, s) /\ seen'[c] = seen[c]
              \/ \A n \in DOMAIN events[s] : n >= seen'[c].from => n \in seen'[c].at
    PROVE  Gapfree'
<1>1. SUFFICES ASSUME NEW d \in Clients, NEW s \in Chats, Cli!Watches(d, s)', s \notin lapsed',
                      NEW n \in DOMAIN events[s], Due(d, s, n)'
               PROVE  Covered(d, s, n)'
  BY DEF Gapfree, Gapless
<1>2. CASE Cli!Watches(d, s) /\ seen'[d] = seen[d]
  <2>1. Covered(d, s, n)
    BY <1>1, <1>2 DEF Gapfree, Gapless, Due
  <2> QED
    BY <1>2, <2>1 DEF Covered, Sent, OnBus, BeingShown
<1>3. CASE d # c
  BY <1>1, <1>2, <1>3 DEF Cli!Watches, Cli!Open
<1>4. CASE d = c /\ \A m \in DOMAIN events[s] : m >= seen'[d].from => m \in seen'[d].at
  BY <1>1, <1>4 DEF Due, Covered
<1> QED
  BY <1>1, <1>2, <1>3, <1>4

(* The brain: an event that is stored is on its way, and goes on until it is *)
(* on the bus of every edge that was found, or lost.                         *)
LEMMA BrainLeavesNoGap ==
    ASSUME ClientsInv, NEW b \in Brains,
           \/ \E s \in Chats : Cli!appendAgentSessionEvent(b, s) \/ Cli!setAgentSessionPinnedExecutor(b, s)
           \/ Cli!smembers(b) \/ Cli!broadcastToSessionEdges(b) \/ Cli!BrainDies(b)
    PROVE  Gapfree'
<1> USE DEF ClientsInv
<1>0. UNCHANGED <<sock, join, say, seen, lapsed>>
  BY DEF Cli!appendAgentSessionEvent, Cli!setAgentSessionPinnedExecutor, Cli!smembers,
         Cli!broadcastToSessionEdges, Cli!BrainDies
<1>t. /\ brain \in [Brains -> Sending \cup {None}] /\ bus \in [Edges -> Seq(Broadcast)]
      /\ EdgeOf \in [Clients -> Edges]
      /\ \A s \in Chats : /\ events[s] \in Seq({"brain"} \cup Edges) /\ Len(events[s]) \in Nat
                          /\ Len(events[s]) <= MaxEvents /\ DOMAIN events[s] = 1..Len(events[s])
  BY ClientsAssumption DEF ClientsTyped, RoutingTyped, EventsTyped
<1>s. ASSUME UNCHANGED <<bus, say, seen>>, lost \subseteq lost',
             \A c \in Clients, s \in Chats : \A n \in DOMAIN events[s] :
                Cli!Watches(c, s) /\ s \notin lapsed /\ Sent(c, s, n) => WillCover(c, s, n)
      PROVE  \A c \in Clients, s \in Chats : \A n \in DOMAIN events[s] :
                Cli!Watches(c, s) /\ s \notin lapsed /\ Covered(c, s, n) => WillCover(c, s, n)
  BY <1>s DEF Covered, OnBus, BeingShown, WillCover
<1>1. ASSUME NEW s \in Chats, Cli!appendAgentSessionEvent(b, s) PROVE Gapfree'
  <2> DEFINE m == Len(events[s]) + 1
             r == [session |-> s, event |-> m, to |-> None]
  <2>1. /\ brain[b] = None /\ events' = [events EXCEPT ![s] = Append(@, "brain")]
        /\ brain' = [brain EXCEPT ![b] = r] /\ UNCHANGED <<bus, lost>>
    BY <1>1 DEF Cli!appendAgentSessionEvent
  <2>2. m \in 0..MaxEvents
    BY <1>1, <1>t, ClientsAssumption DEF Cli!appendAgentSessionEvent
  <2>3. r \in Sending /\ r.session = s /\ r.event = m /\ r.to = None
    BY <2>2, SendingIsMade
  <2>4. r # None
    BY <2>3, RecordsAssumption DEF Sending
  <2> HIDE DEF r
  <2>5. brain'[b] = r /\ \A a \in Brains : a # b => brain'[a] = brain[a]
    BY <1>t, <2>1
  <2>6. \A c \in Clients : WillCover(c, s, m)
    BY <2>3, <2>4, <2>5 DEF WillCover
  <2>7. ASSUME NEW t \in Chats, NEW n \in DOMAIN events'[t]
        PROVE  \/ n \in DOMAIN events[t] /\ events'[t][n] = events[t][n]
               \/ t = s /\ n = m
    <3>1. CASE t # s
      BY <2>1, <3>1 DEF ClientsTyped, EventsTyped
    <3>2. CASE t = s
      <4>1. events'[s] = Append(events[s], "brain")
        BY <2>1 DEF ClientsTyped, EventsTyped
      <4> QED
        BY <1>t, <3>2, <4>1
    <3> QED
      BY <3>1, <3>2
  <2>8. \A c \in Clients, t \in Chats, n \in Nat : Sent(c, t, n) => WillCover(c, t, n)
    BY <2>1, <2>5 DEF Sent, WillCover
  <2>9. \A c \in Clients, t \in Chats : \A n \in DOMAIN events[t] :
            Cli!Watches(c, t) /\ t \notin lapsed /\ Covered(c, t, n) => WillCover(c, t, n)
    BY <1>0, <1>s, <1>t, <2>1, <2>8
  <2> HIDE DEF m
  <2> QED
    BY <1>0, <2>6, <2>7, <2>9, GapsStayClosed
<1>2. ASSUME UNCHANGED <<events, bus>>, lost \subseteq lost',
             \A a \in Brains : a # b => brain'[a] = brain[a],
             \A c \in Clients, s \in Chats : \A n \in DOMAIN events[s] :
                /\ Cli!Watches(c, s) /\ s \notin lapsed /\ brain[b] # None
                /\ brain[b].session = s /\ brain[b].event = n
                /\ brain[b].to = None \/ EdgeOf[c] \in brain[b].to
                => WillCover(c, s, n)
      PROVE  Gapfree'
  <2>1. \A c \in Clients, s \in Chats : \A n \in DOMAIN events[s] :
            Cli!Watches(c, s) /\ s \notin lapsed /\ Sent(c, s, n) => WillCover(c, s, n)
    BY <1>2 DEF Sent, WillCover
  <2>2. \A c \in Clients, s \in Chats : \A n \in DOMAIN events[s] :
            Cli!Watches(c, s) /\ s \notin lapsed /\ Covered(c, s, n) => WillCover(c, s, n)
    BY <1>0, <1>2, <1>s, <2>1
  <2> QED
    BY <1>0, <1>2, <2>2, GapsStayClosed
<1>3. ASSUME NEW s \in Chats, Cli!setAgentSessionPinnedExecutor(b, s) PROVE Gapfree'
  <2>1. /\ UNCHANGED <<events, bus, lost>> /\ brain[b] = None
        /\ \A a \in Brains : a # b => brain'[a] = brain[a]
    BY <1>3, <1>t DEF Cli!setAgentSessionPinnedExecutor
  <2> QED
    BY <1>2, <2>1
<1>4. CASE Cli!smembers(b)
  <2> DEFINE r == [brain[b] EXCEPT !.to = presence[brain[b].session]]
  <2>1. /\ UNCHANGED <<events, bus, lost>> /\ brain[b] \in Sending /\ brain' = [brain EXCEPT ![b] = r]
    BY <1>4, <1>t DEF Cli!smembers
  <2>2. presence[brain[b].session] \in SUBSET Edges
    BY <2>1, SendingGoesOn DEF ClientsTyped, RoutingTyped
  <2>3. /\ r \in Sending /\ r.session = brain[b].session /\ r.event = brain[b].event
        /\ r.to = presence[brain[b].session]
    BY <2>1, <2>2, SendingGoesOn
  <2>4. r # None
    BY <2>3, RecordsAssumption DEF Sending
  <2> HIDE DEF r
  <2>5. brain'[b] = r /\ \A a \in Brains : a # b => brain'[a] = brain[a]
    BY <1>t, <2>1
  <2>6. ASSUME NEW c \in Clients, NEW s \in Chats, NEW n \in DOMAIN events[s],
               Cli!Watches(c, s), s \notin lapsed, brain[b].session = s, brain[b].event = n
        PROVE  WillCover(c, s, n)
    <3>1. EdgeOf[c] \in presence[s]
      BY <2>6 DEF EdgesAreNoted, Noted, Cli!Watches
    <3> QED
      BY <2>3, <2>4, <2>5, <2>6, <3>1 DEF WillCover
  <2> QED
    BY <1>2, <2>1, <2>5, <2>6
<1>5. CASE Cli!broadcastToSessionEdges(b)
  <2>1. /\ brain[b] \in Sending /\ brain[b].to \in SUBSET Edges /\ brain[b].to # None
        /\ UNCHANGED <<events, lost>>
    BY <1>5, <1>t, SendingGoesOn DEF Cli!broadcastToSessionEdges
  <2>2. CASE brain[b].to = {} /\ brain' = [brain EXCEPT ![b] = None] /\ UNCHANGED bus
    <3>1. \A a \in Brains : a # b => brain'[a] = brain[a]
      BY <1>t, <2>2
    <3> QED
      BY <1>2, <2>1, <2>2, <3>1
  <2>3. ASSUME NEW e \in brain[b].to,
               bus' = [bus EXCEPT ![e] = Append(@, [session |-> brain[b].session,
                                                    event |-> brain[b].event,
                                                    pin |-> pin[brain[b].session]])],
               brain' = [brain EXCEPT ![b].to = @ \ {e}]
        PROVE  Gapfree'
    <3> DEFINE r == [brain[b] EXCEPT !.to = brain[b].to \ {e}]
               cmd == [session |-> brain[b].session, event |-> brain[b].event,
                       pin |-> pin[brain[b].session]]
    <3>1. brain[b].to \ {e} \in SUBSET Edges /\ e \in Edges
      BY <2>1
    <3>2. /\ r \in Sending /\ r.session = brain[b].session /\ r.event = brain[b].event
          /\ r.to = brain[b].to \ {e}
      BY <2>1, <3>1, SendingGoesOn
    <3>3. r # None
      BY <3>2, RecordsAssumption DEF Sending
    <3>4. cmd.session = brain[b].session /\ cmd.event = brain[b].event
      OBVIOUS
    <3>5. brain' = [brain EXCEPT ![b] = r] /\ bus' = [bus EXCEPT ![e] = Append(bus[e], cmd)]
      BY <1>t, <2>3, <3>1
    <3> HIDE DEF r, cmd
    <3>6. brain'[b] = r /\ \A a \in Brains : a # b => brain'[a] = brain[a]
      BY <1>t, <3>5
    <3>7. /\ bus'[e] = Append(bus[e], cmd) /\ bus[e] \in Seq(Broadcast)
          /\ \A f \in Edges : f # e => bus'[f] = bus[f]
      BY <1>t, <3>1, <3>5
    <3>8. /\ Len(bus[e]) + 1 \in DOMAIN bus'[e] /\ bus'[e][Len(bus[e]) + 1] = cmd
          /\ \A i \in DOMAIN bus[e] : i \in DOMAIN bus'[e] /\ bus'[e][i] = bus[e][i]
      <4>1. Len(bus'[e]) = Len(bus[e]) + 1 /\ Len(bus[e]) \in Nat
        BY <3>7
      <4>2. DOMAIN bus'[e] = 1..(Len(bus[e]) + 1) /\ DOMAIN bus[e] = 1..Len(bus[e])
        BY <3>7, <4>1
      <4> QED
        BY <3>7, <4>1, <4>2
    <3>9. ASSUME NEW c \in Clients, NEW s, NEW n, OnBus(c, s, n)
          PROVE  WillCover(c, s, n)
      <4>1. PICK i \in DOMAIN bus[EdgeOf[c]] :
              bus[EdgeOf[c]][i].session = s /\ bus[EdgeOf[c]][i].event = n
        BY <3>9 DEF OnBus
      <4>2. i \in DOMAIN bus'[EdgeOf[c]] /\ bus'[EdgeOf[c]][i] = bus[EdgeOf[c]][i]
        BY <1>t, <3>7, <3>8, <4>1
      <4> QED
        BY <4>1, <4>2 DEF WillCover
    <3>10. ASSUME NEW c \in Clients, NEW s, NEW n, Sent(c, s, n) PROVE WillCover(c, s, n)
      <4>1. PICK a \in Brains : /\ brain[a] # None /\ brain[a].session = s /\ brain[a].event = n
                                /\ brain[a].to = None \/ EdgeOf[c] \in brain[a].to
        BY <3>10 DEF Sent
      <4>2. CASE a # b
        BY <3>6, <4>1, <4>2 DEF WillCover
      <4>3. CASE a = b /\ EdgeOf[c] # e
        BY <2>1, <3>2, <3>3, <3>6, <4>1, <4>3 DEF WillCover
      <4>4. CASE a = b /\ EdgeOf[c] = e
        BY <3>4, <3>8, <4>1, <4>4 DEF WillCover
      <4> QED
        BY <4>2, <4>3, <4>4
    <3>11. \A c \in Clients, s \in Chats : \A n \in DOMAIN events[s] :
              Cli!Watches(c, s) /\ s \notin lapsed /\ Covered(c, s, n) => WillCover(c, s, n)
      BY <1>0, <2>1, <3>9, <3>10 DEF Covered, BeingShown, WillCover
    <3> QED
      BY <1>0, <2>1, <3>11, GapsStayClosed
  <2> QED
    BY <1>5, <2>2, <2>3 DEF Cli!broadcastToSessionEdges
<1>6. CASE Cli!BrainDies(b)
  <2>1. /\ UNCHANGED <<events, bus>> /\ lost' = lost \cup {<<brain[b].session, brain[b].event>>}
        /\ \A a \in Brains : a # b => brain'[a] = brain[a]
    BY <1>6, <1>t DEF Cli!BrainDies
  <2> QED
    BY <1>2, <2>1 DEF WillCover
<1> QED
  BY <1>1, <1>3, <1>4, <1>5, <1>6

(* The edge: what is on its bus is sent to whoever has joined.               *)
LEMMA EdgeLeavesNoGap ==
    ASSUME ClientsInv, NEW e \in Edges, Cli!clientBroadcast(e) PROVE Gapfree'
<1> USE DEF ClientsInv
<1> DEFINE cmd == Head(bus[e])
<1>0. UNCHANGED <<events, brain, sock, join, say, lapsed, lost>>
  BY DEF Cli!clientBroadcast
<1>1. /\ cmd \in Broadcast /\ bus[e] # <<>> /\ bus' = [bus EXCEPT ![e] = Tail(bus[e])]
      /\ \A c \in Clients :
            /\ seen'[c].from = seen[c].from /\ seen[c].at \subseteq seen'[c].at
            /\ c \in members[e][cmd.session] /\ cmd.event # 0 => cmd.event \in seen'[c].at
  BY EdgeKeepsTypes
<1>2. /\ bus \in [Edges -> Seq(Broadcast)] /\ EdgeOf \in [Clients -> Edges]
      /\ \A s \in Chats : DOMAIN events[s] = 1..Len(events[s]) /\ Len(events[s]) \in Nat
  BY ClientsAssumption DEF ClientsTyped, RoutingTyped, EventsTyped
<1>3. /\ bus[e] \in Seq(Broadcast) /\ bus'[e] = Tail(bus[e])
      /\ \A f \in Edges : f # e => bus'[f] = bus[f]
  BY <1>1, <1>2
<1>4. ASSUME NEW i \in DOMAIN bus[e], i # 1
      PROVE  i - 1 \in DOMAIN bus'[e] /\ bus'[e][i - 1] = bus[e][i]
  <2>1. /\ Len(bus[e]) \in Nat /\ DOMAIN bus[e] = 1..Len(bus[e])
    BY <1>3
  <2>2. Len(Tail(bus[e])) = Len(bus[e]) - 1 /\ Tail(bus[e]) \in Seq(Broadcast)
    BY <1>1, <1>3
  <2>3. DOMAIN Tail(bus[e]) = 1..(Len(bus[e]) - 1)
    BY <2>1, <2>2
  <2>4. i \in 2..Len(bus[e]) /\ i - 1 \in 1..(Len(bus[e]) - 1)
    BY <1>4, <2>1
  <2>5. Tail(bus[e])[i - 1] = bus[e][i]
    BY <1>3, <2>1, <2>4
  <2> QED
    BY <1>3, <2>3, <2>4, <2>5
<1>5. bus[e][1] = cmd
  BY <1>1, <1>3
<1> HIDE DEF cmd
<1>6. ASSUME NEW c \in Clients, NEW s \in Chats, NEW n \in DOMAIN events[s], Cli!Watches(c, s),
             OnBus(c, s, n)
      PROVE  WillCover(c, s, n)
  <2>1. PICK i \in DOMAIN bus[EdgeOf[c]] :
          bus[EdgeOf[c]][i].session = s /\ bus[EdgeOf[c]][i].event = n
    BY <1>6 DEF OnBus
  <2>2. CASE EdgeOf[c] # e
    BY <1>2, <1>3, <2>1, <2>2 DEF WillCover
  <2>3. CASE EdgeOf[c] = e /\ i # 1
    BY <1>4, <2>1, <2>3 DEF WillCover
  <2>4. CASE EdgeOf[c] = e /\ i = 1
    <3>1. cmd.session = s /\ cmd.event = n /\ n # 0
      BY <1>2, <1>5, <2>1, <2>4
    <3>2. c \in members[e][s]
      BY <1>6, <2>4 DEF JoinedAreMembers, Cli!Watches
    <3> QED
      BY <1>1, <3>1, <3>2 DEF WillCover
  <2> QED
    BY <2>2, <2>3, <2>4
<1>7. \A c \in Clients, s \in Chats : \A n \in DOMAIN events[s] :
          Cli!Watches(c, s) /\ s \notin lapsed /\ Covered(c, s, n) => WillCover(c, s, n)
  BY <1>0, <1>1, <1>6 DEF Covered, Sent, BeingShown, WillCover
<1> QED
  BY <1>0, <1>1, <1>7, GapsStayClosed

(* What a client says is being shown until the members on its edge saw it.   *)
LEMMA SayingLeavesNoGap ==
    ASSUME ClientsInv, NEW c \in Clients,
           (\E s \in Chats : Cli!userMessage(c, s)) \/ Cli!showUserMessage(c)
    PROVE  Gapfree'
<1> USE DEF ClientsInv
<1>t. /\ say \in [Clients -> Saying \cup {None}] /\ EdgeOf \in [Clients -> Edges]
      /\ \A s \in Chats : /\ events[s] \in Seq({"brain"} \cup Edges) /\ Len(events[s]) \in Nat
                          /\ DOMAIN events[s] = 1..Len(events[s])
  BY ClientsAssumption DEF ClientsTyped, SocketsTyped, EventsTyped
<1>1. ASSUME NEW s \in Chats, Cli!userMessage(c, s) PROVE Gapfree'
  <2> DEFINE m == Len(events[s]) + 1
             r == [session |-> s, event |-> m]
  <2>1. /\ say[c] = None /\ events' = [events EXCEPT ![s] = Append(@, EdgeOf[c])]
        /\ say' = [say EXCEPT ![c] = r] /\ Len(events[s]) < MaxEvents
        /\ UNCHANGED <<bus, brain, sock, join, seen, lapsed, lost>>
    BY <1>1 DEF Cli!userMessage, Cli!Edge
  <2>2. say'[c] = r /\ \A d \in Clients : d # c => say'[d] = say[d]
    BY <1>t, <2>1
  <2>3. events'[s] = Append(events[s], EdgeOf[c]) /\ \A t \in Chats : t # s => events'[t] = events[t]
    BY <2>1 DEF ClientsTyped, EventsTyped
  <2>4. ASSUME NEW t \in Chats, NEW n \in DOMAIN events'[t]
        PROVE  \/ n \in DOMAIN events[t] /\ events'[t][n] = events[t][n]
               \/ t = s /\ n = m /\ events'[t][n] = EdgeOf[c]
    <3>1. CASE t # s
      BY <2>3, <2>4, <3>1
    <3>2. CASE t = s
      <4> DEFINE e == Append(events[s], EdgeOf[c])
      <4>1. /\ DOMAIN events[s] = 1..Len(events[s]) /\ Len(events[s]) \in Nat
            /\ events[s] \in Seq({"brain"} \cup Edges) /\ EdgeOf[c] \in {"brain"} \cup Edges
        BY <1>t
      <4>2. /\ DOMAIN e = 1..m /\ e[m] = EdgeOf[c]
            /\ \A i \in 1..Len(events[s]) : e[i] = events[s][i]
        BY <4>1
      <4> HIDE DEF e
      <4>3. events'[t] = e
        BY <2>3, <3>2 DEF e
      <4> QED
        BY <2>4, <3>2, <4>1, <4>2, <4>3
    <3> QED
      BY <3>1, <3>2
  <2>5. ASSUME NEW d \in Clients, EdgeOf[c] \in {"brain", EdgeOf[d]} PROVE WillCover(d, s, m)
    <3>1. EdgeOf[c] = EdgeOf[d]
      BY <2>5, ClientsAssumption
    <3> QED
      BY <2>2, <3>1 DEF WillCover
  <2>6. ASSUME NEW d \in Clients, NEW t \in Chats, NEW n \in DOMAIN events[t], BeingShown(d, t, n)
        PROVE  WillCover(d, t, n)
    <3>1. PICK a \in Clients : EdgeOf[a] = EdgeOf[d] /\ say[a] = [session |-> t, event |-> n]
      BY <2>6 DEF BeingShown
    <3>2. n \in 0..MaxEvents
      BY <1>t, ClientsAssumption DEF ClientsTyped, EventsTyped
    <3>3. [session |-> t, event |-> n] # None
      BY <3>2, RecordsAssumption
    <3>4. a # c
      BY <2>1, <3>1, <3>3
    <3> QED
      BY <2>2, <3>1, <3>4 DEF WillCover
  <2> HIDE DEF m, r
  <2>7. \A d \in Clients, t \in Chats : \A n \in DOMAIN events[t] :
            Cli!Watches(d, t) /\ t \notin lapsed /\ Covered(d, t, n) => WillCover(d, t, n)
    BY <2>1, <2>6 DEF Covered, Sent, OnBus, WillCover
  <2> QED
    BY <2>1, <2>4, <2>5, <2>7, GapsStayClosed
<1>2. CASE Cli!showUserMessage(c)
  <2>1. UNCHANGED <<events, bus, brain, sock, join, lapsed, lost>>
    BY <1>2 DEF Cli!showUserMessage
  <2>2. /\ \A d \in Clients : d # c => say'[d] = say[d]
        /\ \A d \in Clients :
              /\ seen'[d].from = seen[d].from /\ seen[d].at \subseteq seen'[d].at
              /\ d \in members[EdgeOf[c]][say[c].session] => say[c].event \in seen'[d].at
    BY <1>2, ShowKeepsTypes
  <2>3. ASSUME NEW d \in Clients, NEW t \in Chats, NEW n \in DOMAIN events[t], Cli!Watches(d, t),
               BeingShown(d, t, n)
        PROVE  WillCover(d, t, n)
    <3>1. PICK a \in Clients : EdgeOf[a] = EdgeOf[d] /\ say[a] = [session |-> t, event |-> n]
      BY <2>3 DEF BeingShown
    <3>2. CASE a # c
      BY <2>2, <3>1, <3>2 DEF WillCover
    <3>3. CASE a = c
      <4>1. d \in members[EdgeOf[d]][t]
        BY <2>3 DEF JoinedAreMembers, Cli!Watches
      <4>2. say[c].session = t /\ say[c].event = n /\ EdgeOf[c] = EdgeOf[d]
        BY <3>1, <3>3
      <4> QED
        BY <2>2, <4>1, <4>2 DEF WillCover
    <3> QED
      BY <3>2, <3>3
  <2>4. \A d \in Clients, t \in Chats : \A n \in DOMAIN events[t] :
            Cli!Watches(d, t) /\ t \notin lapsed /\ Covered(d, t, n) => WillCover(d, t, n)
    BY <2>1, <2>2, <2>3 DEF Covered, Sent, OnBus, WillCover
  <2> QED
    BY <2>1, <2>2, <2>4, GapsStayClosed
<1> QED
  BY <1>1, <1>2

(* A client that moves: while it joins it watches nothing, and its join ends *)
(* with the tail.                                                            *)
LEMMA MovingLeavesNoGap ==
    ASSUME ClientsInv, NEW c \in Clients,
           \/ \E s \in Chats : Cli!sessionJoin(c, s) \/ Cli!sessionLeave(c, s)
           \/ Cli!wireClientSocket(c) \/ Cli!addClientToSession(c) \/ Cli!sadd(c)
           \/ Cli!saddFails(c) \/ Cli!listAgentSessionEventsTail(c) \/ Cli!socketCloses(c)
    PROVE  Gapfree'
<1> USE DEF ClientsInv
<1>1. ASSUME NEW s \in Chats, Cli!sessionJoin(c, s) PROVE Gapfree'
  <2>1. /\ UNCHANGED <<events, bus, brain, sock, say, seen, lapsed, lost>>
        /\ \A d \in Clients : d # c => join'[d] = join[d]
        /\ join'[c] = [session |-> s, at |-> "read", pin |-> pin[s]]
    BY <1>1 DEF Cli!sessionJoin, ClientsTyped, SocketsTyped
  <2>2. join'[c] # None
    <3>1. [session |-> s, at |-> "read", pin |-> pin[s]] \in Joining
      BY DEF Joining, ClientsTyped, EventsTyped
    <3> QED
      BY <2>1, <3>1, RecordsAssumption DEF Joining
  <2> QED
    BY <2>1, <2>2, MoverHasNoGap DEF Cli!Watches
<1>2. ASSUME NEW s \in Chats, Cli!sessionLeave(c, s) PROVE Gapfree'
  <2>1. /\ UNCHANGED <<events, bus, brain, join, say, seen, lapsed, lost>>
        /\ \A d \in Clients : d # c => sock'[d] = sock[d]
        /\ sock[c].state = "open"
        /\ sock'[c].joined = IF sock[c].joined = s THEN None ELSE sock[c].joined
    BY <1>2 DEF Cli!sessionLeave, Cli!Open, ClientsTyped, SocketsTyped
  <2>2. ASSUME NEW t \in Chats, Cli!Watches(c, t)' PROVE Cli!Watches(c, t)
    BY <2>1, <2>2, ClientsAssumption DEF Cli!Watches, Cli!Open
  <2> QED
    BY <2>1, <2>2, MoverHasNoGap
<1>3. CASE Cli!wireClientSocket(c)
  <2>1. /\ UNCHANGED <<events, bus, brain, join, say, seen, lapsed, lost>>
        /\ \A d \in Clients : d # c => sock'[d] = sock[d]
        /\ sock[c].joined = None /\ sock'[c].joined = sock[c].joined
    BY <1>3 DEF Cli!wireClientSocket, ClientsTyped, SocketsTyped, JoinsInOrder
  <2>2. ASSUME NEW t \in Chats PROVE ~ Cli!Watches(c, t)'
    BY <2>1, ClientsAssumption DEF Cli!Watches
  <2> QED
    BY <2>1, <2>2, MoverHasNoGap
<1>4. CASE Cli!addClientToSession(c)
  <2>1. /\ UNCHANGED <<events, bus, brain, say, lapsed, lost>>
    BY <1>4 DEF Cli!addClientToSession
  <2>2. /\ join'[c] \in Joining
        /\ \A d \in Clients : d # c => join'[d] = join[d] /\ sock'[d] = sock[d] /\ seen'[d] = seen[d]
    BY <1>4, EntryKeepsTypes
  <2>3. \A t \in Chats : ~ Cli!Watches(c, t)'
    BY <2>2, RecordsAssumption DEF Joining, Cli!Watches
  <2> QED
    BY <2>1, <2>2, <2>3, MoverHasNoGap
<1>5. CASE Cli!sadd(c) \/ Cli!saddFails(c)
  <2>1. /\ join[c] \in Joining /\ join' = [join EXCEPT ![c] = [join[c] EXCEPT !.at = "noted"]]
        /\ UNCHANGED <<events, bus, brain, sock, say, seen, lost>> /\ lapsed \subseteq lapsed'
    BY <1>5 DEF Cli!sadd, Cli!saddFails, ClientsTyped, SocketsTyped
  <2>2. [join[c] EXCEPT !.at = "noted"] \in Joining
    BY <2>1 DEF Joining
  <2>3. join'[c] # None /\ \A d \in Clients : d # c => join'[d] = join[d]
    BY <2>1, <2>2, RecordsAssumption DEF ClientsTyped, SocketsTyped, Joining
  <2> QED
    BY <2>1, <2>3, MoverHasNoGap DEF Cli!Watches
<1>6. CASE Cli!listAgentSessionEventsTail(c)
  <2>1. /\ UNCHANGED <<events, bus, brain, sock, say, lapsed, lost>>
        /\ join[c] # None /\ join[c].at = "noted"
    BY <1>6 DEF Cli!listAgentSessionEventsTail
  <2>2. /\ \A d \in Clients : d # c => join'[d] = join[d] /\ seen'[d] = seen[d]
        /\ \A n \in DOMAIN events[join[c].session] : n >= seen'[c].from => n \in seen'[c].at
    BY <1>6, TailKeepsTypes
  <2>3. ASSUME NEW t \in Chats, Cli!Watches(c, t)' PROVE t = join[c].session
    BY <2>1, <2>3, ClientsAssumption DEF Cli!Watches, JoinsInOrder, Entered
  <2> QED
    BY <2>1, <2>2, <2>3, MoverHasNoGap
<1>7. CASE Cli!socketCloses(c)
  <2>1. /\ UNCHANGED <<events, bus, brain, join, say, seen, lapsed, lost>>
        /\ \A d \in Clients : d # c => sock'[d] = sock[d]
        /\ sock'[c] = [state |-> "closed", joined |-> None]
    BY <1>7 DEF Cli!socketCloses, ClientsTyped, SocketsTyped
  <2>2. \A t \in Chats : ~ Cli!Watches(c, t)'
    BY <2>1 DEF Cli!Watches, Cli!Open
  <2> QED
    BY <2>1, <2>2, MoverHasNoGap
<1> QED
  BY <1>1, <1>2, <1>3, <1>4, <1>5, <1>6, <1>7

(* Every action keeps it.                                                    *)
LEMMA NextClients == ClientsInv /\ [Cli!Next]_cliVars => ClientsInv'
<1> SUFFICES ASSUME ClientsInv, [Cli!Next]_cliVars PROVE ClientsInv'
  OBVIOUS
<1>0. ClientsTyped /\ Places
  BY DEF ClientsInv, Places
<1>p. ASSUME ClientsTyped', Gapfree',
             \/ UNCHANGED <<members, presence, sock, join, lapsed>>
             \/ \E s \in Chats : Cli!presenceExpires(s)
             \/ \E c \in Clients :
                   \/ \E s \in Chats : Cli!sessionJoin(c, s) \/ Cli!sessionLeave(c, s)
                   \/ Cli!wireClientSocket(c) \/ Cli!addClientToSession(c) \/ Cli!sadd(c)
                   \/ Cli!saddFails(c) \/ Cli!listAgentSessionEventsTail(c) \/ Cli!socketCloses(c)
      PROVE  ClientsInv'
  <2>1. Places'
    BY <1>0, <1>p, PlacesAreKept
  <2> QED
    BY <1>p, <2>1 DEF ClientsInv, Places
<1>1. ASSUME NEW b \in Brains,
             \/ \E s \in Chats : Cli!appendAgentSessionEvent(b, s) \/ Cli!setAgentSessionPinnedExecutor(b, s)
             \/ Cli!smembers(b) \/ Cli!broadcastToSessionEdges(b) \/ Cli!BrainDies(b)
      PROVE  ClientsInv'
  <2>1. UNCHANGED <<members, presence, sock, join, lapsed>>
    BY <1>1 DEF Cli!appendAgentSessionEvent, Cli!setAgentSessionPinnedExecutor, Cli!smembers,
                Cli!broadcastToSessionEdges, Cli!BrainDies
  <2>2. ClientsTyped' /\ Gapfree'
    BY <1>0, <1>1, BrainKeepsTypes, BrainLeavesNoGap
  <2> QED
    BY <1>p, <2>1, <2>2
<1>2. ASSUME NEW e \in Edges, Cli!clientBroadcast(e) PROVE ClientsInv'
  <2>1. UNCHANGED <<members, presence, sock, join, lapsed>>
    BY <1>2 DEF Cli!clientBroadcast
  <2>2. ClientsTyped' /\ Gapfree'
    BY <1>0, <1>2, EdgeKeepsTypes, EdgeLeavesNoGap
  <2> QED
    BY <1>p, <2>1, <2>2
<1>3. ASSUME NEW c \in Clients, (\E s \in Chats : Cli!userMessage(c, s)) \/ Cli!showUserMessage(c)
      PROVE  ClientsInv'
  <2>1. UNCHANGED <<members, presence, sock, join, lapsed>>
    BY <1>3 DEF Cli!userMessage, Cli!showUserMessage
  <2>2. ClientsTyped' /\ Gapfree'
    BY <1>0, <1>3, ClientKeepsTypes, ShowKeepsTypes, SayingLeavesNoGap
  <2> QED
    BY <1>p, <2>1, <2>2
<1>4. ASSUME NEW c \in Clients,
             \/ \E s \in Chats : Cli!sessionJoin(c, s) \/ Cli!sessionLeave(c, s)
             \/ Cli!wireClientSocket(c) \/ Cli!addClientToSession(c) \/ Cli!sadd(c)
             \/ Cli!saddFails(c) \/ Cli!listAgentSessionEventsTail(c) \/ Cli!socketCloses(c)
      PROVE  ClientsInv'
  <2>1. ClientsTyped'
    BY <1>0, <1>4, ClientKeepsTypes, EntryKeepsTypes, TailKeepsTypes
  <2>2. Gapfree'
    BY <1>4, MovingLeavesNoGap
  <2> QED
    BY <1>4, <1>p, <2>1, <2>2
<1>5. ASSUME NEW s \in Chats, Cli!presenceExpires(s) PROVE ClientsInv'
  <2>1. ClientsTyped'
    BY <1>0, <1>5 DEF Cli!presenceExpires, ClientsTyped, EventsTyped, RoutingTyped, SocketsTyped
  <2>2. UNCHANGED <<events, bus, brain, sock, join, say, seen, lost>> /\ lapsed \subseteq lapsed'
    BY <1>5 DEF Cli!presenceExpires
  <2>3. Gapfree'
    BY <2>2, GapsStayClosed DEF ClientsInv, WillCover, Covered, Sent, OnBus, BeingShown
  <2> QED
    BY <1>5, <1>p, <2>1, <2>3
<1>6. CASE UNCHANGED cliVars
  <2>1. ClientsTyped'
    BY <1>0, <1>6 DEF cliVars, ClientsTyped, EventsTyped, RoutingTyped, SocketsTyped
  <2>2. UNCHANGED <<events, bus, brain, sock, join, say, seen, lost, lapsed, members, presence>>
    BY <1>6 DEF cliVars
  <2>3. Gapfree'
    BY <2>2, GapsStayClosed DEF ClientsInv, WillCover, Covered, Sent, OnBus, BeingShown
  <2> QED
    BY <1>p, <2>1, <2>2, <2>3
<1> QED
  BY <1>1, <1>2, <1>3, <1>4, <1>5, <1>6 DEF Cli!Next

(* What is about the clients is a behaviour of SessionClients.               *)
LEMMA ClientsAreServed == SessionsSpec => Cli!Init /\ [][Cli!Next]_cliVars
<1>1. SessionsInit => Cli!Init
  BY DEF SessionsInit
<1>2. [SessionsNext]_allVars => [Cli!Next]_cliVars
  BY DEF SessionsNext, allVars
<1> QED
  BY <1>1, <1>2, PTL DEF SessionsSpec

(* A client that follows a session has no gap, however its join met the      *)
(* broadcasts, unless the session's key lapsed or a brain died over it, and  *)
(* it is sent the events of one session (joinSessionForClient,               *)
(* edge/server.ts:459-509).                                                  *)
THEOREM ClientsAreFollowed == SessionsSpec => []ClientsFollow
<1>1. ClientsInv => ClientsFollow
  BY ClientsInvFollow DEF ClientsFollow
<1> QED
  BY <1>1, ClientsAreServed, InitClients, NextClients, PTL
-----------------------------------------------------------------------------
(* The builder of toolsets.  A turn, a session and a request are what the    *)
(* handlers build.                                                           *)
Secrets == DOMAIN SecretOf
Turn == [role : {"USER", "ASSISTANT"}, text : Texts \cup {None}]
Sitting ==
    [status : {"ACTIVE", "FINALIZED"}, provider : Models, asked : Secrets \cup {None},
     selected : SUBSET Catalog, draft : (SUBSET Catalog) \cup {None}]
Building ==
    [kind : {"open", "chat", "finalize"},
     at : {"resolve", "load", "create", "say", "turns", "model", "reply", "select", "finalize"},
     session : Sittings, provider : Models, asked : Secrets \cup {None}, secret : Secrets \cup {None},
     text : Texts \cup {None}, keys : SUBSET Catalog, prompt : Seq(Turn),
     draft : (SUBSET Catalog) \cup {None}]

BuilderTyped ==
    /\ buiSecrets \subseteq Secrets
    /\ builder \in [Sittings -> Sitting \cup {None}] /\ turns \in [Sittings -> Seq(Turn)]

\* Where a request of each kind may be, and what it has by then.
InOrder(r) ==
    /\ r.kind = "open" =>
          /\ r.at \in {"resolve", "load", "create", "say", "model", "reply", "select"}
          /\ r.at \in {"say", "model"} => r.text # None
    /\ r.kind = "chat" =>
          /\ r.at \in {"say", "resolve", "load", "turns", "model", "reply", "select"}
          /\ r.text # None
    /\ r.kind = "finalize" =>
          /\ r.at \in {"resolve", "load", "turns", "model", "finalize"}
          /\ r.at = "finalize" => r.draft \in SUBSET Catalog
Resolved(r) == r.secret # None => SecretOf[r.secret] \in Connectors[r.provider]
Opened(r) == r.kind # "open" \/ r.at \notin {"resolve", "load", "create"}
Proceeds(r) == r \in Building /\ InOrder(r) /\ Resolved(r)

ServesSitting(s) ==
    buiReq[s] # None =>
        /\ Proceeds(buiReq[s])
        /\ Opened(buiReq[s]) => builder[buiReq[s].session] \in Sitting
BuilderSlots ==
    /\ buiReq = [s \in Slots |-> buiReq[s]]
    /\ \A s \in Slots : ServesSitting(s)

\* What the user said and the model has not answered yet, one request each.
Owes(r) ==
    \/ r.kind = "chat" /\ r.at \in {"resolve", "load", "turns", "model", "reply"}
    \/ r.kind = "open" /\ r.at \in {"model", "reply"} /\ r.text # None
Owed(b) == {s \in Slots : buiReq[s] # None /\ buiReq[s].session = b /\ Owes(buiReq[s])}
AnswersAreOwed ==
    \A b \in Sittings :
        Cardinality(Bui!Said(b, "ASSISTANT")) + Cardinality(Owed(b)) <= Cardinality(Bui!Said(b, "USER"))

BuilderInv == BuilderTyped /\ BuilderSlots /\ AnswersAreOwed

(* What is said is finite, and so are the requests served.                   *)
LEMMA SaidIsFinite ==
    ASSUME BuilderTyped, NEW b \in Sittings, NEW role
    PROVE  IsFiniteSet(Bui!Said(b, role)) /\ Cardinality(Bui!Said(b, role)) \in Nat
<1>1. DOMAIN turns[b] = 1..Len(turns[b]) /\ Len(turns[b]) \in Nat
  BY DEF BuilderTyped
<1>2. IsFiniteSet(1..Len(turns[b]))
  <2>1. \A n \in Nat : IsFiniteSet(1..n)
    BY FS_Interval
  <2> QED
    BY <1>1, <2>1
<1>3. Bui!Said(b, role) \in SUBSET (1..Len(turns[b]))
  BY <1>1 DEF Bui!Said
<1> QED
  BY <1>2, <1>3, FS_Subset, FS_CardinalityType

LEMMA OwedIsFinite ==
    ASSUME NEW b \in Sittings
    PROVE  /\ IsFiniteSet(Owed(b)) /\ Cardinality(Owed(b)) \in Nat
           /\ IsFiniteSet(Owed(b)') /\ Cardinality(Owed(b)') \in Nat
<1>1. Owed(b) \in SUBSET Slots /\ Owed(b)' \in SUBSET Slots
  BY DEF Owed
<1> QED
  BY <1>1, BuilderAssumption, FS_Subset, FS_CardinalityType

(* In the initial state nothing was said.                                    *)
LEMMA InitBuilder == Bui!Init => BuilderInv
<1> SUFFICES ASSUME Bui!Init PROVE BuilderInv
  OBVIOUS
<1>1. BuilderTyped /\ BuilderSlots
  BY DEF Bui!Init, BuilderTyped, BuilderSlots, ServesSitting, Secrets
<1>2. ASSUME NEW b \in Sittings, NEW role PROVE Bui!Said(b, role) = {}
  BY DEF Bui!Init, Bui!Said
<1>3. ASSUME NEW b \in Sittings PROVE Owed(b) = {}
  BY DEF Bui!Init, Owed
<1>4. Cardinality({}) = 0
  BY FS_EmptySet
<1>5. AnswersAreOwed
  BY <1>2, <1>3, <1>4 DEF AnswersAreOwed
<1> QED
  BY <1>1, <1>5 DEF BuilderInv

(* A request goes on, or ends, and may write its session: nothing is said.   *)
LEMMA BuildingMoves ==
    ASSUME BuilderInv, NEW s \in Slots, NEW r, buiReq' = [buiReq EXCEPT ![s] = r],
           UNCHANGED turns, buiSecrets' \subseteq buiSecrets,
           builder' \in [Sittings -> Sitting \cup {None}],
           \A b \in Sittings : builder[b] \in Sitting => builder'[b] \in Sitting,
           r # None => Proceeds(r),
           r # None /\ Opened(r) => builder'[r.session] \in Sitting,
           r # None /\ Owes(r) =>
               buiReq[s] # None /\ Owes(buiReq[s]) /\ buiReq[s].session = r.session
    PROVE  BuilderInv'
<1>1. BuilderTyped'
  BY DEF BuilderInv, BuilderTyped
<1>2. BuilderSlots'
  BY DEF BuilderInv, BuilderSlots, ServesSitting, Proceeds, Building
<1>3. ASSUME NEW b \in Sittings
      PROVE  Cardinality(Owed(b)') <= Cardinality(Owed(b))
  <2>1. Owed(b)' \in SUBSET Owed(b)
    BY DEF BuilderInv, BuilderSlots, Owed
  <2> QED
    BY <2>1, OwedIsFinite, FS_Subset
<1>4. AnswersAreOwed'
  <2> SUFFICES ASSUME NEW b \in Sittings
               PROVE  Cardinality(Bui!Said(b, "ASSISTANT")') + Cardinality(Owed(b)')
                        <= Cardinality(Bui!Said(b, "USER")')
    BY DEF AnswersAreOwed
  <2>1. /\ Bui!Said(b, "ASSISTANT")' = Bui!Said(b, "ASSISTANT")
        /\ Bui!Said(b, "USER")' = Bui!Said(b, "USER")
    BY DEF Bui!Said
  <2>2. /\ Cardinality(Bui!Said(b, "ASSISTANT")) \in Nat /\ Cardinality(Bui!Said(b, "USER")) \in Nat
        /\ Cardinality(Owed(b)) \in Nat /\ Cardinality(Owed(b)') \in Nat
    BY SaidIsFinite, OwedIsFinite DEF BuilderInv
  <2>3. Cardinality(Bui!Said(b, "ASSISTANT")) + Cardinality(Owed(b)) <= Cardinality(Bui!Said(b, "USER"))
    BY DEF BuilderInv, AnswersAreOwed
  <2> QED
    BY <1>3, <2>1, <2>2, <2>3
<1> QED
  BY <1>1, <1>2, <1>4 DEF BuilderInv

(* One more turn.                                                            *)
LEMMA TurnIsAdded ==
    ASSUME BuilderTyped, NEW b \in Sittings, NEW role \in {"USER", "ASSISTANT"},
           NEW text \in Texts \cup {None}, Bui!Say(b, role, text)
    PROVE  /\ turns' \in [Sittings -> Seq(Turn)]
           /\ \A c \in Sittings, q \in {"USER", "ASSISTANT"} :
                 /\ c = b /\ q = role /\ text # None =>
                       Cardinality(Bui!Said(c, q)') = Cardinality(Bui!Said(c, q)) + 1
                 /\ c # b \/ q # role \/ text = None => Bui!Said(c, q)' = Bui!Said(c, q)
<1> DEFINE t == [role |-> role, text |-> text]
           n == Len(turns[b])
<1>1. /\ t \in Turn /\ turns \in [Sittings -> Seq(Turn)] /\ turns[b] \in Seq(Turn)
      /\ n \in Nat /\ DOMAIN turns[b] = 1..n
  <2>1. t \in Turn
    BY DEF Turn
  <2>2. turns \in [Sittings -> Seq(Turn)] /\ turns[b] \in Seq(Turn)
    BY DEF BuilderTyped
  <2>3. n \in Nat /\ DOMAIN turns[b] = 1..n
    BY <2>2
  <2> QED
    BY <2>1, <2>2, <2>3
<1>2. turns' = [turns EXCEPT ![b] = Append(turns[b], t)]
  BY DEF Bui!Say
<1>3. /\ Append(turns[b], t) \in Seq(Turn) /\ DOMAIN Append(turns[b], t) = 1..(n + 1)
      /\ Append(turns[b], t)[n + 1] = t
      /\ \A i \in 1..n : Append(turns[b], t)[i] = turns[b][i]
  BY <1>1
<1>4. /\ turns' \in [Sittings -> Seq(Turn)] /\ turns'[b] = Append(turns[b], t)
      /\ \A c \in Sittings : c # b => turns'[c] = turns[c]
  BY <1>1, <1>2, <1>3
<1>5. t.role = role /\ t.text = text
  OBVIOUS
<1> HIDE DEF t, n
<1>6. ASSUME NEW q \in {"USER", "ASSISTANT"}, q # role \/ text = None
      PROVE  Bui!Said(b, q)' = Bui!Said(b, q)
  BY <1>1, <1>3, <1>4, <1>5, <1>6 DEF Bui!Said
<1>7. ASSUME text # None
      PROVE  Cardinality(Bui!Said(b, role)') = Cardinality(Bui!Said(b, role)) + 1
  <2>1. Bui!Said(b, role)' = Bui!Said(b, role) \cup {n + 1} /\ n + 1 \notin Bui!Said(b, role)
    BY <1>1, <1>3, <1>4, <1>5, <1>7 DEF Bui!Said
  <2> QED
    BY <2>1, SaidIsFinite, FS_AddElement
<1>8. ASSUME NEW c \in Sittings, NEW q, c # b
      PROVE  Bui!Said(c, q)' = Bui!Said(c, q)
  BY <1>4, <1>8 DEF Bui!Said
<1> QED
  BY <1>4, <1>6, <1>7, <1>8

(* What the model is shown are turns.                                        *)
LEMMA TurnsAreListed ==
    ASSUME BuilderTyped, NEW b \in Sittings
    PROVE  Bui!listToolsetBuilderTurns(b) \in Seq(Turn)
<1> DEFINE m == IF Len(turns[b]) < TurnLimit THEN Len(turns[b]) ELSE TurnLimit
           listed == SubSeq(turns[b], 1, m)
           k == IF Len(listed) > TurnTail THEN Len(listed) - TurnTail + 1 ELSE 1
<1>1. turns[b] \in Seq(Turn) /\ m \in Nat /\ m <= Len(turns[b])
  BY BuilderAssumption DEF BuilderTyped
<1>2. \A i \in 1..m : turns[b][i] \in Turn
  BY <1>1
<1>3. 1 \in Int /\ m \in Int
  BY <1>1
<1>4. listed \in Seq(Turn)
  BY <1>2, <1>3, SubSeqProperties
<1>5. Bui!listToolsetBuilderTurns(b) = SubSeq(listed, k, Len(listed))
  BY DEF Bui!listToolsetBuilderTurns
<1> HIDE DEF listed
<1>6. Len(listed) \in Nat /\ k \in Nat /\ k >= 1
  BY <1>4, BuilderAssumption
<1>7. k \in Int /\ Len(listed) \in Int
  BY <1>6
<1> HIDE DEF k
<1>8. \A i \in k..Len(listed) : listed[i] \in Turn
  BY <1>4, <1>6
<1>9. SubSeq(listed, k, Len(listed)) \in Seq(Turn)
  BY <1>7, <1>8, SubSeqProperties
<1> QED
  BY <1>5, <1>9

(* Where a request of the builder that was served can stand.                *)
BuildStages == {"resolve", "load", "create", "say", "turns", "model", "reply", "select", "finalize"}

(* A request that is served has these fields, and a slot that serves none    *)
(* owes nothing.                                                             *)
LEMMA Served ==
    ASSUME BuilderInv, NEW s \in Slots, buiReq[s] # None
    PROVE  /\ buiReq[s] \in Building /\ InOrder(buiReq[s]) /\ Resolved(buiReq[s])
           /\ Opened(buiReq[s]) => builder[buiReq[s].session] \in Sitting
           /\ buiReq[s].kind \in {"open", "chat", "finalize"} /\ buiReq[s].session \in Sittings
           /\ buiReq[s].provider \in Models /\ buiReq[s].asked \in Secrets \cup {None}
           /\ buiReq[s].text \in Texts \cup {None} /\ buiReq[s].keys \in SUBSET Catalog
<1>1. Proceeds(buiReq[s]) /\ (Opened(buiReq[s]) => builder[buiReq[s].session] \in Sitting)
  BY DEF BuilderInv, BuilderSlots, ServesSitting
<1> QED
  BY <1>1 DEF Proceeds, Building

(* Which of the slots' requests end.                                         *)
LEMMA BuildingEnds ==
    ASSUME BuilderInv, NEW s \in Slots, Bui!Answer(s), UNCHANGED turns, buiSecrets' \subseteq buiSecrets,
           builder' \in [Sittings -> Sitting \cup {None}],
           \A b \in Sittings : builder[b] \in Sitting => builder'[b] \in Sitting
    PROVE  BuilderInv'
BY BuildingMoves DEF Bui!Answer

(* A request that neither writes its session nor says anything.              *)
LEMMA BuildingGoesOn ==
    ASSUME BuilderInv, NEW s \in Slots, NEW r, buiReq' = [buiReq EXCEPT ![s] = r],
           UNCHANGED <<buiSecrets, builder, turns>>, Proceeds(r),
           Opened(r) => builder[r.session] \in Sitting,
           Owes(r) => buiReq[s] # None /\ Owes(buiReq[s]) /\ buiReq[s].session = r.session
    PROVE  BuilderInv'
<1>1. /\ builder' \in [Sittings -> Sitting \cup {None}] /\ buiSecrets' \subseteq buiSecrets
      /\ \A b \in Sittings : builder[b] \in Sitting => builder'[b] \in Sitting
      /\ UNCHANGED turns
  BY DEF BuilderInv, BuilderTyped
<1>2. Opened(r) => builder'[r.session] \in Sitting
  OBVIOUS
<1> QED
  BY <1>1, <1>2, BuildingMoves

(* The secret is looked up.                                                  *)
LEMMA ResolvesKeepBuilder ==
    ASSUME BuilderInv, NEW s \in Slots, Bui!At(s, "resolve"),
           Bui!resolveSecret(s, Bui!AfterSecret(s))
    PROVE  BuilderInv'
<1> DEFINE q == buiReq[s]
           k == Bui!secretId(q.asked, q.provider)
           then == Bui!AfterSecret(s)
<1>1. q # None /\ q.at = "resolve" /\ UNCHANGED <<buiSecrets, builder, turns>>
  BY DEF Bui!At, Bui!resolveSecret
<1>2. /\ q \in Building /\ InOrder(q) /\ Resolved(q)
      /\ Opened(q) => builder[q.session] \in Sitting
      /\ q.kind \in {"open", "chat", "finalize"}
  BY <1>1, Served
<1>3. /\ then \in BuildStages /\ (q.kind = "open" => then = "create")
      /\ q.kind # "open" => then = "turns"
  BY <1>2 DEF Bui!AfterSecret, BuildStages
<1>4. buiReq = [x \in Slots |-> buiReq[x]] /\ buiSecrets \subseteq Secrets
  BY DEF BuilderInv, BuilderSlots, BuilderTyped
<1>5. ASSUME NEW at \in {"load", then}, NEW secret \in Secrets \cup {None},
             secret # None => SecretOf[secret] \in Connectors[q.provider],
             buiReq' = [buiReq EXCEPT ![s].at = at, ![s].secret = secret]
      PROVE  BuilderInv'
  <2> DEFINE r == [q EXCEPT !.at = at, !.secret = secret]
  <2>1. buiReq' = [buiReq EXCEPT ![s] = r]
    BY <1>4, <1>5
  <2>2. at \in BuildStages
    BY <1>3 DEF BuildStages
  <2>3. /\ r \in Building /\ r.at = at /\ r.secret = secret /\ r.text = q.text
        /\ r.draft = q.draft /\ r.kind = q.kind /\ r.session = q.session
        /\ r.provider = q.provider
    BY <1>2, <2>2 DEF Building, BuildStages
  <2> HIDE DEF r
  <2>4. InOrder(r) /\ Resolved(r)
    BY <1>1, <1>2, <1>3, <1>5, <2>3 DEF InOrder, Resolved
  <2>5. Opened(r) => builder[r.session] \in Sitting
    BY <1>2, <1>3, <2>3 DEF Opened
  <2>6. Owes(r) => q # None /\ Owes(q) /\ q.session = r.session
    BY <1>1, <1>2, <1>3, <2>3 DEF Owes
  <2> QED
    BY <1>1, <2>1, <2>3, <2>4, <2>5, <2>6, BuildingGoesOn DEF Proceeds
<1>6. CASE k = None /\ buiReq' = [buiReq EXCEPT ![s].at = then, ![s].secret = None]
  BY <1>5, <1>6
<1>7. CASE /\ k # None /\ Bui!secretMeta(k, q.provider) # {}
           /\ buiReq' = [buiReq EXCEPT ![s].at = "load", ![s].secret = k]
  <2>1. k \in Secrets /\ SecretOf[k] \in Connectors[q.provider]
    BY <1>4, <1>7 DEF Bui!secretMeta
  <2> QED
    BY <1>5, <1>7, <2>1
<1>8. CASE Bui!Answer(s)
  BY <1>1, <1>8, BuildingEnds DEF BuilderInv, BuilderTyped
<1> QED
  BY <1>6, <1>7, <1>8 DEF Bui!resolveSecret

LEMMA LoadsKeepBuilder ==
    ASSUME BuilderInv, NEW s \in Slots, Bui!At(s, "load"),
           Bui!loadConnectorSecretValue(s, Bui!AfterSecret(s))
    PROVE  BuilderInv'
<1> DEFINE q == buiReq[s]
           then == Bui!AfterSecret(s)
           r == [q EXCEPT !.at = then]
<1>1. q # None /\ q.at = "load" /\ UNCHANGED <<buiSecrets, builder, turns>>
  BY DEF Bui!At, Bui!loadConnectorSecretValue
<1>2. /\ q \in Building /\ InOrder(q) /\ Resolved(q)
      /\ Opened(q) => builder[q.session] \in Sitting
      /\ q.kind \in {"open", "chat", "finalize"}
  BY <1>1, Served
<1>3. /\ then \in BuildStages /\ (q.kind = "open" => then = "create")
      /\ q.kind # "open" => then = "turns"
  BY <1>2 DEF Bui!AfterSecret, BuildStages
<1>4. CASE Bui!Answer(s)
  BY <1>1, <1>4, BuildingEnds DEF BuilderInv, BuilderTyped
<1>5. CASE buiReq' = [buiReq EXCEPT ![s].at = then]
  <2>1. buiReq' = [buiReq EXCEPT ![s] = r]
    BY <1>5
  <2>2. /\ r \in Building /\ r.at = then /\ r.secret = q.secret /\ r.text = q.text
        /\ r.draft = q.draft /\ r.kind = q.kind /\ r.session = q.session
        /\ r.provider = q.provider
    BY <1>2, <1>3 DEF Building, BuildStages
  <2> HIDE DEF r
  <2>3. InOrder(r) /\ Resolved(r)
    BY <1>1, <1>2, <1>3, <2>2 DEF InOrder, Resolved
  <2>4. Opened(r) => builder[r.session] \in Sitting
    BY <1>2, <1>3, <2>2 DEF Opened
  <2>5. Owes(r) => q # None /\ Owes(q) /\ q.session = r.session
    BY <1>1, <1>2, <1>3, <2>2 DEF Owes
  <2> QED
    BY <1>1, <2>1, <2>2, <2>3, <2>4, <2>5, BuildingGoesOn DEF Proceeds
<1> QED
  BY <1>4, <1>5 DEF Bui!loadConnectorSecretValue

(* A request begins, in a slot that serves none, and owes nothing yet.       *)
LEMMA BuildingBegins ==
    ASSUME BuilderInv, NEW s \in Slots, NEW kind \in {"open", "chat", "finalize"},
           NEW at \in {"resolve", "say"}, NEW b \in Sittings, NEW p \in Models,
           NEW asked \in Secrets \cup {None}, NEW text \in Texts \cup {None},
           NEW keys \in SUBSET Catalog,
           buiReq' = [buiReq EXCEPT ![s] = Bui!Request(kind, at, b, p, asked, text, keys)],
           UNCHANGED <<buiSecrets, builder, turns>>,
           kind = "open" => at = "resolve",
           kind # "open" => builder[b] # None,
           kind = "chat" => at = "say" /\ text # None,
           kind = "finalize" => at = "resolve"
    PROVE  BuilderInv'
<1> DEFINE r == Bui!Request(kind, at, b, p, asked, text, keys)
<1>1. <<>> \in Seq(Turn)
  OBVIOUS
<1>2. /\ r.kind = kind /\ r.at = at /\ r.session = b /\ r.text = text /\ r.secret = None
      /\ r \in Building
  BY <1>1 DEF Bui!Request, Building
<1> HIDE DEF r
<1>3. Proceeds(r) /\ ~Owes(r)
  BY <1>2 DEF Proceeds, InOrder, Resolved, Owes
<1>4. Opened(r) => builder[r.session] \in Sitting
  BY <1>2 DEF Opened, BuilderInv, BuilderTyped
<1>5. buiReq' = [buiReq EXCEPT ![s] = r]
  BY DEF r
<1> QED
  BY <1>3, <1>4, <1>5, BuildingGoesOn

(* A turn is added: the user's words are owed an answer by the request that  *)
(* brought them, and the model's settle what it owed.                        *)
LEMMA TurnKeepsBuilder ==
    ASSUME BuilderInv, NEW s \in Slots, NEW role \in {"USER", "ASSISTANT"}, NEW r, NEW b, NEW text,
           buiReq[s] # None, b = buiReq[s].session, text = buiReq[s].text,
           Bui!Say(b, role, text),
           buiReq' = [buiReq EXCEPT ![s] = r], UNCHANGED <<buiSecrets, builder>>,
           Proceeds(r), Opened(r) => builder[r.session] \in Sitting, r.session = b,
           role = "USER" => text # None,
           role = "ASSISTANT" => ~Owes(r),
           role = "ASSISTANT" /\ text # None => Owes(buiReq[s])
    PROVE  BuilderInv'
<1>1. b \in Sittings /\ text \in Texts \cup {None}
  BY Served
<1>2. BuilderTyped /\ BuilderSlots /\ AnswersAreOwed
  BY DEF BuilderInv
<1>3. /\ turns' \in [Sittings -> Seq(Turn)]
      /\ \A c \in Sittings, q \in {"USER", "ASSISTANT"} :
            /\ c = b /\ q = role /\ text # None =>
                  Cardinality(Bui!Said(c, q)') = Cardinality(Bui!Said(c, q)) + 1
            /\ c # b \/ q # role \/ text = None => Bui!Said(c, q)' = Bui!Said(c, q)
  BY <1>1, <1>2, TurnIsAdded
<1>4. BuilderTyped'
  BY <1>2, <1>3 DEF BuilderTyped
<1>5. BuilderSlots'
  BY <1>2 DEF BuilderSlots, ServesSitting
<1>6. ASSUME NEW c \in Sittings
      PROVE  Cardinality(Bui!Said(c, "ASSISTANT")') + Cardinality(Owed(c)')
               <= Cardinality(Bui!Said(c, "USER")')
  <2> DEFINE said == Cardinality(Bui!Said(c, "USER"))
             answered == Cardinality(Bui!Said(c, "ASSISTANT"))
             owed == Cardinality(Owed(c))
  <2>1. answered + owed <= said
    BY <1>2 DEF AnswersAreOwed
  <2>2. answered \in Nat /\ said \in Nat /\ owed \in Nat /\ Cardinality(Owed(c)') \in Nat
        /\ IsFiniteSet(Owed(c)) /\ IsFiniteSet(Owed(c)')
    BY <1>2, SaidIsFinite, OwedIsFinite
  <2>3. CASE c # b
    <3>1. Owed(c)' \in SUBSET Owed(c)
      BY <1>2, <2>3 DEF BuilderSlots, Owed
    <3>2. Cardinality(Owed(c)') <= owed
      BY <2>2, <3>1, FS_Subset
    <3>3. /\ Bui!Said(c, "USER")' = Bui!Said(c, "USER")
          /\ Bui!Said(c, "ASSISTANT")' = Bui!Said(c, "ASSISTANT")
      BY <1>3, <2>3
    <3> QED
      BY <2>1, <2>2, <3>2, <3>3
  <2>4. CASE c = b /\ role = "USER"
    <3>1. Owed(c)' \in SUBSET (Owed(c) \cup {s})
      BY <1>2 DEF BuilderSlots, Owed
    <3>2. IsFiniteSet(Owed(c) \cup {s}) /\ Cardinality(Owed(c) \cup {s}) <= owed + 1
      <4>1. /\ IsFiniteSet(Owed(c) \cup {s})
            /\ Cardinality(Owed(c) \cup {s}) = IF s \in Owed(c) THEN owed ELSE owed + 1
        BY <2>2, FS_AddElement
      <4> HIDE DEF owed
      <4> QED
        BY <2>2, <4>1
    <3>3. Cardinality(Owed(c) \cup {s}) \in Nat
      BY <3>2, FS_CardinalityType
    <3>4. Cardinality(Owed(c)') <= Cardinality(Owed(c) \cup {s})
      BY <3>1, <3>2, FS_Subset
    <3>5. /\ Cardinality(Bui!Said(c, "USER")') = said + 1
          /\ Bui!Said(c, "ASSISTANT")' = Bui!Said(c, "ASSISTANT")
      BY <1>3, <2>4
    <3> HIDE DEF said, answered, owed
    <3>6. Cardinality(Owed(c)') <= owed + 1
      BY <2>2, <3>2, <3>3, <3>4
    <3>7. Cardinality(Bui!Said(c, "ASSISTANT")') = answered
      BY <3>5 DEF answered
    <3> QED
      BY <2>1, <2>2, <3>5, <3>6, <3>7
  <2>5. CASE c = b /\ role = "ASSISTANT"
    <3>1. Owed(c)' \in SUBSET (Owed(c) \ {s})
      BY <1>2, <2>5 DEF BuilderSlots, Owed
    <3>2. /\ IsFiniteSet(Owed(c) \ {s})
          /\ Cardinality(Owed(c) \ {s}) = IF s \in Owed(c) THEN owed - 1 ELSE owed
      BY <2>2, FS_RemoveElement
    <3>3. Cardinality(Owed(c)') <= Cardinality(Owed(c) \ {s})
      BY <3>1, <3>2, FS_Subset
    <3>4. Bui!Said(c, "USER")' = Bui!Said(c, "USER")
      BY <1>3, <2>5
    <3>5. CASE text = None
      <4>1. Bui!Said(c, "ASSISTANT")' = Bui!Said(c, "ASSISTANT")
        BY <1>3, <3>5
      <4> HIDE DEF owed
      <4>2. Cardinality(Owed(c)') <= owed
        BY <2>2, <3>2, <3>3
      <4> QED
        BY <2>1, <2>2, <3>4, <4>1, <4>2 DEF owed
    <3>6. CASE text # None
      <4>1. s \in Owed(c)
        BY <2>5, <3>6 DEF Owed
      <4>2. Cardinality(Bui!Said(c, "ASSISTANT")') = answered + 1
        BY <1>3, <2>5, <3>6
      <4>3. Cardinality(Owed(c)') <= owed - 1
        BY <3>2, <3>3, <4>1
      <4>4. Cardinality(Bui!Said(c, "USER")') = said
        BY <3>4
      <4> HIDE DEF said, answered, owed
      <4> QED
        BY <2>1, <2>2, <4>2, <4>3, <4>4
    <3> QED
      BY <3>5, <3>6
  <2> QED
    BY <2>3, <2>4, <2>5
<1>7. AnswersAreOwed'
  BY <1>6 DEF AnswersAreOwed
<1> QED
  BY <1>4, <1>5, <1>7 DEF BuilderInv

(* A request whose place changes, with its session open.                     *)
LEMMA PlaceChanges ==
    ASSUME NEW q \in Building, NEW at \in BuildStages, NEW r, r = [q EXCEPT !.at = at]
    PROVE  /\ r \in Building /\ r.at = at /\ r.secret = q.secret /\ r.text = q.text
           /\ r.draft = q.draft /\ r.kind = q.kind /\ r.session = q.session
           /\ r.provider = q.provider
BY DEF Building, BuildStages

(* createToolsetBuilderSession makes the session of the request that opens it. *)
LEMMA CreatesKeepBuilder ==
    ASSUME BuilderInv, NEW s \in Slots, Bui!createToolsetBuilderSession(s) PROVE BuilderInv'
<1> DEFINE q == buiReq[s]
           at == IF q.text = None THEN "reply" ELSE "say"
           row == [status |-> "ACTIVE", provider |-> q.provider, asked |-> q.asked,
                   selected |-> {}, draft |-> None]
           r == [q EXCEPT !.at = at]
<1>1. /\ q # None /\ q.at = "create" /\ UNCHANGED <<buiSecrets, turns>>
      /\ builder' = [builder EXCEPT ![q.session] = row]
      /\ buiReq' = [buiReq EXCEPT ![s].at = at]
  BY DEF Bui!At, Bui!createToolsetBuilderSession
<1>2. /\ q \in Building /\ InOrder(q) /\ Resolved(q) /\ q.kind \in {"open", "chat", "finalize"}
      /\ q.session \in Sittings /\ q.provider \in Models /\ q.asked \in Secrets \cup {None}
  BY <1>1, Served
<1>3. buiReq' = [buiReq EXCEPT ![s] = r]
  BY <1>1
<1>4. at \in BuildStages
  BY DEF BuildStages
<1>5. /\ r \in Building /\ r.at = at /\ r.secret = q.secret /\ r.text = q.text
      /\ r.draft = q.draft /\ r.kind = q.kind /\ r.session = q.session
      /\ r.provider = q.provider
  BY <1>2, <1>4, PlaceChanges
<1>6. row \in Sitting
  BY <1>2 DEF Sitting
<1> HIDE DEF r, row
<1>7. /\ builder' \in [Sittings -> Sitting \cup {None}] /\ builder'[q.session] \in Sitting
      /\ \A b \in Sittings : builder[b] \in Sitting => builder'[b] \in Sitting
  BY <1>1, <1>2, <1>6 DEF BuilderInv, BuilderTyped
<1>8. Proceeds(r) /\ ~Owes(r)
  BY <1>1, <1>2, <1>5 DEF Proceeds, InOrder, Resolved, Owes
<1> QED
  BY <1>1, <1>3, <1>5, <1>7, <1>8, BuildingMoves

(* The user's turn, and the model's.                                         *)
LEMMA TurnsKeepBuilder ==
    ASSUME BuilderInv, NEW s \in Slots, Bui!userTurn(s) \/ Bui!assistantTurn(s) PROVE BuilderInv'
<1> DEFINE q == buiReq[s]
<1>1. q # None /\ UNCHANGED <<buiSecrets, builder>>
  BY DEF Bui!At, Bui!userTurn, Bui!assistantTurn
<1>2. /\ q \in Building /\ InOrder(q) /\ Resolved(q) /\ q.kind \in {"open", "chat", "finalize"}
      /\ Opened(q) => builder[q.session] \in Sitting
  BY <1>1, Served
<1>3. CASE Bui!userTurn(s)
  <2> DEFINE at == IF q.kind = "chat" THEN "resolve" ELSE "model"
             r == [q EXCEPT !.at = at]
  <2>1. /\ q.at = "say" /\ Bui!Say(q.session, "USER", q.text)
        /\ buiReq' = [buiReq EXCEPT ![s].at = at]
    BY <1>3 DEF Bui!At, Bui!userTurn
  <2>2. buiReq' = [buiReq EXCEPT ![s] = r]
    BY <2>1
  <2>3. at \in BuildStages
    BY DEF BuildStages
  <2>4. /\ r \in Building /\ r.at = at /\ r.secret = q.secret /\ r.text = q.text
        /\ r.draft = q.draft /\ r.kind = q.kind /\ r.session = q.session
        /\ r.provider = q.provider
    BY <1>2, <2>3, PlaceChanges
  <2> HIDE DEF r
  <2>5. Proceeds(r) /\ q.text # None
    BY <1>2, <2>1, <2>4 DEF Proceeds, InOrder, Resolved
  <2>6. Opened(r) => builder[r.session] \in Sitting
    BY <1>2, <2>1, <2>4 DEF Opened
  <2> QED
    BY <1>1, <2>1, <2>2, <2>4, <2>5, <2>6, TurnKeepsBuilder
<1>4. CASE Bui!assistantTurn(s)
  <2> DEFINE r == [q EXCEPT !.at = "select"]
  <2>1. /\ q.at = "reply" /\ Bui!Say(q.session, "ASSISTANT", q.text)
        /\ buiReq' = [buiReq EXCEPT ![s].at = "select"]
    BY <1>4 DEF Bui!At, Bui!assistantTurn
  <2>2. buiReq' = [buiReq EXCEPT ![s] = r]
    BY <2>1
  <2>3. "select" \in BuildStages
    BY DEF BuildStages
  <2>4. /\ r \in Building /\ r.at = "select" /\ r.secret = q.secret /\ r.text = q.text
        /\ r.draft = q.draft /\ r.kind = q.kind /\ r.session = q.session
        /\ r.provider = q.provider
    BY <1>2, <2>3, PlaceChanges
  <2> HIDE DEF r
  <2>5. Proceeds(r) /\ ~Owes(r)
    BY <1>2, <2>1, <2>4 DEF Proceeds, InOrder, Resolved, Owes
  <2>6. Opened(r) => builder[r.session] \in Sitting
    BY <1>2, <2>1, <2>4 DEF Opened
  <2>7. q.text # None => Owes(q)
    BY <1>2, <2>1 DEF InOrder, Owes
  <2> QED
    BY <1>1, <2>1, <2>2, <2>4, <2>5, <2>6, <2>7, TurnKeepsBuilder
<1> QED
  BY <1>3, <1>4

(* The turns are listed for the model.                                       *)
LEMMA ListsKeepBuilder ==
    ASSUME BuilderInv, NEW s \in Slots, Bui!listTurns(s) PROVE BuilderInv'
<1> DEFINE q == buiReq[s]
           listed == Bui!listToolsetBuilderTurns(q.session)
           r == [q EXCEPT !.at = "model", !.prompt = listed]
<1>1. /\ q # None /\ q.at = "turns" /\ UNCHANGED <<buiSecrets, builder, turns>>
      /\ buiReq' = [buiReq EXCEPT ![s].at = "model", ![s].prompt = listed]
  BY DEF Bui!At, Bui!listTurns
<1>2. /\ q \in Building /\ InOrder(q) /\ Resolved(q) /\ q.kind \in {"open", "chat", "finalize"}
      /\ Opened(q) => builder[q.session] \in Sitting
      /\ q.session \in Sittings
  BY <1>1, Served
<1>3. listed \in Seq(Turn)
  BY <1>2, TurnsAreListed DEF BuilderInv
<1> HIDE DEF listed
<1>4. buiReq = [x \in Slots |-> buiReq[x]]
  BY DEF BuilderInv, BuilderSlots
<1>5. buiReq' = [buiReq EXCEPT ![s] = r]
  BY <1>1, <1>4
<1>6. /\ r \in Building /\ r.at = "model" /\ r.secret = q.secret /\ r.text = q.text
      /\ r.draft = q.draft /\ r.kind = q.kind /\ r.session = q.session
      /\ r.provider = q.provider
  BY <1>2, <1>3 DEF Building
<1> HIDE DEF r
<1>7. Proceeds(r)
  BY <1>1, <1>2, <1>6 DEF Proceeds, InOrder, Resolved
<1>8. Opened(r) => builder[r.session] \in Sitting
  BY <1>1, <1>2, <1>6 DEF Opened
<1>9. Owes(r) => q # None /\ Owes(q) /\ q.session = r.session
  BY <1>1, <1>2, <1>6 DEF Owes, InOrder
<1> QED
  BY <1>1, <1>5, <1>7, <1>8, <1>9, BuildingGoesOn

(* What the model suggests is of the catalog, or the request fails.          *)
LEMMA SuggestsKeepBuilder ==
    ASSUME BuilderInv, NEW s \in Slots, NEW t \in Texts, NEW suggested \in SUBSET Keys,
           Bui!modelSuggests(s, t, suggested)
    PROVE  BuilderInv'
<1> DEFINE q == buiReq[s]
           keys == IF q.kind = "open" THEN suggested ELSE q.keys \cup suggested
           r == [q EXCEPT !.at = "reply", !.text = t, !.keys = keys]
<1>1. /\ q # None /\ q.at = "model" /\ q.kind # "finalize"
      /\ UNCHANGED <<buiSecrets, builder, turns>>
  BY DEF Bui!At, Bui!modelSuggests
<1>2. /\ q \in Building /\ InOrder(q) /\ Resolved(q) /\ q.kind \in {"open", "chat", "finalize"}
      /\ Opened(q) => builder[q.session] \in Sitting
      /\ q.keys \in SUBSET Catalog
  BY <1>1, Served
<1>3. CASE Bui!Answer(s)
  BY <1>1, <1>3, BuildingEnds DEF BuilderInv, BuilderTyped
<1>4. CASE /\ suggested \subseteq Catalog
           /\ buiReq' = [buiReq EXCEPT ![s].at = "reply", ![s].text = t, ![s].keys = keys]
  <2>1. keys \in SUBSET Catalog
    BY <1>2, <1>4
  <2> HIDE DEF keys
  <2>2. buiReq = [x \in Slots |-> buiReq[x]]
    BY DEF BuilderInv, BuilderSlots
  <2>3. buiReq' = [buiReq EXCEPT ![s] = r]
    BY <1>4, <2>2
  <2>4. /\ r \in Building /\ r.at = "reply" /\ r.secret = q.secret /\ r.text = t
        /\ r.draft = q.draft /\ r.kind = q.kind /\ r.session = q.session
        /\ r.provider = q.provider
    BY <1>2, <2>1 DEF Building
  <2> HIDE DEF r
  <2>5. Proceeds(r)
    BY <1>1, <1>2, <2>4, BuilderAssumption DEF Proceeds, InOrder, Resolved
  <2>6. Opened(r) => builder[r.session] \in Sitting
    BY <1>1, <1>2, <2>4 DEF Opened
  <2>7. Owes(r) => q # None /\ Owes(q) /\ q.session = r.session
    BY <1>1, <1>2, <2>4 DEF Owes, InOrder
  <2> QED
    BY <1>1, <2>3, <2>5, <2>6, <2>7, BuildingGoesOn
<1>5. CASE /\ suggested \subseteq Catalog
           /\ buiReq' = [buiReq EXCEPT ![s].at = "reply", ![s].text = t,
                                       ![s].keys = IF buiReq[s].kind = "open" THEN suggested
                                                   ELSE @ \cup suggested]
  <2>1. buiReq' = [buiReq EXCEPT ![s].at = "reply", ![s].text = t, ![s].keys = keys]
    BY <1>2, <1>5 DEF BuilderInv, BuilderSlots, Building
  <2> QED
    BY <1>4, <1>5, <2>1
<1> QED
  BY <1>3, <1>5 DEF Bui!modelSuggests, Bui!normalizeSelectedComponentKeys

(* What it drafts is of the request's own keys.                              *)
LEMMA DraftsKeepBuilder ==
    ASSUME BuilderInv, NEW s \in Slots, NEW mentioned \in SUBSET Keys, Bui!modelDrafts(s, mentioned)
    PROVE  BuilderInv'
<1> DEFINE q == buiReq[s]
           r == [q EXCEPT !.at = "finalize", !.draft = q.keys]
<1>1. /\ q # None /\ q.at = "model" /\ q.kind = "finalize"
      /\ UNCHANGED <<buiSecrets, builder, turns>>
      /\ buiReq' = [buiReq EXCEPT ![s].at = "finalize", ![s].draft = q.keys]
  BY DEF Bui!At, Bui!modelDrafts
<1>2. /\ q \in Building /\ InOrder(q) /\ Resolved(q)
      /\ Opened(q) => builder[q.session] \in Sitting
      /\ q.keys \in SUBSET Catalog
  BY <1>1, Served
<1>3. buiReq = [x \in Slots |-> buiReq[x]]
  BY DEF BuilderInv, BuilderSlots
<1>4. buiReq' = [buiReq EXCEPT ![s] = r]
  BY <1>1, <1>3
<1>5. /\ r \in Building /\ r.at = "finalize" /\ r.secret = q.secret /\ r.text = q.text
      /\ r.draft = q.keys /\ r.kind = q.kind /\ r.session = q.session
      /\ r.provider = q.provider
  BY <1>2 DEF Building
<1> HIDE DEF r
<1>6. Proceeds(r) /\ ~Owes(r)
  BY <1>1, <1>2, <1>5 DEF Proceeds, InOrder, Resolved, Owes
<1>7. Opened(r) => builder[r.session] \in Sitting
  BY <1>1, <1>2, <1>5 DEF Opened
<1> QED
  BY <1>1, <1>4, <1>6, <1>7, BuildingGoesOn

(* The selection, and with the draft it is final: what is stored is of the   *)
(* catalog.                                                                  *)
LEMMA RowsAreTheCatalogs ==
    ASSUME BuilderInv, NEW b \in Sittings, builder[b] \in Sitting, NEW row \in Sitting,
           builder' = [builder EXCEPT ![b] = row]
    PROVE  /\ builder' \in [Sittings -> Sitting \cup {None}]
           /\ \A c \in Sittings : builder[c] \in Sitting => builder'[c] \in Sitting
BY DEF BuilderInv, BuilderTyped

LEMMA WritesKeepBuilder ==
    ASSUME BuilderInv, NEW s \in Slots,
           Bui!updateToolsetBuilderSessionSelection(s) \/ Bui!finalizeToolsetBuilderSession(s)
    PROVE  BuilderInv'
<1> DEFINE q == buiReq[s]
           t == builder[q.session]
<1>1. q # None /\ q.at \in {"select", "finalize"} /\ Bui!Answer(s) /\ UNCHANGED <<buiSecrets, turns>>
  BY DEF Bui!At, Bui!updateToolsetBuilderSessionSelection, Bui!finalizeToolsetBuilderSession
<1>2. /\ q \in Building /\ InOrder(q) /\ q.kind \in {"open", "chat", "finalize"}
      /\ q.keys \in SUBSET Catalog /\ q.session \in Sittings /\ t \in Sitting
  BY <1>1, Served DEF Opened
<1>3. CASE Bui!updateToolsetBuilderSessionSelection(s)
  <2> DEFINE row == [t EXCEPT !.selected = q.keys]
  <2>1. builder' = [builder EXCEPT ![q.session] = row]
    BY <1>3 DEF Bui!updateToolsetBuilderSessionSelection
  <2>2. row \in Sitting
    BY <1>2 DEF Sitting
  <2> QED
    BY <1>1, <1>2, <2>1, <2>2, RowsAreTheCatalogs, BuildingEnds
<1>4. CASE Bui!finalizeToolsetBuilderSession(s)
  <2> DEFINE row == [t EXCEPT !.status = "FINALIZED", !.selected = q.keys, !.draft = q.draft]
  <2>1. q.at = "finalize"
    BY <1>4 DEF Bui!At, Bui!finalizeToolsetBuilderSession
  <2>2. q.draft \in SUBSET Catalog
    BY <1>2, <2>1 DEF InOrder
  <2>3. row \in Sitting
    BY <1>2, <2>2 DEF Sitting
  <2>4. builder' = [builder EXCEPT ![q.session] = row]
    BY <1>2, <1>4 DEF Bui!finalizeToolsetBuilderSession, BuilderInv, BuilderTyped
  <2> HIDE DEF row
  <2> QED
    BY <1>1, <1>2, <2>3, <2>4, RowsAreTheCatalogs, BuildingEnds
<1> QED
  BY <1>3, <1>4

(* Every action keeps it.                                                    *)
LEMMA NextBuilder == BuilderInv /\ [Bui!Next]_buiVars => BuilderInv'
<1> SUFFICES ASSUME BuilderInv, [Bui!Next]_buiVars PROVE BuilderInv'
  OBVIOUS
<1>s. ASSUME UNCHANGED <<builder, turns, buiReq>>, buiSecrets' \subseteq buiSecrets
      PROVE  BuilderInv'
  BY <1>s DEF BuilderInv, BuilderTyped, BuilderSlots, ServesSitting, AnswersAreOwed, Owed, Bui!Said
<1>1. ASSUME NEW k \in buiSecrets, Bui!deleteConnectorSecret(k) PROVE BuilderInv'
  BY <1>1, <1>s DEF Bui!deleteConnectorSecret
<1>2. ASSUME NEW s \in Slots, NEW b \in Sittings, NEW p \in Models,
             NEW k \in (DOMAIN SecretOf) \cup {None}, NEW t \in Texts \cup {None},
             Bui!openSession(s, b, p, k, t)
      PROVE  BuilderInv'
  <2>1. k \in Secrets \cup {None}
    BY DEF Secrets
  <2>2. /\ buiReq' = [buiReq EXCEPT ![s] = Bui!Request("open", "resolve", b, p, k, t, {})]
        /\ UNCHANGED <<buiSecrets, builder, turns>>
    BY <1>2 DEF Bui!openSession
  <2>3. {} \in SUBSET Catalog
    OBVIOUS
  <2> QED
    BY <2>1, <2>2, <2>3, BuildingBegins
<1>3. ASSUME NEW b \in Sittings, builder[b] # None
      PROVE  builder[b].provider \in Models /\ builder[b].asked \in Secrets \cup {None}
  BY <1>3 DEF BuilderInv, BuilderTyped, Sitting
<1>4. ASSUME NEW s \in Slots, NEW b \in Sittings, NEW t \in Texts, NEW keys \in SUBSET Catalog,
             Bui!chatMessage(s, b, t, keys)
      PROVE  BuilderInv'
  BY <1>3, <1>4, BuildingBegins, BuilderAssumption DEF Bui!chatMessage
<1>5. ASSUME NEW s \in Slots, NEW b \in Sittings, NEW keys \in SUBSET Catalog,
             Bui!finalizeDraft(s, b, keys)
      PROVE  BuilderInv'
  BY <1>3, <1>5, BuildingBegins DEF Bui!finalizeDraft
<1>6. ASSUME NEW s \in Slots, Bui!modelFails(s) \/ Bui!requestDies(s) PROVE BuilderInv'
  BY <1>6, BuildingEnds DEF Bui!modelFails, Bui!requestDies, BuilderInv, BuilderTyped
<1>7. CASE UNCHANGED buiVars
  BY <1>7, <1>s DEF buiVars
<1> QED
  BY <1>1, <1>2, <1>4, <1>5, <1>6, <1>7, ResolvesKeepBuilder, LoadsKeepBuilder, CreatesKeepBuilder,
     TurnsKeepBuilder, ListsKeepBuilder, SuggestsKeepBuilder, DraftsKeepBuilder, WritesKeepBuilder
     DEF Bui!Next

(* What is about the builder is a behaviour of ToolsetBuilder.               *)
LEMMA BuilderIsServed == SessionsSpec => Bui!Init /\ [][Bui!Next]_buiVars
<1>1. SessionsInit => Bui!Init
  BY DEF SessionsInit
<1>2. [SessionsNext]_allVars => [Bui!Next]_buiVars
  BY DEF SessionsNext, allVars
<1> QED
  BY <1>1, <1>2, PTL DEF SessionsSpec

(* A model is called with a key of its provider, proposes components of the  *)
(* catalog only, and answers what was said once at most (resolveSecret, the  *)
(* chat and finalize handlers).                                              *)
THEOREM BuilderIsKept == SessionsSpec => []BuilderHolds
<1>1. ASSUME BuilderInv PROVE BuilderHolds
  <2>1. Bui!KeysFitTheirProvider
    BY <1>1, Served DEF Bui!KeysFitTheirProvider, Bui!At, Resolved
  <2>2. Bui!ComponentsAreTheCatalogs
    BY <1>1 DEF BuilderInv, BuilderTyped, Sitting, Bui!ComponentsAreTheCatalogs
  <2>3. ASSUME NEW b \in Sittings
        PROVE  Bui!Cardinality(Bui!Said(b, "ASSISTANT")) <= Bui!Cardinality(Bui!Said(b, "USER"))
    <3>1. /\ Bui!Cardinality(Bui!Said(b, "ASSISTANT")) = Cardinality(Bui!Said(b, "ASSISTANT"))
          /\ Bui!Cardinality(Bui!Said(b, "USER")) = Cardinality(Bui!Said(b, "USER"))
      BY DEF Bui!Cardinality, Cardinality
    <3>2. /\ Cardinality(Bui!Said(b, "ASSISTANT")) \in Nat /\ Cardinality(Bui!Said(b, "USER")) \in Nat
          /\ Cardinality(Owed(b)) \in Nat
      BY <1>1, SaidIsFinite, OwedIsFinite DEF BuilderInv
    <3>3. Cardinality(Bui!Said(b, "ASSISTANT")) + Cardinality(Owed(b))
            <= Cardinality(Bui!Said(b, "USER"))
      BY <1>1 DEF BuilderInv, AnswersAreOwed
    <3> QED
      BY <3>1, <3>2, <3>3
  <2>4. Bui!AnswersWereAsked
    BY <2>3 DEF Bui!AnswersWereAsked
  <2> QED
    BY <2>1, <2>2, <2>4 DEF BuilderHolds
<1> QED
  BY <1>1, BuilderIsServed, InitBuilder, NextBuilder, PTL
=============================================================================
