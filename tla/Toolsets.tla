------------------------------- MODULE Toolsets -------------------------------
(***************************************************************************)
(* Toolsets: the bundles of tools an organization keeps, publishes in the  *)
(* gallery under a slug, and adopts from it.  Editing, publishing and      *)
(* adopting read a row first and write it, or a copy of it, afterwards;    *)
(* the reads and the writes are steps of their own, since each is a        *)
(* statement that sees what has been committed by then.                    *)
(***************************************************************************)
EXTENDS Naturals, FiniteSets

CONSTANTS
    Orgs, Slots, Slugs,
    Unpublished,    \* "private" and "org": nothing but the gallery tells them apart here
    Contents,       \* the servers and skills of a toolset
    Safe,           \* those with placeholders where secrets would stand
    MaxToolsets,
    None

VARIABLES
    toolsets,       \* rows: [id, org, visibility, slug, content, from]
    made,           \* how many rows were ever inserted
    shown,          \* what was once in the gallery: <<id, slug, content>>
    req             \* the request a slot serves

vars == <<toolsets, made, shown, req>>

Init == toolsets = {} /\ made = 0 /\ shown = {} /\ req = [s \in Slots |-> None]

Answer(s) == req' = [req EXCEPT ![s] = None]
Rows(org, id) == {t \in toolsets : t.id = id /\ t.org = org}
Public(slug) == {t \in toolsets : t.visibility = "public" /\ t.slug = slug}
Put(t) == toolsets' = {u \in toolsets : u.id # t.id} \cup {t}

insert(row) ==
    /\ made < MaxToolsets
    /\ made' = made + 1
    /\ toolsets' = toolsets \cup {row}

(* POST /toolsets: refused when a value of the bundle is not a placeholder. *)
createAgentToolset(org, visibility, content) ==
    /\ content \in Safe
    /\ insert([id |-> made + 1, org |-> org, visibility |-> visibility, slug |-> None,
               content |-> content, from |-> None])
    /\ UNCHANGED <<shown, req>>

(* PUT: a published toolset is refused; what is written is decided later. *)
putToolset(s, org, visibility, content) ==
    /\ req[s] = None /\ content \in Safe
    /\ \E t \in toolsets :
          /\ t.org = org /\ t.visibility # "public"
          /\ req' = [req EXCEPT ![s] = [at |-> "put", org |-> org, id |-> t.id,
                                        visibility |-> visibility, content |-> content]]
    /\ UNCHANGED <<toolsets, made, shown>>

(* The row is read once more, for the columns an edit keeps. *)
existingToolset(s) ==
    /\ req[s] # None /\ req[s].at = "put"
    /\ \/ Rows(req[s].org, req[s].id) = {} /\ Answer(s)
       \/ \E t \in Rows(req[s].org, req[s].id) :
             req' = [req EXCEPT ![s] = [at |-> "edit", org |-> t.org, id |-> t.id,
                                        visibility |-> req[s].visibility,
                                        content |-> req[s].content,
                                        slug |-> t.slug]]
    /\ UNCHANGED <<toolsets, made, shown>>

Edited(s, t) == [t EXCEPT !.visibility = req[s].visibility, !.slug = req[s].slug,
                          !.content = req[s].content]

updateAgentToolset_KeepsVisibility(s) ==
    /\ req[s] # None /\ req[s].at = "edit"
    /\ \/ \E t \in Rows(req[s].org, req[s].id) : Put([Edited(s, t) EXCEPT !.visibility = t.visibility, !.slug = t.slug])
       \/ Rows(req[s].org, req[s].id) = {} /\ UNCHANGED toolsets
    /\ Answer(s)
    /\ UNCHANGED <<made, shown>>

updateAgentToolset(s) ==
    /\ req[s] # None /\ req[s].at = "edit"
    /\ \/ \E t \in Rows(req[s].org, req[s].id) : Put(Edited(s, t))
       \/ Rows(req[s].org, req[s].id) = {} /\ UNCHANGED toolsets
    /\ Answer(s)
    /\ UNCHANGED <<made, shown>>

deleteAgentToolset(t) ==
    /\ t \in toolsets
    /\ toolsets' = toolsets \ {t}
    /\ UNCHANGED <<made, shown, req>>

(* POST /publish: the content is checked again before the row is made public. *)
publishToolset(s, org, slug) ==
    /\ req[s] = None
    /\ \E t \in toolsets :
          /\ t.org = org /\ t.content \in Safe
          /\ req' = [req EXCEPT ![s] = [at |-> "publish", org |-> org, id |-> t.id, slug |-> slug]]
    /\ UNCHANGED <<toolsets, made, shown>>

publishAgentToolset_AnySlug(s) ==
    /\ req[s] # None /\ req[s].at = "publish"
    /\ \/ Rows(req[s].org, req[s].id) = {} /\ UNCHANGED <<toolsets, shown>>
       \/ \E t \in Rows(req[s].org, req[s].id) :
             /\ Put([t EXCEPT !.visibility = "public", !.slug = req[s].slug])
             /\ shown' = shown \cup {<<t.id, req[s].slug, t.content>>}
    /\ Answer(s)
    /\ UNCHANGED made

(* PUBLIC_SLUG_CONFLICT when the slug is another public toolset's. *)
publishAgentToolset(s) ==
    /\ req[s] # None /\ req[s].at = "publish"
    /\ \/ /\ Rows(req[s].org, req[s].id) = {} \/ \E u \in Public(req[s].slug) : u.id # req[s].id
          /\ UNCHANGED <<toolsets, shown>>
       \/ /\ \A u \in Public(req[s].slug) : u.id = req[s].id
          /\ \E t \in Rows(req[s].org, req[s].id) :
                /\ Put([t EXCEPT !.visibility = "public", !.slug = req[s].slug])
                /\ shown' = shown \cup {<<t.id, req[s].slug, t.content>>}
    /\ Answer(s)
    /\ UNCHANGED made

unpublishAgentToolset(org, id, visibility) ==
    /\ \E t \in Rows(org, id) : Put([t EXCEPT !.visibility = visibility, !.slug = None])
    /\ UNCHANGED <<made, shown, req>>

getPublicAgentToolsetBySlug_AnyVisibility(slug) == {t \in toolsets : t.slug = slug}

getPublicAgentToolsetBySlug(slug) == Public(slug)

(* POST /adopt: the public row is read, and its copy is inserted. *)
adoptToolset(s, org, slug) ==
    /\ req[s] = None
    /\ \E t \in getPublicAgentToolsetBySlug(slug) :
          req' = [req EXCEPT ![s] = [at |-> "adopt", org |-> org, source |-> t]]
    /\ UNCHANGED <<toolsets, made, shown>>

adoptPublicAgentToolset(s) ==
    /\ req[s] # None /\ req[s].at = "adopt"
    /\ LET t == req[s].source
       IN  insert([id |-> made + 1, org |-> req[s].org, visibility |-> "org", slug |-> None,
                   content |-> t.content, from |-> [id |-> t.id, slug |-> t.slug, content |-> t.content]])
    /\ Answer(s)
    /\ UNCHANGED shown

requestDies(s) ==
    /\ req[s] # None
    /\ Answer(s)
    /\ UNCHANGED <<toolsets, made, shown>>

Next ==
    \/ \E org \in Orgs, v \in Unpublished, c \in Contents : createAgentToolset(org, v, c)
    \/ \E t \in toolsets : deleteAgentToolset(t)
    \/ \E org \in Orgs, id \in 1..MaxToolsets, v \in Unpublished : unpublishAgentToolset(org, id, v)
    \/ \E s \in Slots :
          \/ \E org \in Orgs, v \in Unpublished, c \in Contents : putToolset(s, org, v, c)
          \/ existingToolset(s) \/ updateAgentToolset(s)
          \/ \E org \in Orgs, slug \in Slugs : publishToolset(s, org, slug) \/ adoptToolset(s, org, slug)
          \/ publishAgentToolset(s) \/ adoptPublicAgentToolset(s) \/ requestDies(s)

Spec == Init /\ [][Next]_vars

-----------------------------------------------------------------------------
(* What the gallery shows under a slug is one toolset, however many         *)
(* publish under it at once (PUBLIC_SLUG_CONFLICT, server.ts:5472).          *)
OneToolsetPerSlug ==
    \A t, u \in toolsets :
        t.visibility = "public" /\ u.visibility = "public" /\ t.slug = u.slug => t = u

(* An edit that was let in before its toolset was published does not reach  *)
(* the gallery: as long as a toolset is public, its content is the one that  *)
(* was published (server.ts:5376 checks the row it read, which is not the    *)
(* row it writes).                                                           *)
PublishedContentStays ==
    \A t \in toolsets : t.visibility = "public" => <<t.id, t.slug, t.content>> \in shown

(* What an organization adopts was in the gallery under the slug it asked   *)
(* for: never the private content of another organization, also when the    *)
(* toolset was edited or unpublished in the meantime.                        *)
AdoptedWasShown ==
    \A t \in toolsets : t.from # None => <<t.from.id, t.from.slug, t.from.content>> \in shown

(* A slug is set only while the toolset is published                        *)
(* (docs/contracts/toolsets.md:13).                                          *)
SlugOnlyWhenPublished == \A t \in toolsets : t.slug # None => t.visibility = "public"
=============================================================================
