----------------------------- MODULE MCSessions ------------------------------
(***************************************************************************)
(* What users see and keep, in one run: a behaviour is about the secrets   *)
(* of language models, the routes of sessions, the sockets of a session's  *)
(* clients, the gallery of toolsets, or their builder, and the others stay *)
(* as they begin.                                                          *)
(***************************************************************************)
EXTENDS LlmSecrets, Sequences, TLC

CONSTANTS
    Requests, Norm, Pool, Messages, MaxSessions, MaxEntries,            \* sessions
    Edges, Brains, Chats, Clients, EdgeOf, TailLimit, MaxEvents, MaxPins,       \* clients
    Unpublished, Slugs, Contents, Safe, MaxToolsets,                    \* the gallery
    Sittings, Keys, Catalog, Texts, Models, Connectors, SecretOf, Default, Managed,
    TurnLimit, TurnTail, MaxTurns                                       \* the builder

CONSTANTS
    ann, bea,           \* senders
    e1, e2, c1, c2      \* edges and clients

\* What is not in the gallery is private or of the organization.
ASSUME GalleryAssumption == "org" \in Unpublished /\ "public" \notin Unpublished

\* A client uses a key for one message, and sends a message under one key.
ASSUME MessagesAssumption ==
    \A m, n \in Messages : m.message = n.message \/ (m.try = n.try /\ m.try # None) => m = n
ASSUME SessionsAssumption == MaxSessions \in Nat

\* A client is connected to an edge; what is stored or served is not None, and a
\* brain is no edge.
ASSUME ClientsAssumption ==
    /\ EdgeOf \in [Clients -> Edges] /\ "brain" \notin Edges /\ None \notin Chats
    /\ TailLimit \in Nat /\ MaxEvents \in Nat /\ MaxPins \in Nat
ASSUME RecordsAssumption ==
    /\ None \notin [session : Chats, at : {"read", "added", "noted"}, pin : 0..MaxPins]
    /\ None \notin [session : Chats, event : 0..MaxEvents]
    /\ None \notin [session : Chats, event : 0..MaxEvents, to : (SUBSET Edges) \cup {None}]

\* Somebody who speaks says something, and a server has so many slots.
ASSUME BuilderAssumption ==
    None \notin Texts /\ IsFiniteSet(Slots) /\ TurnLimit \in Nat /\ TurnTail \in Nat

VARIABLES
    scene,
    bindings, sessions, entries, stream, rouReq, accepted,
    events, pin, members, presence, bus, brain, sock, join, say, seen, lapsed, lost,
    toolsets, tooMade, shown, tooReq,
    buiSecrets, builder, turns, buiReq

\* Sessions: a direct message of ann and one of bea for the main session, the
\* bindings there may be, and a message with an idempotency key and one without.
TheRequests == {[scope |-> "per-peer", peer |-> ann, role |-> "owner", organization |-> "org"],
                [scope |-> "main", peer |-> bea, role |-> "member", organization |-> "org"]}
TheNorm == ann :> "a" @@ bea :> "b"
ThePool == {[id |-> 1, agent |-> "x", dimension |-> "peer", priority |-> 0, match |-> ann],
            [id |-> 1, agent |-> "y", dimension |-> "default", priority |-> 1, match |-> None],
            [id |-> 2, agent |-> "z", dimension |-> "org_roles", priority |-> 0, match |-> "owner"],
            [id |-> 2, agent |-> "z", dimension |-> "organization", priority |-> 0, match |-> None]}
TheMessages == {[message |-> "m1", try |-> "k1"], [message |-> "m2", try |-> None]}

\* Each client has an edge of its own.
TheEdges == c1 :> e1 @@ c2 :> e2

\* The builder: a secret of each provider, and one default.
TheSecrets == [k1 |-> "llm.openai", k2 |-> "llm.anthropic"]
TheConnectors == [openai |-> {"llm.openai"}, anthropic |-> {"llm.anthropic"}]
TheDefaults == [openai |-> "k2", anthropic |-> None]

Rou == INSTANCE SessionRoutes WITH MaxEvents <- MaxEntries, events <- entries, req <- rouReq

Cli == INSTANCE SessionClients WITH Sessions <- Chats

Too == INSTANCE Toolsets WITH made <- tooMade, req <- tooReq

Bui == INSTANCE ToolsetBuilder WITH
    Sessions <- Sittings, Providers <- Models, secrets <- buiSecrets, req <- buiReq

rouVars == <<bindings, sessions, entries, stream, rouReq, accepted>>
cliVars == <<events, pin, members, presence, bus, brain, sock, join, say, seen, lapsed, lost>>
tooVars == <<toolsets, tooMade, shown, tooReq>>
buiVars == <<buiSecrets, builder, turns, buiReq>>
allVars == <<scene, vars, rouVars, cliVars, tooVars, buiVars>>

Symmetry == Permutations(Slots) \cup Permutations(Orgs)

\* Sessions and their bindings while they are made, or one session and what is
\* written to it, by one request at a time while it is pinned.
Serves(steps) == \E s \in Slots : rouReq[s] # None /\ rouReq[s].at \in steps
TypesOf(id) == {entries[id][i].type : i \in DOMAIN entries[id]}
Few ==
    LET making == Serves({"create", "created"})
        writing == \/ Serves({"append", "send", "sent", "reset"})
                   \/ \E id \in Rou!Ids : TypesOf(id) \ {"session_created"} # {}
    IN /\ writing \/ stream # {} => bindings = {} /\ Cardinality(sessions) = 1 /\ ~making
       /\ \A id \in Rou!Ids :
             Cardinality({i \in DOMAIN entries[id] : entries[id][i].type = "session_created"}) <= 1
       /\ (\E t \in sessions : t.status = "archived") => writing
       /\ (\E t \in sessions : t.pin # None) => Cardinality({s \in Slots : rouReq[s] # None}) <= 1

\* What happens in x is watched; y is where a client may have been, or may go.
\* c2 reads only. Keys expire, brains die and executors are pinned while c1 is
\* alone.
Alone == sock'[c2].state = "new"
Watched ==
    /\ events'["y"] = <<>> /\ presence'["y"] \subseteq {e1} /\ "y" \notin lapsed'
    /\ pin'["y"] = 0
    /\ join'[c2] # None => join'[c2].session = "x"
    /\ say'[c2] = None
    /\ sock'[c2].state # "closed"
    /\ lapsed' # {} => lost' = {} /\ Alone
    /\ pin'["x"] = 1 => events'["x"] = <<>> /\ Alone
    /\ lost' # lost => Alone /\ lapsed' = {}

SessionsInit ==
    /\ scene \in {"secrets", "sessions", "clients", "toolsets", "builder"}
    /\ Init /\ Rou!Init /\ Cli!Init /\ Too!Init /\ Bui!Init

SessionsNext ==
    \/ scene = "secrets" /\ Next /\ UNCHANGED <<scene, rouVars, cliVars, tooVars, buiVars>>
    \/ scene = "sessions" /\ Rou!Next /\ Few' /\ UNCHANGED <<scene, vars, cliVars, tooVars, buiVars>>
    \/ scene = "clients" /\ Cli!Next /\ Watched /\ UNCHANGED <<scene, vars, rouVars, tooVars, buiVars>>
    \/ scene = "toolsets" /\ Too!Next /\ UNCHANGED <<scene, vars, rouVars, cliVars, buiVars>>
    \/ scene = "builder" /\ Bui!Next /\ UNCHANGED <<scene, vars, rouVars, cliVars, tooVars>>

SessionsSpec == SessionsInit /\ [][SessionsNext]_allVars

-----------------------------------------------------------------------------
\* Requests for one conversation get one session, whoever inserts it; what was
\* answered 202 is an event and a command the brain was given; a command names
\* the event that holds its message, also when the sender tried again or others
\* wrote in between; a message sent again under its key is one event; and the
\* binding of a session exists (createAgentSession, server.ts:4344-4425).
RoutesHold ==
    scene = "sessions" =>
        /\ Rou!OneSessionPerKey /\ Rou!AcceptedReachesBrain /\ Rou!CommandsNameTheirEvent
        /\ Rou!KeyedMessagesAreOne /\ Rou!BindingsExist

\* No gap: whatever a brain stored, and whatever was written through the
\* client's own edge, since the oldest event it was sent, it has been sent
\* or will be, however its join met the broadcasts, unless the session's
\* key in Redis expired or failed, or a brain died over it; and on its edge it
\* is in one session at most (joinSessionForClient, edge/server.ts:459-509).
ClientsFollow == scene = "clients" => Cli!NoGap /\ Cli!OneSessionAtATime

\* What the gallery shows under a slug is one toolset; as long as a toolset is
\* public its content is the one that was published, though an edit was let in
\* before; and what an organization adopts was in the gallery, never the
\* private content of another one (server.ts:5376, 5472).
GalleryHolds ==
    scene = "toolsets" =>
        Too!OneToolsetPerSlug /\ Too!PublishedContentStays /\ Too!AdoptedWasShown

\* The key a model is called with is one stored for that provider or for the
\* engine it is linked to (server.ts:5568); "The model does not invent MCP
\* transport details." (docs/contracts/toolsets.md:54); and what is said in a
\* session is answered once at most (the chat handler, server.ts:5831).
BuilderHolds ==
    scene = "builder" =>
        Bui!KeysFitTheirProvider /\ Bui!ComponentsAreTheCatalogs /\ Bui!AnswersWereAsked
=============================================================================
