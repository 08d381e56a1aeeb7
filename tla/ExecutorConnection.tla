-------------------------- MODULE ExecutorConnection --------------------------
(***************************************************************************)
(* How an executor comes into being and stays reachable: the API issues    *)
(* pairing tokens, pairs hosts, issues managed executors, revokes and      *)
(* deletes them (apps/api/src/server.ts); a node agent connects to an edge *)
(* with its token and reconnects (apps/node-agent/src/runtime.ts); an edge *)
(* authenticates the socket, keeps it in executorsById and writes the      *)
(* executor's route to Redis (apps/gateway/src/edge/server.ts).            *)
(*                                                                         *)
(* One host pairs with each token at most once per request; what is sent   *)
(* over the sockets is in ToolInvocation and SessionTurn.                  *)
(***************************************************************************)
EXTENDS Integers, FiniteSets

CONSTANTS
    Hosts,          \* executors, each with one node agent
    Pool,           \* "byon" or "managed"
    Edges,
    Requests,       \* pairing requests, all with one pairing token
    None,           \* no host, edge, socket or route
    Labels,         \* what routing can tell apart
    HalfOpen,       \* an edge may see a socket close after the agent has
    MaxSockets,     \* bound: connections, when there are so many nobody dials
    MaxGreets,      \* bound: an edge's handlers of one socket's messages at a time
    MaxAdmin        \* bound: label changes, revocations and deletions

ASSUME BoundsAssumption == MaxSockets \in Nat /\ MaxGreets \in Nat /\ MaxAdmin \in Nat

VARIABLES
    \* executor_pairing_tokens: the token; and the requests that present it.
    token, pairing,
    \* organization_executors and managed_executors: for each host its row,
    \* whether its token's prefix is what an edge compares it with, its labels.
    row,
    \* Sockets: the host, the edge, the labels its hello reported, whether it
    \* is open at the agent and at the edge, and whether the row was active
    \* when it was authenticated; upgrades wait for executors still connecting;
    \* for each socket the messages whose handlers are writing to the database.
    sockets, upgrade, greeting,
    \* executorsById of each edge; executor:route:<id> in Redis.
    executorsById, route,
    \* Hosts a deletion has seen revoked; what the bounds count.
    deleting, admin,
    \* History: hosts that were paired with the token; sockets that were opened
    \* through an edge which still saw an older one of the same host.
    paired, overtook

apiVars  == <<token, pairing, row, deleting, admin, paired>>
connVars == <<sockets, upgrade, greeting, executorsById, route, overtook>>
vars == <<apiVars, connVars>>

Row == [status : {"none", "active", "revoked", "deleted"}, prefixOk : BOOLEAN, labels : Labels]
Socket == [host : Hosts, edge : Edges, labels : Labels, agent : BOOLEAN, edgeSees : BOOLEAN]
Route == [edge : Edges, labels : Labels]
NoRow(l) == [status |-> "none", prefixOk |-> FALSE, labels |-> l]

Init ==
    /\ token = "none" /\ pairing = [p \in Requests |-> "idle"]
    /\ \E l \in Labels : row = [h \in Hosts |-> NoRow(l)]
    /\ sockets = [i \in {} |-> None] /\ upgrade = [h \in Hosts |-> None]
    /\ greeting = [i \in {} |-> 0] /\ overtook = {}
    /\ executorsById = [g \in Edges |-> [h \in Hosts |-> None]]
    /\ route = [h \in Hosts |-> None]
    /\ deleting = {} /\ admin = 0 /\ paired = {}

Active(h) == row[h].status = "active"

-----------------------------------------------------------------------------
(* The API: pairing.                                                       *)

createExecutorPairingToken ==
    /\ token = "none" /\ token' = "fresh"
    /\ UNCHANGED <<pairing, row, deleting, admin, paired, connVars>>

\* Fifteen minutes pass.
TokenExpires ==
    /\ token = "fresh" /\ token' = "expired"
    /\ UNCHANGED <<pairing, row, deleting, admin, paired, connVars>>

\* The handler reads the token's row and refuses one that is used or expired.
PairCheck(p) ==
    /\ pairing[p] = "idle" /\ token # "none"
    /\ pairing' = [pairing EXCEPT ![p] = IF token = "fresh" THEN "checked" ELSE "refused"]
    /\ UNCHANGED <<token, row, deleting, admin, paired, connVars>>

\* Mutant: the update does not look at usedAt again.
consumeExecutorPairingToken_Again(p) ==
    /\ pairing[p] = "checked"
    /\ IF token # "expired" THEN token' = "used" /\ pairing' = [pairing EXCEPT ![p] = "consumed"]
       ELSE UNCHANGED token /\ pairing' = [pairing EXCEPT ![p] = "refused"]
    /\ UNCHANGED <<row, deleting, admin, paired, connVars>>

\* One conditional update decides.
consumeExecutorPairingToken(p) ==
    /\ pairing[p] = "checked"
    /\ IF token = "fresh" THEN token' = "used" /\ pairing' = [pairing EXCEPT ![p] = "consumed"]
       ELSE UNCHANGED token /\ pairing' = [pairing EXCEPT ![p] = "refused"]
    /\ UNCHANGED <<row, deleting, admin, paired, connVars>>

\* The executor's row and its own token, which names the organization.
createOrganizationExecutor(p, h) ==
    /\ pairing[p] = "consumed" /\ Pool[h] = "byon" /\ row[h].status = "none"
    /\ pairing' = [pairing EXCEPT ![p] = "paired"] /\ paired' = paired \cup {h}
    /\ row' = [row EXCEPT ![h].status = "active", ![h].prefixOk = TRUE]
    /\ UNCHANGED <<token, deleting, admin, connVars>>

\* The insert fails after the token was consumed: the host needs a new token.
createOrganizationExecutorFails(p) ==
    /\ pairing[p] = "consumed" /\ pairing' = [pairing EXCEPT ![p] = "refused"]
    /\ UNCHANGED <<token, row, deleting, admin, paired, connVars>>

\* The token's prefix is an id drawn by the handler; the row's id is drawn by
\* the database, since the handler does not pass its own on.
createManagedExecutor(h) ==
    /\ Pool[h] = "managed" /\ row[h].status = "none"
    /\ row' = [row EXCEPT ![h].status = "active", ![h].prefixOk = FALSE]
    /\ UNCHANGED <<token, pairing, deleting, admin, paired, connVars>>

Admin == admin < MaxAdmin /\ admin' = admin + 1

setOrganizationExecutorLabels(h, l) ==
    /\ Pool[h] = "byon" /\ row[h].status \in {"active", "revoked"} /\ Admin
    /\ row' = [row EXCEPT ![h].labels = l]
    /\ UNCHANGED <<token, pairing, deleting, paired, connVars>>

\* Neither the edge nor the route is told.
revokeExecutor(h) ==
    /\ row[h].status \in {"active", "revoked"} /\ Admin
    /\ row' = [row EXCEPT ![h].status = "revoked"]
    /\ UNCHANGED <<token, pairing, deleting, paired, connVars>>

\* The handler lists the executors and refuses one that is not revoked; the
\* DELETE looks at revokedAt again.
deleteExecutorHandler(h) ==
    /\ Pool[h] = "byon" /\ row[h].status = "revoked" /\ Admin
    /\ deleting' = deleting \cup {h}
    /\ UNCHANGED <<token, pairing, row, paired, connVars>>

deleteOrganizationExecutor(h) ==
    /\ h \in deleting /\ deleting' = deleting \ {h}
    /\ row' = [row EXCEPT ![h].status = IF @ = "revoked" THEN "deleted" ELSE @]
    /\ UNCHANGED <<token, pairing, admin, paired, connVars>>

-----------------------------------------------------------------------------
(* The node agent and the edge.                                            *)

SocketsOf(h) == {i \in DOMAIN sockets : sockets[i].host = h}
OpenAtAgent(h) == {i \in SocketsOf(h) : sockets[i].agent}
OpenAtEdge(h) == {i \in SocketsOf(h) : sockets[i].edgeSees}

\* Mutant: a row is accepted though it was revoked.
authenticates_Revoked(h) == row[h].status \in {"active", "revoked"} /\ row[h].prefixOk

\* handleUpgrade: the row of the token, not revoked, with the right prefix.
authenticates(h) == Active(h) /\ row[h].prefixOk

\* The agent's loop dials again when it has no socket; one edge at a time.
Dial(h, g) ==
    /\ OpenAtAgent(h) = {} /\ upgrade[h] = None /\ (HalfOpen \/ OpenAtEdge(h) = {})
    /\ Cardinality(DOMAIN sockets) < MaxSockets /\ authenticates(h)
    /\ upgrade' = [upgrade EXCEPT ![h] = g]
    /\ UNCHANGED <<apiVars, sockets, greeting, executorsById, route, overtook>>

writeExecutorRoute(h, g, l) == route' = [route EXCEPT ![h] = [edge |-> g, labels |-> l]]

\* The socket takes the place of an older one; its route has the row's labels.
handleUpgrade(h) ==
    /\ upgrade[h] # None
    /\ LET i == Cardinality(DOMAIN sockets) + 1
           g == upgrade[h]
       IN  /\ \E l \in Labels :
                sockets' = [j \in 1..i |-> IF j < i THEN sockets[j]
                    ELSE [host |-> h, edge |-> g, labels |-> l, agent |-> TRUE, edgeSees |-> TRUE]]
           /\ greeting' = [j \in 1..i |-> IF j < i THEN greeting[j] ELSE 0]
           /\ executorsById' = [executorsById EXCEPT ![g][h] = i]
           /\ writeExecutorRoute(h, g, row[h].labels)
           /\ overtook' = IF \E j \in OpenAtEdge(h) : sockets[j].edge = g
                          THEN overtook \cup {i} ELSE overtook
    /\ upgrade' = [upgrade EXCEPT ![h] = None]
    /\ UNCHANGED apiVars

\* executor_hello_v2, at once and every 15 seconds, and each tool_result_v2: the
\* handler first awaits touchExecutor.  What was sent may arrive after the agent
\* has lost the socket.
hello(i) ==
    /\ sockets[i].edgeSees /\ greeting[i] < MaxGreets
    /\ greeting' = [greeting EXCEPT ![i] = @ + 1]
    /\ UNCHANGED <<apiVars, sockets, upgrade, executorsById, route, overtook>>

\* Mutant: only the handshake writes the route.
helloWrites_Nothing(i) ==
    /\ greeting[i] > 0 /\ greeting' = [greeting EXCEPT ![i] = @ - 1]
    /\ UNCHANGED <<apiVars, sockets, upgrade, executorsById, route, overtook>>

\* Then the route is written again, with the labels that the agent reported,
\* whether the socket is still open or not.
helloWrites(i) ==
    /\ greeting[i] > 0 /\ greeting' = [greeting EXCEPT ![i] = @ - 1]
    /\ writeExecutorRoute(sockets[i].host, sockets[i].edge, sockets[i].labels)
    /\ UNCHANGED <<apiVars, sockets, upgrade, executorsById, overtook>>

\* ws.on("close"): the executor's entry and route go, whichever socket it was.
SocketCloses(i) ==
    /\ sockets[i].edgeSees /\ ~sockets[i].agent
    /\ sockets' = [sockets EXCEPT ![i].edgeSees = FALSE]
    /\ executorsById' = [executorsById EXCEPT ![sockets[i].edge][sockets[i].host] = None]
    /\ route' = [route EXCEPT ![sockets[i].host] = None]
    /\ UNCHANGED <<apiVars, upgrade, greeting, overtook>>

\* The agent loses its connection and will dial again.
ConnectionLost(i) ==
    /\ sockets[i].agent /\ sockets' = [sockets EXCEPT ![i].agent = FALSE]
    /\ UNCHANGED <<apiVars, upgrade, greeting, executorsById, route, overtook>>

\* A command for an executor whose socket is closing, and whose close has not
\* been told yet: safeWsSend fails, and the entry and the route are removed.
SendFails(g, h) ==
    /\ executorsById[g][h] # None /\ ~sockets[executorsById[g][h]].agent
    /\ executorsById' = [executorsById EXCEPT ![g][h] = None]
    /\ route' = [route EXCEPT ![h] = None]
    /\ UNCHANGED <<apiVars, sockets, upgrade, greeting, overtook>>

\* No hello for the route's time to live.
RouteExpires(h) ==
    /\ route[h] # None /\ OpenAtAgent(h) \cap OpenAtEdge(h) = {}
    /\ route' = [route EXCEPT ![h] = None]
    /\ UNCHANGED <<apiVars, sockets, upgrade, greeting, executorsById, overtook>>

-----------------------------------------------------------------------------
ApiStep ==
    \/ createExecutorPairingToken \/ TokenExpires
    \/ \E p \in Requests :
          \/ PairCheck(p) \/ consumeExecutorPairingToken(p) \/ createOrganizationExecutorFails(p)
          \/ \E h \in Hosts : createOrganizationExecutor(p, h)
    \/ \E h \in Hosts :
          \/ createManagedExecutor(h) \/ revokeExecutor(h)
          \/ deleteExecutorHandler(h) \/ deleteOrganizationExecutor(h)
          \/ \E l \in Labels : setOrganizationExecutorLabels(h, l)

AgentStep(h) ==
    \/ \E g \in Edges : Dial(h, g)
    \/ handleUpgrade(h)
    \/ \E i \in OpenAtAgent(h) : hello(i)

Greets(h) == \E i \in SocketsOf(h) : helloWrites(i)

EdgeCloses == \E i \in DOMAIN sockets : SocketCloses(i)

Next ==
    \/ ApiStep
    \/ \E h \in Hosts :
          \/ AgentStep(h) \/ Greets(h) \/ RouteExpires(h) \/ \E g \in Edges : SendFails(g, h)
    \/ EdgeCloses
    \/ \E i \in DOMAIN sockets : hello(i) \/ ConnectionLost(i)

Spec == Init /\ [][Next]_vars

\* Agents keep dialling and greeting, edges see sockets close and end what they
\* handle, routes expire.
Fairness ==
    /\ \A h \in Hosts : WF_vars(AgentStep(h)) /\ WF_vars(Greets(h)) /\ WF_vars(RouteExpires(h))
    /\ WF_vars(EdgeCloses)

FairSpec == Spec /\ Fairness

-----------------------------------------------------------------------------
(* Properties.                                                             *)

TypeOK ==
    /\ token \in {"none", "fresh", "used", "expired"}
    /\ pairing \in [Requests -> {"idle", "checked", "consumed", "paired", "refused"}]
    /\ row \in [Hosts -> Row]
    /\ DOMAIN sockets = 1..Cardinality(DOMAIN sockets)
    /\ sockets \in [DOMAIN sockets -> Socket]
    /\ upgrade \in [Hosts -> Edges \cup {None}]
    /\ greeting \in [DOMAIN sockets -> 0..MaxGreets] /\ overtook \subseteq DOMAIN sockets
    /\ executorsById \in [Edges -> [Hosts -> DOMAIN sockets \cup {None}]]
    /\ route \in [Hosts -> Route \cup {None}]
    /\ deleting \subseteq Hosts /\ paired \subseteq Hosts /\ admin \in 0..MaxAdmin

\* A pairing token makes one executor at most, however many requests present
\* it at a time: the checks of pairExecutorHandler are made again by the
\* update that consumes it.
TokenPairsOnce == Cardinality(paired) <= 1

\* An executor that was revoked and has left all its sockets stays away: it gets
\* no socket and no new message is handled for it (handleUpgrade looks at
\* revokedAt).  Its route can still come back, since a handler that waits for
\* touchExecutor writes it after ws.on("close") has deleted it; but only by a
\* handler that was waiting when the last socket closed, and by each once.
Away(h) ==
    /\ row[h].status \in {"revoked", "deleted"} /\ upgrade[h] = None
    /\ OpenAtAgent(h) = {} /\ OpenAtEdge(h) = {}
OnlyTheWaitingWrite(h) ==
    /\ \A i \in SocketsOf(h) : greeting'[i] <= greeting[i]
    /\ route[h] = None /\ route'[h] # None => \E i \in SocketsOf(h) : greeting'[i] < greeting[i]
RevokedStaysAway == [][\A h \in Hosts : Away(h) => Away(h)' /\ OnlyTheWaitingWrite(h)]_vars

\* An entry that leads nowhere does not last: of an executor without a
\* connection no edge keeps its socket, and no route names it for ever
\* (ws.on("close") and the route's time to live).
DeadRoutesVanish ==
    \A h \in Hosts :
        (OpenAtAgent(h) = {}) ~>
            (OpenAtAgent(h) # {} \/ (route[h] = None /\ \A g \in Edges : executorsById[g][h] = None))

\* An executor that stays connected is reached, again and again: its route names
\* an edge, and that edge has the socket that the agent holds (executorsById and
\* the 15-second hello), although the close of an older socket and the handlers
\* that still wait for one remove or overwrite what they find.
Reached(h) == route[h] # None /\ executorsById[route[h].edge][h] \in OpenAtAgent(h)
ConnectedIsServed ==
    \A h \in Hosts : <>[](OpenAtAgent(h) \ overtook # {}) => []<>Reached(h)

\* The same of a socket that was opened through an edge which still saw an older
\* one: the late close of that one removes the newer one's entry.
OvertakingIsServed == \A h \in Hosts : <>[](OpenAtAgent(h) # {}) => []<>Reached(h)

\* A revoked executor that has left its sockets has no route.
AwayIsUnrouted == [][\A h \in Hosts : Away(h) /\ route[h] = None => route'[h] = None]_vars

\* A managed executor that was issued, is not revoked and keeps dialling gets
\* a connection.
ManagedConnects ==
    \A h \in Hosts : Pool[h] = "managed" =>
        (Active(h) ~> (OpenAtAgent(h) # {} \/ ~Active(h)
                        \/ Cardinality(DOMAIN sockets) = MaxSockets))

\* A revoked executor has no route, by which it would be given tasks.
RevokedUnrouted == \A h \in Hosts : [](row[h].status = "revoked" => route[h] = None)

\* The labels in the database decide on routing: a route has those.
RoutedByRow == \A h \in Hosts : route[h] # None => route[h].labels = row[h].labels
=============================================================================
