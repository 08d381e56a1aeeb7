--------------------------- MODULE SessionClients ---------------------------
(***************************************************************************)
(* The clients that watch sessions over the sockets of several edges.  An  *)
(* edge keeps the sockets of each session, Redis the edges that have some. *)
(* A brain stores an event and then sends it to the edges it finds in      *)
(* Redis; a client that joins is added to its edge's set, then its edge to *)
(* Redis, and is then sent the stored tail.  Every store or Redis call of  *)
(* a handler is a step of its own, and a socket's handlers run next to     *)
(* each other.                                                             *)
(***************************************************************************)
EXTENDS Naturals, Sequences, FiniteSets

CONSTANTS
    Edges, Brains, Sessions,
    Clients, EdgeOf,    \* sockets, and the edge each is connected to
    TailLimit,          \* how many stored events a join sends: 200
    MaxEvents,          \* bounds the events of a session
    MaxPins,            \* bounds how often executors are pinned
    None

VARIABLES
    events,     \* per session: who stored each event, the place in the sequence is seq + 1
    pin,        \* per session: the executor of its row, a number
    members,    \* per edge and session: sessionClientsBySessionId
    presence,   \* per session: the edges of its key in Redis
    bus,        \* per edge: the commands on its stream
    brain,      \* what each brain is broadcasting
    sock,       \* per client: its socket's state, and the session it has joined (clientStateByWs)
    join, say,  \* per client: the session_join or session_send its edge is serving
    seen,       \* per client: the seqs + 1 of the session it was sent, since when
    lapsed,     \* sessions whose key expired, or was not written, under the sockets of an edge
    lost        \* events whose broadcast died with its brain

vars == <<events, pin, members, presence, bus, brain, sock, join, say, seen, lapsed, lost>>

Init ==
    /\ events = [s \in Sessions |-> <<>>] /\ pin = [s \in Sessions |-> 0]
    /\ members = [e \in Edges |-> [s \in Sessions |-> {}]]
    /\ presence = [s \in Sessions |-> {}]
    /\ bus = [e \in Edges |-> <<>>]
    /\ brain = [b \in Brains |-> None]
    /\ sock = [c \in Clients |-> [state |-> "new", joined |-> None]]
    /\ join = [c \in Clients |-> None] /\ say = [c \in Clients |-> None]
    /\ seen = [c \in Clients |-> [at |-> {}, from |-> 1, pin |-> 0]]
    /\ lapsed = {} /\ lost = {}

Edge(c) == EdgeOf[c]
Send(c, seqs) == [seen EXCEPT ![c].at = @ \cup seqs]

-----------------------------------------------------------------------------
(* The brain: an event is stored, the edges are read, each is sent it. *)
appendAgentSessionEvent(b, s) ==
    /\ brain[b] = None /\ Len(events[s]) < MaxEvents
    /\ events' = [events EXCEPT ![s] = Append(@, "brain")]
    /\ brain' = [brain EXCEPT ![b] = [session |-> s, event |-> Len(events[s]) + 1, to |-> None]]
    /\ UNCHANGED <<pin, members, presence, bus, sock, join, say, seen, lapsed, lost>>

(* An executor is pinned: the row is written, and a session_state is sent. *)
setAgentSessionPinnedExecutor(b, s) ==
    /\ brain[b] = None /\ pin[s] < MaxPins
    /\ pin' = [pin EXCEPT ![s] = @ + 1]
    /\ brain' = [brain EXCEPT ![b] = [session |-> s, event |-> 0, to |-> None]]
    /\ UNCHANGED <<events, members, presence, bus, sock, join, say, seen, lapsed, lost>>

smembers(b) ==
    /\ brain[b] # None /\ brain[b].to = None
    /\ brain' = [brain EXCEPT ![b].to = presence[brain[b].session]]
    /\ UNCHANGED <<events, pin, members, presence, bus, sock, join, say, seen, lapsed, lost>>

broadcastToSessionEdges(b) ==
    /\ brain[b] # None /\ brain[b].to # None
    /\ \/ \E e \in brain[b].to :
             /\ bus' = [bus EXCEPT ![e] = Append(@, [session |-> brain[b].session, event |-> brain[b].event,
                                                     pin |-> pin[brain[b].session]])]
             /\ brain' = [brain EXCEPT ![b].to = @ \ {e}]
       \/ brain[b].to = {} /\ brain' = [brain EXCEPT ![b] = None] /\ UNCHANGED bus
    /\ UNCHANGED <<events, pin, members, presence, sock, join, say, seen, lapsed, lost>>

BrainDies(b) ==
    /\ brain[b] # None
    /\ lost' = lost \cup {<<brain[b].session, brain[b].event>>}
    /\ brain' = [brain EXCEPT ![b] = None]
    /\ UNCHANGED <<events, pin, members, presence, bus, sock, join, say, seen, lapsed>>

(* The edge's loop: client_broadcast and session_state, to whoever has joined. *)
clientBroadcast(e) ==
    /\ bus[e] # <<>>
    /\ bus' = [bus EXCEPT ![e] = Tail(@)]
    /\ LET cmd == Head(bus[e])
       IN  seen' = [c \in Clients |->
                      IF c \notin members[e][cmd.session] THEN seen[c]
                      ELSE IF cmd.event = 0 THEN [seen[c] EXCEPT !.pin = cmd.pin]
                      ELSE [seen[c] EXCEPT !.at = @ \cup {cmd.event}]]
    /\ UNCHANGED <<events, pin, members, presence, brain, sock, join, say, lapsed, lost>>

-----------------------------------------------------------------------------
wireClientSocket(c) ==
    /\ sock[c].state = "new"
    /\ sock' = [sock EXCEPT ![c].state = "open"]
    /\ UNCHANGED <<events, pin, members, presence, bus, brain, join, say, seen, lapsed, lost>>

Open(c) == sock[c].state = "open"

(* session_join: the session's row is read ... *)
sessionJoin(c, s) ==
    /\ Open(c) /\ join[c] = None
    /\ join' = [join EXCEPT ![c] = [session |-> s, at |-> "read", pin |-> pin[s]]]
    /\ UNCHANGED <<events, pin, members, presence, bus, brain, sock, say, seen, lapsed, lost>>

Left_Stays(c) == members

Left(c) ==
    IF sock[c].joined = None THEN members
    ELSE [members EXCEPT ![Edge(c)][sock[c].joined] = @ \ {c}]

TailOf(s) == {n \in DOMAIN events[s] : n + TailLimit > Len(events[s])}

addClientToSession_TailFirst(c) ==
    /\ join[c] # None /\ join[c].at = "read"
    /\ LET s == join[c].session
       IN  /\ sock' = [sock EXCEPT ![c].joined = s]
           /\ members' = [Left(c) EXCEPT ![Edge(c)][s] = @ \cup {c}]
           /\ seen' = [seen EXCEPT ![c] = [at |-> TailOf(s), from |-> 1, pin |-> join[c].pin]]
    /\ join' = [join EXCEPT ![c] = None]
    /\ presence' = [presence EXCEPT ![join[c].session] = @ \cup {Edge(c)}]
    /\ UNCHANGED <<events, pin, bus, brain, say, lapsed, lost>>

(* ... the socket changes sets and is told the row's state, closed or not ... *)
addClientToSession(c) ==
    /\ join[c] # None /\ join[c].at = "read"
    /\ LET s == join[c].session
       IN  /\ members' = [Left(c) EXCEPT ![Edge(c)][s] = @ \cup {c}]
           /\ sock' = [sock EXCEPT ![c].joined = s]
           /\ seen' = [seen EXCEPT ![c] = [at |-> {}, from |-> 1, pin |-> join[c].pin]]
    /\ join' = [join EXCEPT ![c].at = "added"]
    /\ UNCHANGED <<events, pin, presence, bus, brain, say, lapsed, lost>>

(* ... the edge is noted in Redis, for the next quarter of an hour ... *)
sadd(c) ==
    /\ join[c] # None /\ join[c].at = "added"
    /\ presence' = [presence EXCEPT ![join[c].session] = @ \cup {Edge(c)}]
    /\ join' = [join EXCEPT ![c].at = "noted"]
    /\ UNCHANGED <<events, pin, members, bus, brain, sock, say, seen, lapsed, lost>>

(* Redis may fail here, and is not asked again ... *)
saddFails(c) ==
    /\ join[c] # None /\ join[c].at = "added"
    /\ lapsed' = lapsed \cup {join[c].session}
    /\ join' = [join EXCEPT ![c].at = "noted"]
    /\ UNCHANGED <<events, pin, members, presence, bus, brain, sock, say, seen, lost>>

(* ... and the newest stored events are sent. *)
listAgentSessionEventsTail(c) ==
    /\ join[c] # None /\ join[c].at = "noted"
    /\ LET s == join[c].session
       IN  seen' = [seen EXCEPT ![c].at = @ \cup TailOf(s),
                                ![c].from = IF Len(events[s]) > TailLimit THEN Len(events[s]) - TailLimit + 1 ELSE 1]
    /\ join' = [join EXCEPT ![c] = None]
    /\ UNCHANGED <<events, pin, members, presence, bus, brain, sock, say, lapsed, lost>>

sessionLeave(c, s) ==
    /\ Open(c)
    /\ members' = [members EXCEPT ![Edge(c)][s] = @ \ {c}]
    /\ sock' = [sock EXCEPT ![c].joined = IF @ = s THEN None ELSE @]
    /\ UNCHANGED <<events, pin, presence, bus, brain, join, say, seen, lapsed, lost>>

socketCloses(c) ==
    /\ Open(c)
    /\ members' = Left(c)
    /\ sock' = [sock EXCEPT ![c] = [state |-> "closed", joined |-> None]]
    /\ UNCHANGED <<events, pin, presence, bus, brain, join, say, seen, lapsed, lost>>

(* session_send: the message is stored, and shown to the sockets of this edge. *)
userMessage(c, s) ==
    /\ Open(c) /\ say[c] = None /\ Len(events[s]) < MaxEvents
    /\ events' = [events EXCEPT ![s] = Append(@, Edge(c))]
    /\ say' = [say EXCEPT ![c] = [session |-> s, event |-> Len(events[s]) + 1]]
    /\ UNCHANGED <<pin, members, presence, bus, brain, sock, join, seen, lapsed, lost>>

showUserMessage(c) ==
    /\ say[c] # None
    /\ seen' = [d \in Clients |-> IF d \in members[Edge(c)][say[c].session]
                                  THEN [seen[d] EXCEPT !.at = @ \cup {say[c].event}] ELSE seen[d]]
    /\ say' = [say EXCEPT ![c] = None]
    /\ UNCHANGED <<events, pin, members, presence, bus, brain, sock, join, lapsed, lost>>

(* The key of a session expires: nothing but a join renews it. *)
presenceExpires(s) ==
    /\ presence[s] # {}
    /\ lapsed' = lapsed \cup {s}
    /\ presence' = [presence EXCEPT ![s] = {}]
    /\ UNCHANGED <<events, pin, members, bus, brain, sock, join, say, seen, lost>>

Next ==
    \/ \E b \in Brains :
          \/ \E s \in Sessions : appendAgentSessionEvent(b, s) \/ setAgentSessionPinnedExecutor(b, s)
          \/ smembers(b) \/ broadcastToSessionEdges(b) \/ BrainDies(b)
    \/ \E e \in Edges : clientBroadcast(e)
    \/ \E c \in Clients :
          \/ \E s \in Sessions : sessionJoin(c, s) \/ sessionLeave(c, s) \/ userMessage(c, s)
          \/ wireClientSocket(c) \/ addClientToSession(c) \/ sadd(c) \/ saddFails(c) \/ listAgentSessionEventsTail(c)
          \/ socketCloses(c) \/ showUserMessage(c)
    \/ \E s \in Sessions : presenceExpires(s)

Spec == Init /\ [][Next]_vars

-----------------------------------------------------------------------------
(* The client has joined the session and has been sent its tail. *)
Watches(c, s) == Open(c) /\ sock[c].joined = s /\ join[c] = None

Coming(c, s, n) ==
    \/ \E b \in Brains : brain[b] # None /\ brain[b].session = s /\ brain[b].event = n
                         /\ (brain[b].to = None \/ Edge(c) \in brain[b].to)
    \/ \E i \in DOMAIN bus[Edge(c)] : bus[Edge(c)][i].session = s /\ bus[Edge(c)][i].event = n
    \/ \E d \in Clients : Edge(d) = Edge(c) /\ say[d] # None /\ say[d] = [session |-> s, event |-> n]

(* No gap: whatever a brain stored, and whatever was written through the     *)
(* client's own edge, since the oldest event it was sent, it has been sent   *)
(* or will be, however its join met the broadcasts, unless the session's     *)
(* key in Redis expired or failed, or a brain died over it                   *)
(* (joinSessionForClient, edge/server.ts:459-509).                           *)
NoGap ==
    \A c \in Clients, s \in Sessions : Watches(c, s) /\ s \notin lapsed =>
        \A n \in DOMAIN events[s] :
            n >= seen[c].from /\ events[s][n] \in {"brain", Edge(c)} =>
                n \in seen[c].at \/ Coming(c, s, n) \/ <<s, n>> \in lost

(* A client is sent the events of the session it has joined and of no other: *)
(* on its edge it is in one set at most.                                     *)
OneSessionAtATime ==
    \A c \in Clients : \A s, t \in Sessions :
        c \in members[Edge(c)][s] /\ c \in members[Edge(c)][t] => s = t

-----------------------------------------------------------------------------
(* What does not hold.  The state a client was told is the session's: a pin  *)
(* that changes between the reading of the row and the client's entry into   *)
(* the set is never told.                                                    *)
PinIsCurrent ==
    \A c \in Clients, s \in Sessions :
        Watches(c, s) /\ s \notin lapsed /\ (\A b \in Brains : brain[b] = None) /\ bus[Edge(c)] = <<>>
        /\ (\A l \in lost : l[1] # s) => seen[c].pin = pin[s]

(* A socket that has closed is in no set: one that closes while it joins     *)
(* stays in it.                                                              *)
ClosedAreGone ==
    \A c \in Clients, s \in Sessions : sock[c].state = "closed" /\ join[c] = None => c \notin members[Edge(c)][s]

(* Everybody who watches a session sees what is written to it: messages that *)
(* came over another edge, or over the API, are stored and not broadcast.    *)
EverybodySees ==
    \A c \in Clients, s \in Sessions : Watches(c, s) /\ s \notin lapsed =>
        \A n \in DOMAIN events[s] :
            n >= seen[c].from => n \in seen[c].at \/ Coming(c, s, n) \/ <<s, n>> \in lost
                                 \/ \E d \in Clients : say[d] # None /\ say[d].event = n
=============================================================================
