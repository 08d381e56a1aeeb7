---------------------------- MODULE SessionRoutes ----------------------------
(***************************************************************************)
(* What clients do to sessions: over the API's routes (create, message,    *)
(* reset, archive, restore, the bindings that route a new session to an    *)
(* agent) and over the gateway's socket, which takes messages as well.  A  *)
(* store call is one step and everything may happen between two of them:   *)
(* the other requests, the loss of the process that serves a request, a    *)
(* gateway that does not answer.  What the brain does with a command is    *)
(* SessionTurn's; here it is what has reached its stream.                  *)
(***************************************************************************)
EXTENDS Naturals, Sequences, FiniteSets

CONSTANTS
    Slots,          \* requests served at once
    Requests,       \* what a client may ask for: [scope, peer, role, organization]
    Norm,           \* a peer to the part of the key it becomes
    Pool,           \* bindings: [id, agent, dimension, priority, match]
    Messages,       \* an idempotency key, and the message that is sent with it
    MaxSessions, MaxEvents,
    None

VARIABLES
    bindings, sessions,
    events,         \* the events of each session: the place in the sequence is seq + 1
    stream,         \* session_send commands the brain has been given, once or more often
    req,            \* the request a slot serves, and how far it is
    accepted        \* messages whose sender was told 202

vars == <<bindings, sessions, events, stream, req, accepted>>

Ids == 1..MaxSessions
Used == {s.id : s \in sessions}
Event(type, message, try) == [type |-> type, message |-> message, try |-> try]
Exists(id) == id \in Used
The(id) == CHOOSE s \in sessions : s.id = id

Init ==
    /\ bindings = {} /\ sessions = {}
    /\ events = [i \in Ids |-> <<>>]
    /\ stream = {} /\ accepted = {}
    /\ req = [s \in Slots |-> None]

-----------------------------------------------------------------------------
(* The bindings: kept by owners and admins, one row an id. *)
createAgentBinding(b) ==
    /\ b \in Pool /\ \A c \in bindings : c.id # b.id
    /\ bindings' = bindings \cup {b}
    /\ UNCHANGED <<sessions, events, stream, req, accepted>>

patchAgentBinding(b) ==
    /\ b \in Pool
    /\ \E old \in bindings : old.id = b.id /\ old # b /\ bindings' = (bindings \ {old}) \cup {b}
    /\ UNCHANGED <<sessions, events, stream, req, accepted>>

deleteAgentBinding_KeepsSessions(b) ==
    /\ b \in bindings
    /\ bindings' = bindings \ {b}
    /\ UNCHANGED <<sessions, events, stream, req, accepted>>

(* A session does not outlive its binding's row: on delete set null. *)
deleteAgentBinding(b) ==
    /\ b \in bindings
    /\ bindings' = bindings \ {b}
    /\ sessions' = {IF s.binding = b.id THEN [s EXCEPT !.binding = None] ELSE s : s \in sessions}
    /\ UNCHANGED <<events, stream, req, accepted>>

matchBinding(b, r) ==
    \/ b.dimension = "default"
    \/ b.dimension = "organization" /\ b.match \in {None, r.organization}
    \/ b.dimension = "org_roles" /\ b.match = r.role
    \/ b.dimension = "peer" /\ b.match # None /\ b.match = r.peer

Rank(dimension) ==
    CHOOSE i \in 1..4 : <<"peer", "org_roles", "organization", "default">>[i] = dimension

Before(b, c) ==
    \/ Rank(b.dimension) < Rank(c.dimension)
    \/ Rank(b.dimension) = Rank(c.dimension) /\ b.priority > c.priority
    \/ Rank(b.dimension) = Rank(c.dimension) /\ b.priority = c.priority /\ b.id < c.id

matched(r) ==
    LET hits == {b \in bindings : matchBinding(b, r)}
    IN  IF hits = {} THEN None ELSE CHOOSE b \in hits : \A c \in hits \ {b} : Before(b, c)

(* The key of a scoped session says who it is for; the one of a "main" session is new. *)
sessionKey(r, agent) ==
    [agent |-> agent, scope |-> r.scope,
     who |-> IF r.scope = "main" THEN Cardinality(sessions) ELSE Norm[r.peer]]

-----------------------------------------------------------------------------
Answer(s) == req' = [req EXCEPT ![s] = None]

(* POST /sessions: the settings and the bindings are read first. *)
listAgentBindings(s, r) ==
    /\ req[s] = None
    /\ req' = [req EXCEPT ![s] = [at |-> "create", ask |-> r, binding |-> matched(r)]]
    /\ UNCHANGED <<bindings, sessions, events, stream, accepted>>

Agent(b) == IF b = None THEN "main" ELSE b.agent

createAgentSession_NewRow(s) ==
    /\ req[s] # None /\ req[s].at = "create"
    /\ Cardinality(sessions) < MaxSessions
    /\ req[s].binding # None => \E c \in bindings : c.id = req[s].binding.id
    /\ LET b  == req[s].binding
           id == Cardinality(sessions) + 1
       IN  /\ sessions' = sessions \cup {[id |-> id, key |-> sessionKey(req[s].ask, Agent(b)), peer |-> req[s].ask.peer,
                                          binding |-> IF b = None THEN None ELSE b.id,
                                          status |-> "active", pin |-> None]}
           /\ req' = [req EXCEPT ![s] = [at |-> "created", session |-> id]]
    /\ UNCHANGED <<bindings, events, stream, accepted>>

(* The row of the key is inserted or, when the key is taken, returned; a     *)
(* binding deleted since it was read fails the insert.                       *)
createAgentSession(s) ==
    /\ req[s] # None /\ req[s].at = "create"
    /\ LET b     == req[s].binding
           key   == sessionKey(req[s].ask, Agent(b))
           taken == {t \in sessions : t.key = key}
           id    == Cardinality(sessions) + 1
       IN  \/ /\ b # None /\ \A c \in bindings : c.id # b.id
              /\ taken = {}
              /\ Answer(s) /\ UNCHANGED sessions
           \/ /\ taken = {} /\ Cardinality(sessions) < MaxSessions
              /\ b # None => \E c \in bindings : c.id = b.id
              /\ sessions' = sessions \cup {[id |-> id, key |-> key, peer |-> req[s].ask.peer,
                                             binding |-> IF b = None THEN None ELSE b.id,
                                             status |-> "active", pin |-> None]}
              /\ req' = [req EXCEPT ![s] = [at |-> "created", session |-> id]]
           \/ /\ taken # {}
              /\ req' = [req EXCEPT ![s] = [at |-> "created", session |-> (CHOOSE t \in taken : TRUE).id]]
              /\ UNCHANGED sessions
    /\ UNCHANGED <<bindings, events, stream, accepted>>

(* appendAgentSessionEvent: a key that was used names the event it was used for. *)
Repeats(id, try) == {i \in DOMAIN events[id] : try # None /\ events[id][i].try = try}

Seq0(id, try) ==
    IF Repeats(id, try) = {} THEN Len(events[id]) ELSE (CHOOSE i \in Repeats(id, try) : TRUE) - 1

append_Always(id, e) == events' = [events EXCEPT ![id] = Append(@, e)]

append(id, e) ==
    IF Repeats(id, e.try) = {} THEN events' = [events EXCEPT ![id] = Append(@, e)]
    ELSE UNCHANGED events

sessionCreated(s) ==
    /\ req[s] # None /\ req[s].at = "created"
    /\ Len(events[req[s].session]) < MaxEvents
    /\ append(req[s].session, Event("session_created", None, None))
    /\ Answer(s)
    /\ UNCHANGED <<bindings, sessions, stream, accepted>>

(* POST /messages: an archived session is refused with SESSION_ARCHIVED. *)
getAgentSessionById(s, id, m) ==
    /\ req[s] = None /\ Exists(id) /\ The(id).status = "active"
    /\ req' = [req EXCEPT ![s] = [at |-> "append", session |-> id, message |-> m, via |-> "api"]]
    /\ UNCHANGED <<bindings, sessions, events, stream, accepted>>

(* session_send on the gateway's socket: any session of the organization. *)
socketSend(s, id, m) ==
    /\ req[s] = None /\ Exists(id)
    /\ req' = [req EXCEPT ![s] = [at |-> "append", session |-> id, message |-> m, via |-> "socket"]]
    /\ UNCHANGED <<bindings, sessions, events, stream, accepted>>

userMessage(s) ==
    /\ req[s] # None /\ req[s].at = "append"
    /\ LET id == req[s].session
           m  == req[s].message
       IN  /\ Len(events[id]) < MaxEvents \/ Repeats(id, m.try) # {}
           /\ append(id, Event("user_message", m.message, m.try))
           /\ req' = [req EXCEPT ![s] = [at |-> "send", session |-> id, message |-> m, via |-> req[s].via,
                                         seq |-> Seq0(id, m.try)]]
    /\ UNCHANGED <<bindings, sessions, stream, accepted>>

Command(s) == [session |-> req[s].session, seq |-> req[s].seq, message |-> req[s].message.message]

toBrain_LastEvent(s) ==
    /\ req[s] # None /\ req[s].at = "send"
    /\ stream' = stream \cup {[Command(s) EXCEPT !.seq = Len(events[req[s].session]) - 1]}
    /\ req' = [req EXCEPT ![s].at = "sent"]
    /\ UNCHANGED <<bindings, sessions, events, accepted>>

(* The command is added to the brain's stream, by the API over the gateway's route. *)
toBrain(s) ==
    /\ req[s] # None /\ req[s].at = "send"
    /\ stream' = stream \cup {Command(s)}
    /\ req' = [req EXCEPT ![s].at = "sent"]
    /\ UNCHANGED <<bindings, sessions, events, accepted>>

Told(s) == <<req[s].session, req[s].message>>

gatewayFails_Accepted(s) ==
    /\ req[s] # None /\ req[s].at = "send" /\ req[s].via = "api"
    /\ accepted' = accepted \cup {Told(s)}
    /\ Answer(s)
    /\ UNCHANGED <<bindings, sessions, events, stream>>

(* QUEUE_UNAVAILABLE: the event stays, and the sender may try again. *)
gatewayFails(s) ==
    /\ req[s] # None /\ req[s].at = "send" /\ req[s].via = "api"
    /\ Answer(s)
    /\ UNCHANGED <<bindings, sessions, events, stream, accepted>>

accept(s) ==
    /\ req[s] # None /\ req[s].at = "sent"
    /\ accepted' = IF req[s].via = "api" THEN accepted \cup {Told(s)} ELSE accepted
    /\ Answer(s)
    /\ UNCHANGED <<bindings, sessions, events, stream>>

(* POST /reset forgets the executor first, and says so afterwards. *)
setAgentSessionPinnedAgent(s, id) ==
    /\ req[s] = None /\ Exists(id)
    /\ sessions' = {IF t.id = id THEN [t EXCEPT !.pin = None] ELSE t : t \in sessions}
    /\ req' = [req EXCEPT ![s] = [at |-> "reset", session |-> id]]
    /\ UNCHANGED <<bindings, events, stream, accepted>>

sessionReset(s) ==
    /\ req[s] # None /\ req[s].at = "reset"
    /\ Len(events[req[s].session]) < MaxEvents
    /\ append(req[s].session, Event("system", None, None))
    /\ Answer(s)
    /\ UNCHANGED <<bindings, sessions, stream, accepted>>

Marked(id, status) ==
    /\ Exists(id) /\ The(id).status # status
    /\ sessions' = {IF t.id = id THEN [t EXCEPT !.status = status] ELSE t : t \in sessions}
    /\ UNCHANGED <<bindings, events, stream, req, accepted>>

archiveAgentSession(id) == Marked(id, "archived")
restoreAgentSession(id) == Marked(id, "active")

(* The brain pins the session to the executor that took a turn of it. *)
brainPins(id) ==
    /\ Exists(id) /\ The(id).pin = None /\ \E c \in stream : c.session = id
    /\ sessions' = {IF t.id = id THEN [t EXCEPT !.pin = "executor"] ELSE t : t \in sessions}
    /\ UNCHANGED <<bindings, events, stream, req, accepted>>

(* The process that serves a request dies, or its client's connection does. *)
requestDies(s) ==
    /\ req[s] # None
    /\ Answer(s)
    /\ UNCHANGED <<bindings, sessions, events, stream, accepted>>

Next ==
    \/ \E b \in Pool : createAgentBinding(b) \/ patchAgentBinding(b) \/ deleteAgentBinding(b)
    \/ \E id \in Ids : archiveAgentSession(id) \/ restoreAgentSession(id) \/ brainPins(id)
    \/ \E s \in Slots :
          \/ \E r \in Requests : listAgentBindings(s, r)
          \/ createAgentSession(s) \/ sessionCreated(s)
          \/ \E id \in Ids :
                \/ \E m \in Messages : getAgentSessionById(s, id, m) \/ socketSend(s, id, m)
                \/ setAgentSessionPinnedAgent(s, id)
          \/ userMessage(s) \/ toBrain(s) \/ gatewayFails(s) \/ accept(s)
          \/ sessionReset(s) \/ requestDies(s)

Spec == Init /\ [][Next]_vars

-----------------------------------------------------------------------------
(* Two requests for a conversation that ask at the same time get the same   *)
(* session: the key is taken once, whoever inserts it                        *)
(* (createAgentSession, repositories.ts:2858).                               *)
OneSessionPerKey == \A a, b \in sessions : a.key = b.key => a = b

(* A message that was answered 202 is an event of its session and a command *)
(* the brain has been given (server.ts:4344-4425), whatever failed between.  *)
AcceptedReachesBrain ==
    \A a \in accepted :
        \E c \in stream : c.session = a[1] /\ c.message = a[2].message

(* A command names the event that holds its message: the brain's turn       *)
(* answers the message stored at that seq, also when the sender tried again  *)
(* or others wrote to the session in between.                                *)
CommandsNameTheirEvent ==
    \A c \in stream :
        /\ c.seq + 1 \in DOMAIN events[c.session]
        /\ events[c.session][c.seq + 1].type = "user_message"
        /\ events[c.session][c.seq + 1].message = c.message

(* A message sent again under its key is one event, and every command it     *)
(* became names that event and so the same turn, whichever way it came.      *)
KeyedMessagesAreOne ==
    /\ \A id \in Ids : \A i, j \in DOMAIN events[id] :
          events[id][i].try # None /\ events[id][i].try = events[id][j].try => i = j
    /\ \A c, d \in stream : c.session = d.session /\ c.message = d.message /\
          (\E m \in Messages : m.message = c.message /\ m.try # None) => c = d

(* A session's binding is one that exists, though the request that made the  *)
(* session read the bindings before.                                         *)
BindingsExist == \A s \in sessions : s.binding # None => \E b \in bindings : b.id = s.binding

(* An archived session takes no message until it is restored                 *)
(* (server.test.ts:3407 "rejects posting a message to archived sessions").   *)
ArchivedIsReadOnly ==
    [][\A id \in Ids : events'[id] # events[id] /\ Exists(id) /\ The(id).status = "archived"
          => events'[id][Len(events'[id])].type # "user_message"]_vars
=============================================================================
