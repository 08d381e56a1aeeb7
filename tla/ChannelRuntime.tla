--------------------------- MODULE ChannelRuntime ---------------------------
(***************************************************************************)
(* One chat account of an organization: webhooks that bring its provider's *)
(* messages in through any edge, to an agent session and to workflows, and *)
(* the session's replies going out through the edges their messages came   *)
(* in by (apps/gateway/src/channels, the edge's command loop, the brain's  *)
(* reply, the API's channel endpoints and /internal/v1/channels/trigger-run). *)
(*                                                                         *)
(* An inbound message is recorded and routed in one transaction at the     *)
(* level READ COMMITTED; its inserts are judged when it commits, since a   *)
(* conflicting insert waits for the other transaction to end.              *)
(***************************************************************************)
EXTENDS Integers, Sequences, FiniteSets

CONSTANTS
    Edges,          \* gateway edges
    Deliveries,     \* bound: webhook calls of the provider, repeated ones included
    EdgeOf,         \* the edge that each call reaches
    Messages,       \* the provider's messages
    Env,            \* of each message: dm, sender, conv, mention
    Workflows,      \* published workflows with a trigger on this channel and account
    Trigger,        \* of each workflow: event, senderIn, groupIn
    Entries,        \* allowlist entries, <<scope, subject>>, that are ever put
    Accounts,       \* settings an account may have: enabled, dm, group, mention, url, and
                    \* bridge: "off", "session" (there is a default session), "no session"
    MaxEdits,       \* bound: changes by administrators
    MaxFailures,    \* bound: failed calls, lost keys and deaths of an edge
    MaxAttempts     \* CHANNEL_OUTBOUND_MAX_ATTEMPTS

VARIABLES
    account,        \* channel_accounts: the row's settings
    allow,          \* channel_allowlist_entries
    pairing,        \* channel_pairing_requests: <<sender, status>>
    keys,           \* Redis: messages whose idempotency key is set
    rows,           \* channel_messages, inbound: the status of each message
    convs,          \* channel_conversations: whether there is one, bound to the session
    events,         \* user_message events each message has in the session
    told, origin,   \* session_send records each message has, and the edge the last names
    runs,           \* workflow runs each message started, per workflow
    req,            \* the webhook requests
    edits, failures,\* what MaxEdits and MaxFailures count
    replies,        \* the session's replies: message, edge, row in channel_messages, posts
    stream, batch,  \* of each edge: replies in its stream; those its loop has read
    edge,           \* of each edge: the reply in hand and its attempts
    posted          \* history: the replies the provider got from each edge

inbound == <<keys, rows, convs, events, told, origin, runs>>
outbound == <<replies, stream, batch, edge, posted>>
admin == <<account, allow, pairing, edits>>
vars == <<inbound, outbound, admin, req, failures>>

Idle == [pc |-> "idle", m |-> CHOOSE m \in Messages : TRUE, account |-> CHOOSE a \in Accounts : TRUE,
         reason |-> "none", known |-> FALSE, session |-> FALSE, left |-> {}]
NoReply == [pc |-> "idle", n |-> 0, attempt |-> 0, status |-> "none"]
Done == {"idle", "accepted", "dropped", "duplicate", "refused", "failed"}
Working == {"evaluate", "commit", "brain", "workflows"}
Chats == {Env[m].conv : m \in Messages}
Replies == 1..Len(replies)

Init ==
    /\ account \in Accounts /\ allow = {} /\ pairing = {} /\ keys = {}
    /\ rows = [m \in Messages |-> "none"] /\ convs = [c \in Chats |-> "none"]
    /\ origin = [m \in Messages |-> CHOOSE e \in Edges : TRUE]
    /\ events = [m \in Messages |-> 0] /\ told = [m \in Messages |-> 0]
    /\ runs = [m \in Messages |-> [w \in Workflows |-> 0]]
    /\ req = [d \in Deliveries |-> Idle] /\ edits = 0 /\ failures = 0
    /\ replies = <<>> /\ stream = [e \in Edges |-> <<>>] /\ batch = [e \in Edges |-> <<>>]
    /\ edge = [e \in Edges |-> NoReply] /\ posted = [e \in Edges |-> <<>>]

Fails == failures < MaxFailures /\ failures' = failures + 1
Go(d, pc) == req' = [req EXCEPT ![d].pc = pc]
End(d, pc) == req' = [req EXCEPT ![d] = [Idle EXCEPT !.m = req[d].m, !.pc = pc]]

-----------------------------------------------------------------------------
(* Who may write: evaluateChannelSecurity.                                 *)

hasEntry(entries, scopes, subject) == \E s \in scopes : <<s, subject>> \in entries

dmDecision(a, entries, e) ==
    LET listed == hasEntry(entries, {"sender", "dm"}, e.sender) IN
    CASE a.dm = "disabled" -> "dm_disabled"
      [] a.dm = "pairing" -> IF listed THEN "accepted" ELSE "dm_pairing_required"
      [] a.dm = "allowlist" -> IF listed THEN "accepted" ELSE "dm_allowlist_denied"
      [] a.dm = "open" -> IF hasEntry(entries, {"dm", "sender"}, "*") THEN "accepted"
                          ELSE "dm_open_requires_wildcard"

groupDecision(a, entries, e) ==
    LET listed == \/ hasEntry(entries, {"group", "conversation"}, e.conv)
                  \/ hasEntry(entries, {"sender", "group"}, e.sender)
    IN CASE a.group = "disabled" -> "group_disabled"
         [] a.group # "disabled" /\ a.mention /\ ~e.mention -> "group_mention_required"
         [] OTHER ->
              IF a.group = "allowlist" /\ ~listed THEN "group_allowlist_denied"
              ELSE IF a.group = "open" /\ ~hasEntry(entries, {"group", "conversation", "sender"}, "*")
              THEN "group_open_requires_wildcard" ELSE "accepted"

evaluateChannelSecurity(a, entries, m) ==
    IF Env[m].dm THEN dmDecision(a, entries, Env[m]) ELSE groupDecision(a, entries, Env[m])

-----------------------------------------------------------------------------
(* Which workflows run: collectChannelTriggeredWorkflows.                  *)

eventMatches(expected, e) ==
    CASE expected = "message.received" -> TRUE
      [] expected = "message.dm" -> e.dm
      [] expected = "message.mentioned" -> e.mention
inListMatches(list, x) == list = {} \/ x \in list

collectChannelTriggeredWorkflows(m) ==
    {w \in Workflows : /\ eventMatches(Trigger[w].event, Env[m])
                       /\ inListMatches(Trigger[w].senderIn, Env[m].sender)
                       /\ inListMatches(Trigger[w].groupIn, Env[m].conv)}

-----------------------------------------------------------------------------
(* handleWebhook.                                                          *)

\* The account is looked up by channel and key; it must be enabled.
handleWebhook(d, m) ==
    /\ req[d].pc = "idle"
    /\ req' = [req EXCEPT ![d] = [Idle EXCEPT !.m = m, !.account = account,
                                  !.pc = IF account.enabled THEN "key" ELSE "refused"]]
    /\ UNCHANGED <<inbound, outbound, admin, failures>>

\* The channel's token or signature does not match, or no text is found.
webhookRejected(d) ==
    /\ req[d].pc = "key" /\ End(d, "refused")
    /\ UNCHANGED <<inbound, outbound, admin, failures>>

\* SET NX for 24 hours, before anything else is done: whoever finds the key is
\* answered as a duplicate, whatever became of the call that set it.
acquireKey(d) ==
    /\ req[d].pc = "key"
    /\ IF req[d].m \in keys THEN End(d, "duplicate") ELSE Go(d, "evaluate")
    /\ keys' = keys \cup {req[d].m}
    /\ UNCHANGED <<rows, convs, events, told, origin, runs, outbound, admin, failures>>

\* The key expires, or Redis restarts without it.
KeyLost(m) ==
    /\ m \in keys /\ Fails /\ keys' = keys \ {m}
    /\ UNCHANGED <<rows, convs, events, told, origin, runs, outbound, admin, req>>

\* The transaction reads the allowlist as it is now, and judges with the
\* account's settings as they were; then it looks for the conversation.
readAllowlist(d) ==
    /\ req[d].pc = "evaluate"
    /\ req' = [req EXCEPT ![d].pc = "commit",
            ![d].reason = evaluateChannelSecurity(req[d].account, allow, req[d].m),
            ![d].known = convs[Env[req[d].m].conv] # "none"]
    /\ UNCHANGED <<inbound, outbound, admin, failures>>

\* Mutant: a second row of the message is no error.
createChannelMessage_Twice(d) == req[d].m \in Messages

\* The message's row is the only one of its account, direction and id.  The
\* violation is caught, but the transaction is aborted and its next statement
\* fails.
createChannelMessage(d) == rows[req[d].m] = "none"

dropMessage(d) ==
    /\ req[d].pc = "commit" /\ req[d].reason # "accepted"
    /\ IF createChannelMessage(d)
       THEN /\ rows' = [rows EXCEPT ![req[d].m] = "dropped"]
            /\ pairing' = IF req[d].reason = "dm_pairing_required"
                          THEN pairing \cup {<<Env[req[d].m].sender, "pending">>} ELSE pairing
            /\ End(d, "dropped")
       ELSE End(d, "failed") /\ UNCHANGED <<rows, pairing>>
    /\ UNCHANGED <<keys, convs, events, told, origin, runs, outbound, account, allow, edits, failures>>

\* A conversation that was not found is inserted: when another message of it
\* has committed meanwhile, the whole transaction is rolled back.
upsertChannelConversation(d) == req[d].known \/ convs[Env[req[d].m].conv] = "none"

\* The session bridge is on, and the conversation is bound to the session or the
\* account has it as its default one.
findsSession(d) ==
    /\ req[d].account.bridge # "off"
    /\ req[d].account.bridge = "session" \/ convs[Env[req[d].m].conv] = "bound"

\* The message is stored, in the session too if there is one to bridge to; only
\* then will the brain be told.
routeMessage(d) ==
    /\ req[d].pc = "commit" /\ req[d].reason = "accepted"
    /\ IF createChannelMessage(d) /\ upsertChannelConversation(d)
       THEN LET m == req[d].m  c == Env[m].conv  s == findsSession(d) IN
            /\ rows' = [rows EXCEPT ![m] = "accepted"]
            /\ convs' = [convs EXCEPT ![c] = IF s THEN "bound" ELSE IF @ = "none" THEN "unbound" ELSE @]
            /\ events' = [events EXCEPT ![m] = IF s THEN @ + 1 ELSE @]
            /\ req' = [req EXCEPT ![d].pc = IF s THEN "brain" ELSE "workflows", ![d].session = s,
                                  ![d].left = collectChannelTriggeredWorkflows(m)]
       ELSE End(d, "failed") /\ UNCHANGED <<rows, convs, events>>
    /\ UNCHANGED <<keys, told, origin, runs, outbound, admin, failures>>

tellBrain(d) ==
    /\ told' = [told EXCEPT ![req[d].m] = @ + 1] /\ origin' = [origin EXCEPT ![req[d].m] = EdgeOf[d]]
sendToBrain(d) ==
    /\ req[d].pc = "brain" /\ Go(d, "workflows") /\ tellBrain(d)
    /\ UNCHANGED <<keys, rows, convs, events, runs, outbound, admin, failures>>

\* Mutant: an error of xadd is swallowed.
requestFails_Swallowed(d) ==
    /\ req[d].pc = "brain" /\ Fails /\ Go(d, "workflows")
    /\ UNCHANGED <<inbound, outbound, admin>>

\* A database or Redis error, before the workflows or after them; the brain's
\* stream may have taken the record.
requestFails(d) ==
    /\ req[d].pc \in {"evaluate", "commit", "brain"} \/ (req[d].pc = "workflows" /\ req[d].left = {})
    /\ Fails /\ End(d, "failed")
    /\ UNCHANGED <<told, origin>> \/ (req[d].pc = "brain" /\ tellBrain(d))
    /\ UNCHANGED <<keys, rows, convs, events, runs, outbound, admin>>

\* The API creates and queues a run, or the call fails, whether or not it did,
\* which is logged.
started(d, w) == [runs EXCEPT ![req[d].m][w] = @ + 1]
postInternalTrigger(d, w) ==
    /\ req[d].pc = "workflows" /\ w \in req[d].left
    /\ req' = [req EXCEPT ![d].left = @ \ {w}] /\ runs' = started(d, w)
    /\ UNCHANGED <<keys, rows, convs, events, told, origin, outbound, admin, failures>>
triggerRunFails(d, w) ==
    /\ req[d].pc = "workflows" /\ w \in req[d].left /\ Fails
    /\ req' = [req EXCEPT ![d].left = @ \ {w}] /\ runs' \in {runs, started(d, w)}
    /\ UNCHANGED <<keys, rows, convs, events, told, origin, outbound, admin>>

\* The answer says whether the message went to the session.
answerWebhook(d) ==
    /\ req[d].pc = "workflows" /\ req[d].left = {}
    /\ req' = [req EXCEPT ![d] = [Idle EXCEPT !.m = req[d].m, !.session = req[d].session,
                                              !.pc = "accepted"]]
    /\ UNCHANGED <<inbound, outbound, admin, failures>>

-----------------------------------------------------------------------------
(* The administrators' endpoints.                                          *)

Edit == edits < MaxEdits /\ edits' = edits + 1

updateChannelAccount(a) ==
    /\ Edit /\ a # account /\ account' = a
    /\ UNCHANGED <<inbound, outbound, allow, pairing, req, failures>>
putChannelAllowlistEntry(e) ==
    /\ Edit /\ allow' = allow \cup {e}
    /\ UNCHANGED <<inbound, outbound, account, pairing, req, failures>>
deleteChannelAllowlistEntry(e) ==
    /\ Edit /\ e \in allow /\ allow' = allow \ {e}
    /\ UNCHANGED <<inbound, outbound, account, pairing, req, failures>>

\* Approving sets the request's status, and nothing else.
updateChannelPairingRequestStatus(p, status) ==
    /\ Edit /\ p \in pairing /\ pairing' = (pairing \ {p}) \cup {<<p[1], status>>}
    /\ UNCHANGED <<inbound, outbound, account, allow, req, failures>>

-----------------------------------------------------------------------------
(* Replies: the brain's answers and each edge's command loop, which delivers *)
(* one at a time.  Its consumer reads only what no consumer has read.       *)

\* The brain answers a message it was told of, or does not.  Its turns of the
\* session come one at a time while its lock lasts (SessionTurn), so that replies
\* are sent in the order of their events, each to the edge that its message came
\* in by.
channelOutbound(m) ==
    /\ told[m] > 0 /\ \A n \in Replies : replies[n].m # m
    /\ replies' = Append(replies, [m |-> m, edge |-> origin[m], row |-> "none", tried |-> 0])
    /\ stream' = [stream EXCEPT ![origin[m]] = Append(@, Len(replies) + 1)]
    /\ UNCHANGED <<inbound, batch, edge, posted, admin, req, failures>>

xreadGroup(e) ==
    /\ edge[e].pc = "idle" /\ batch[e] = <<>> /\ stream[e] # <<>>
    /\ batch' = [batch EXCEPT ![e] = stream[e]] /\ stream' = [stream EXCEPT ![e] = <<>>]
    /\ UNCHANGED <<inbound, replies, edge, posted, admin, req, failures>>

\* No account or a disabled one: the reply is given up without a trace.
sendSessionReply(e) ==
    /\ edge[e].pc = "idle" /\ batch[e] # <<>> /\ batch' = [batch EXCEPT ![e] = Tail(@)]
    /\ edge' = [edge EXCEPT ![e] =
            IF ~account.enabled THEN NoReply
            ELSE IF ~account.url
            THEN [pc |-> "record", n |-> Head(batch[e]), attempt |-> 0, status |-> "failed"]
            ELSE [pc |-> "post", n |-> Head(batch[e]), attempt |-> 1, status |-> "failed"]]
    /\ UNCHANGED <<inbound, replies, stream, posted, admin, req, failures>>

Tries(e) == replies' = [replies EXCEPT ![edge[e].n].tried = @ + 1]
Gets(e) == posted' = [posted EXCEPT ![e] = Append(@, edge[e].n)]

postOutboundWebhook(e) ==
    /\ edge[e].pc = "post" /\ Tries(e) /\ Gets(e)
    /\ edge' = [edge EXCEPT ![e].pc = "record", ![e].status = "accepted"]
    /\ UNCHANGED <<inbound, stream, batch, admin, req, failures>>

\* Mutant: a failed reply is put behind the others.
postFails_Requeues(e) ==
    /\ edge[e].pc = "post" /\ Fails /\ Tries(e)
    /\ edge' = [edge EXCEPT ![e] = NoReply] /\ batch' = [batch EXCEPT ![e] = Append(@, edge[e].n)]
    /\ UNCHANGED <<inbound, stream, posted, admin, req>>

\* The call fails, whether or not the provider got it; after a pause the loop
\* tries again, up to MaxAttempts.
postFails(e) ==
    /\ edge[e].pc = "post" /\ Fails /\ Tries(e)
    /\ UNCHANGED posted \/ Gets(e)
    /\ edge' = IF edge[e].attempt < MaxAttempts THEN [edge EXCEPT ![e].attempt = @ + 1]
               ELSE [edge EXCEPT ![e].pc = "record", ![e].status = "dead_letter"]
    /\ UNCHANGED <<inbound, stream, batch, admin, req>>

recordReply(e) ==
    /\ edge[e].pc = "record" /\ edge' = [edge EXCEPT ![e] = NoReply]
    /\ replies' = [replies EXCEPT ![edge[e].n].row = edge[e].status]
    /\ UNCHANGED <<inbound, stream, batch, posted, admin, req, failures>>

\* An edge dies: of an error that escapes its command loop (a reply's row that
\* cannot be written), or for a reason of its own.
EdgeDies(e) ==
    /\ Fails /\ batch' = [batch EXCEPT ![e] = <<>>] /\ edge' = [edge EXCEPT ![e] = NoReply]
    /\ req' = [d \in Deliveries |-> IF req[d].pc \in Done \/ EdgeOf[d] # e THEN req[d]
                                    ELSE [req[d] EXCEPT !.pc = "failed"]]
    /\ UNCHANGED <<inbound, replies, stream, posted, admin>>

-----------------------------------------------------------------------------
Next ==
    \/ \E d \in Deliveries, m \in Messages : handleWebhook(d, m)
    \/ \E d \in Deliveries :
          \/ webhookRejected(d) \/ acquireKey(d) \/ readAllowlist(d)
          \/ dropMessage(d) \/ routeMessage(d) \/ sendToBrain(d)
          \/ requestFails(d) \/ answerWebhook(d)
          \/ \E w \in Workflows : postInternalTrigger(d, w) \/ triggerRunFails(d, w)
    \/ \E m \in Messages : KeyLost(m)
    \/ \E a \in Accounts : updateChannelAccount(a)
    \/ \E e \in Entries : putChannelAllowlistEntry(e) \/ deleteChannelAllowlistEntry(e)
    \/ \E p \in pairing, s \in {"approved", "rejected"} : updateChannelPairingRequestStatus(p, s)
    \/ \E m \in Messages : channelOutbound(m)
    \/ \E e \in Edges : \/ xreadGroup(e) \/ sendSessionReply(e) \/ postOutboundWebhook(e)
                         \/ postFails(e) \/ recordReply(e) \/ EdgeDies(e)

Spec == Init /\ [][Next]_vars

-----------------------------------------------------------------------------
TypeOK ==
    /\ account \in Accounts /\ allow \subseteq Entries
    /\ \A p \in pairing : p[2] \in {"pending", "approved", "rejected"}
    /\ keys \subseteq Messages /\ rows \in [Messages -> {"none", "accepted", "dropped"}]
    /\ convs \in [Chats -> {"none", "unbound", "bound"}]
    /\ \A d \in Deliveries : req[d].pc \in Done \cup Working \cup {"key"}
    /\ \A n \in Replies : replies[n].row \in {"none", "accepted", "failed", "dead_letter"}
    /\ \A e \in Edges : edge[e].pc \in {"idle", "post", "record"}

\* A message of the provider is written to the session, told to the brain and
\* starts a run of each workflow at most once, though the provider repeats its
\* call and Redis forgets the key: the message's unique row decides
\* (manager.ts handleWebhook, channel_messages' unique index).
RoutedOnce ==
    \A m \in Messages : /\ events[m] <= 1 /\ told[m] <= 1
                         /\ \A w \in Workflows : runs[m][w] <= 1

\* A provider that is answered "accepted" need not call again: if the answer
\* says that a session was found, the message is in it and the brain was told;
\* otherwise neither is so (manager.ts handleWebhook).
AcceptedToldBrain ==
    \A d \in Deliveries : req[d].pc = "accepted" =>
        LET n == IF req[d].session THEN 1 ELSE 0 IN
        rows[req[d].m] = "accepted" /\ events[req[d].m] = n /\ told[req[d].m] = n

\* A message whose key is set or whose row is there is dropped, or accepted with
\* the brain told of what is in the session, or a call of it is at work, or one
\* has failed: only a call that got an error, or no answer, loses a message
\* (handleWebhook sets the key before it does the work).
LossIsReported ==
    \A m \in Messages : m \in keys \/ rows[m] # "none" =>
        \/ rows[m] = "dropped" \/ (rows[m] = "accepted" /\ told[m] = events[m])
        \/ \E d \in Deliveries : req[d].m = m /\ req[d].pc \in Working \cup {"failed"}

\* The provider gets the replies of one edge in the session's order, repeated
\* perhaps, whichever calls fail (edge startEdgeCommandLoop, sendSessionReply).
RepliesInOrder ==
    \A e \in Edges : \A i, j \in 1..Len(posted[e]) : i < j => posted[e][i] <= posted[e][j]

\* The row of a reply tells what happened: accepted ones reached the provider,
\* dead letters were tried as often as configured (sendSessionReply).
OutboundTruthful ==
    \A n \in Replies : LET e == replies[n].edge IN
        /\ replies[n].row = "accepted" => \E i \in 1..Len(posted[e]) : posted[e][i] = n
        /\ replies[n].row = "dead_letter" => replies[n].tried = MaxAttempts

\* Not so: the provider gets all the session's replies in their order (one that
\* is tried again through one edge is overtaken by the next through another).
RepliesKeepOrder ==
    [][\A e, f \in Edges : posted'[e] # posted[e] =>
         \A i \in 1..Len(posted[f]) : posted[f][i] <= posted'[e][Len(posted'[e])]]_vars

\* Not so: a call that is answered as a duplicate is one of a message that is
\* routed or about to be (the first call may fail once it has set the key).
DuplicatesAreRouted ==
    \A d \in Deliveries : req[d].pc = "duplicate" =>
        \/ rows[req[d].m] # "none"
        \/ \E c \in Deliveries : req[c].m = req[d].m /\ req[c].pc \in Working

\* Not so: once an administrator has approved a sender's pairing request, its
\* direct messages are no longer dropped for want of pairing
\* (docs/runbooks/channel-runtime.md:180).
ApprovedMayWrite ==
    [][\A d \in Deliveries : LET e == Env[req[d].m] IN
         req[d].pc = "evaluate" /\ req'[d].pc = "commit" /\ <<e.sender, "approved">> \in pairing
         => req'[d].reason # "dm_pairing_required"]_vars
=============================================================================
