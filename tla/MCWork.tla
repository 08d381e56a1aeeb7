------------------------------- MODULE MCWork --------------------------------
(***************************************************************************)
(* What workers, brains and channels do, in one run: a behaviour is about  *)
(* the tools of one workspace, a run of a small graph, an agent's loop,    *)
(* the messages of one channel account, or the adapters, and the others    *)
(* stay as they begin.                                                     *)
(***************************************************************************)
EXTENDS ToolInvocation, Sequences, FiniteSetsExt, TLC

CONSTANTS
    None,
    Graphs, MaxRunAttempts, MaxCrashes,                                     \* the graph
    Allow, Team, Tasks, MaxParallel, MaxTurns, MaxToolCalls, MaxHistory, MaxTries, MaxDeaths,   \* the loop
    Edges, Deliveries, EdgeOf, Messages, Env, Workflows, Trigger, Entries, Accounts,
    MaxEdits, MaxFailures, MaxPosts,                                        \* the channel
    Channels, Notes, Body, Chat, Names, Secrets, KeyOf, Shown, MaxCalls     \* the adapters

CONSTANTS
    d1, d2, d3,         \* calls; d1 a webhook call, too
    r1, r2, r3,         \* requests
    x, y                \* executors, or webhook calls

VARIABLES
    scene,
    graph, graphRow, worker, crashes,
    mode, run, attempts, deaths, saved, loop, loopPc, call, team, ran, asked, used, orphans,
    account, allow, pairing, keys, rows, convs, events, told, origin, runs, req, edits, failures,
    replies, stream, batch, edge, posted,
    channel, secrets, identities, handled, calls, last

\* Three nodes, or a node that is dispatched twice and another one.
OnceOrTwice == {(d1 :> r1) @@ (d2 :> r2) @@ (d3 :> r3), (d1 :> r1) @@ (d2 :> r1) @@ (d3 :> r3)}
TheKinds == (d1 :> "agent.execute") @@ (d2 :> "connector.action") @@ (d3 :> "agent.run")

\* Two teammates, and three tasks.
TheTasks == <<"ada", "bob", "ada">>
TheTeam == [ada |-> {"connector", "team.map"}, bob |-> {"connector", "memory"}]

\* Two direct messages of one sender in one conversation; two calls reach one
\* edge, the third another.
TheDeliveries == {x, y, d1}
TheEdges == {"one", "two"}
TheEdgeOf == [d \in TheDeliveries |-> IF d = d1 THEN "two" ELSE "one"]
TheEnv == [m \in {"first", "second"} |-> [dm |-> TRUE, sender |-> "ann", conv |-> "chat", mention |-> FALSE]]
TheEntries == {<<"sender", "ann">>, <<"group", "*">>}
TheTrigger == [w |-> [event |-> "message.dm", senderIn |-> {"ann", "bob"}, groupIn |-> {}]]
TheAccounts ==
    {[enabled |-> TRUE, dm |-> "pairing", group |-> "open", mention |-> TRUE, url |-> TRUE,
      bridge |-> "session"],
     [enabled |-> TRUE, dm |-> "allowlist", group |-> "allowlist", mention |-> FALSE, url |-> FALSE,
      bridge |-> "no session"],
     [enabled |-> FALSE, dm |-> "disabled", group |-> "disabled", mention |-> TRUE, url |-> TRUE,
      bridge |-> "off"]}

\* Adapters: of every channel, a message of ann's and one of bob's to the bot,
\* and one of ann's in a group.
TheChannels == {"whatsapp", "telegram", "discord", "irc", "slack", "googlechat", "signal", "imessage",
    "feishu", "mattermost", "bluebubbles", "nextcloud-talk", "twitch", "webchat", "nostr", "tlon",
    "zalo", "zalouser", "msteams", "line", "matrix"}
TheNotes == {"from ann", "from bob", "in group"}
Sender(m) == IF m = "from bob" THEN "bob" ELSE "ann"
TheChat == [m \in TheNotes |-> IF m = "in group" THEN "team" ELSE Sender(m)]

\* Field names of senders, of chats and of messages that providers send.
Senders == {"from", "user", "handle", "sender.name", "nick", "author.id", "user_id", "open_id", "actorId",
            "chatter_user_id", "pubkey", "ship", "sender.id", "from.id", "userId", "sourceUuid", "sender"}
Chats == {"channel_id", "channel", "space.name", "chatGuid", "chat_id", "conversation.token", "room.id",
          "conversation.id", "room_id", "broadcaster_user_id"}
Bots == {"target", "p", "display_phone_number"}
Identities == {"id", "event_id", "message_id", "msg_id", "guid", "client_msg_id", "message.name", "post.id"}

\* Whatsapp has private chats only, twitch groups only; a private chat of line
\* and of signal has no group; a group of irc is the target, one of nostr a thread.
TheBody == [c \in TheChannels |-> [m \in TheNotes |->
    LET group == (m = "in group" \/ c = "twitch") /\ c # "whatsapp"
        chats == Chats \cup (IF ~group THEN {} ELSE {"groupId", "e", "target"})
        bots == IF group THEN {} ELSE Bots
    IN [text |-> TRUE, mention |-> FALSE, private |-> ~group, generic |-> FALSE,
        strings |-> [f \in Senders \cup chats \cup bots \cup Identities |->
            IF f \in Identities THEN m
            ELSE IF f \in bots THEN "bot"
            ELSE IF f \in chats THEN (IF group THEN "team" ELSE Sender(m))
            ELSE Sender(m)],
        numbers |-> [f \in {"from.id", "chat.id", "message_id", "update_id"} |->
            IF f = "from.id" THEN Sender(m) ELSE IF f = "chat.id" THEN TheChat[m] ELSE m]]]]

TheKey == [c \in TheChannels |->
    CASE c = "whatsapp" -> "appSecret" [] c = "telegram" -> "webhookSecretToken"
      [] c = "discord" -> "discordPublicKey" [] c = "slack" -> "signingSecret"
      [] c \in {"googlechat", "feishu"} -> "verificationToken" [] c = "line" -> "channelSecret"
      [] c \in {"signal", "bluebubbles", "twitch", "zalo"} -> "webhookSecret" [] OTHER -> "ingressToken"]
TheSecrets == {{}, {"appSecret", "webhookSecretToken", "discordPublicKey", "signingSecret",
                   "verificationToken", "webhookSecret", "channelSecret"}, {"ingressToken"}}
TheShown == {{}, {"channel token"}, {"channel token", "x-channel-signature"},
    {"x-hub-signature-256", "x-telegram-bot-api-secret-token", "x-signature-ed25519", "x-slack-signature",
     "recent timestamp", "x-goog-chat-token", "x-lark-token", "x-signal-signature", "x-bluebubbles-signature",
     "twitch-eventsub-message-signature", "x-zalo-signature", "x-line-signature", "channel token"}}

Gra == INSTANCE GraphRun WITH MaxAttempts <- MaxRunAttempts, row <- graphRow

Loo == INSTANCE AgentLoop WITH MaxAttempts <- MaxTries, pc <- loopPc

Cha == INSTANCE ChannelRuntime WITH MaxAttempts <- MaxPosts

Ada == INSTANCE ChannelAdapters WITH Messages <- Notes, seen <- identities

graVars == <<graph, graphRow, worker, crashes>>
looVars == <<mode, run, attempts, deaths, saved, loop, loopPc, call, team, ran, asked, used, orphans>>
chaVars == <<account, allow, pairing, keys, rows, convs, events, told, origin, runs, req, edits,
             failures, replies, stream, batch, edge, posted>>
adaVars == <<channel, secrets, identities, handled, calls, last>>
allVars == <<scene, vars, graVars, looVars, chaVars, adaVars>>

\* Nodes are numbered.
ASSUME GraphsAssumption ==
    \A g \in Graphs : IsFiniteSet(DOMAIN g.type) /\ DOMAIN g.type \subseteq Nat \ {None}

\* Tasks are the teammates', and what is known of a loop is not None.
ASSUME LoopAssumption ==
    /\ Tasks \in Seq(DOMAIN Team) /\ MaxParallel \in Nat
    /\ MaxToolCalls \in Nat /\ MaxHistory \in Nat
    /\ None \notin Loo!State /\ None \notin Loo!Call

\* There is a message, and a reply is posted at least once (manager.ts:196).
ASSUME ChannelAssumption ==
    Messages # {} /\ Edges # {} /\ EdgeOf \in [Deliveries -> Edges] /\ MaxPosts \in Nat \ {0}

Symmetry == Permutations({x, y})

\* Graphs: up to three edges between three nodes, and four nodes with forward
\* edges that begin with no remote node, where conditions have their two.
NodeTypes == {"task", "remote", "condition", "parallel.join"}
Written(type, edges) ==
    {[type |-> type, edges |-> edges,
      outcome |-> [n \in DOMAIN type |-> IF type[n] = "condition" THEN n \in true ELSE None]] :
        true \in SUBSET {n \in DOMAIN type : type[n] = "condition"}}
Edge(from, to, kind) == [from |-> from, to |-> to, kind |-> kind]
BetweenThree == {Edge(f, t, "always") : f \in 1..3, t \in 1..3}
                \cup {Edge(1, t, k) : t \in {2, 3}, k \in {"cond_true", "cond_false"}}
Out(n, type) ==
    IF type = "condition"
    THEN {{Edge(n, t, "cond_true"), Edge(n, f, "cond_false")} : t \in n + 1..4, f \in n + 1..4}
    ELSE {{Edge(n, t, "always") : t \in ts} : ts \in SUBSET (n + 1..4)}
TheGraphs ==
    UNION {UNION {Written(<<one, "task", "parallel.join">>, es) : es \in kSubset(k, BetweenThree)} :
              one \in {"task", "condition"}, k \in 0..3}
    \cup UNION {UNION {Written(type, a \cup b \cup c) :
                        a \in Out(1, type[1]), b \in Out(2, type[2]), c \in Out(3, type[3])} :
                  type \in {t \in [1..4 -> NodeTypes] :
                               t[1] \in {"task", "condition"} /\ t[4] \in {"task", "parallel.join"}}}

\* Two calls with a fault, or three without one.
TwoAfterFault == faults' > 0 => \E c \in Calls : pc'[c] = "posted"

\* One failure anywhere, a second one while a reply is being posted; two replies
\* where there are two calls, one where there are three.
SecondWhilePosting == failures' > failures /\ failures > 0 => \E e \in Edges : edge[e].pc = "post"
TwoRepliesOfTwoCalls == Len(replies') = 2 => \E d \in Deliveries : req'[d].pc = "idle"

\* What a behaviour is not about begins in one way only.
NoGraph == [type |-> << >>, edges |-> {}, outcome |-> << >>]
WorkInit ==
    /\ scene \in {"tools", "graph", "loop", "channel", "adapters"}
    /\ \/ scene = "graph" /\ Gra!Init
       \/ scene # "graph" /\ Gra!InitOf(NoGraph)
    /\ Init /\ (scene # "tools" => requestOf = CHOOSE of \in Dispatches : TRUE)
    /\ Loo!Init /\ (scene # "loop" => mode = "cloud")
    /\ Cha!Init /\ (scene # "channel" => account = CHOOSE a \in Accounts : TRUE)
    /\ Ada!Init /\ (scene # "adapters" => /\ channel = CHOOSE c \in Channels : TRUE
                                         /\ secrets = CHOOSE s \in Secrets : TRUE)

WorkNext ==
    \/ /\ scene = "tools" /\ Next /\ TwoAfterFault
       /\ UNCHANGED <<scene, graVars, looVars, chaVars, adaVars>>
    \/ scene = "graph" /\ Gra!Next /\ UNCHANGED <<scene, vars, looVars, chaVars, adaVars>>
    \/ scene = "loop" /\ Loo!Next /\ UNCHANGED <<scene, vars, graVars, chaVars, adaVars>>
    \/ /\ scene = "channel" /\ Cha!Next /\ SecondWhilePosting /\ TwoRepliesOfTwoCalls
       /\ UNCHANGED <<scene, vars, graVars, looVars, adaVars>>
    \/ scene = "adapters" /\ Ada!Next /\ UNCHANGED <<scene, vars, graVars, looVars, chaVars>>

WorkSpec == WorkInit /\ [][WorkNext]_allVars

-----------------------------------------------------------------------------
\* A succeeded run has executed exactly the nodes that its conditions allow,
\* each once and after all that it depends on; the steps that it keeps are
\* never ahead of a node they depend on; whichever node consumes a result is
\* the one that was sent for it, though no executor compares them; and the
\* check that peels a graph finds every cycle (graph-executor, v3 validation).
GraphIsFollowed ==
    scene = "graph" =>
        /\ Gra!RunsWhatConditionsAllow /\ Gra!StepsAreOrdered
        /\ Gra!ResultGoesToItsNode /\ Gra!CyclesAreFound

\* Every result the loop keeps is that of its call and of its tool, whichever
\* job it came from (agent-loop.ts:497-556); the history the model is shown
\* tells each call once, in order, and a result right after its call
\* (trimAgentState); a job that starts with a remote result finds the call it
\* answers; the tasks of a team.map end before it does and each output stands
\* at its own place; and delegating never widens what the node's policy allows
\* (intersectAllowlist, team-tools.ts:86-91).
LoopHolds ==
    scene = "loop" =>
        /\ Loo!ResultsBelong /\ Loo!HistoryTellsTheCalls /\ Loo!RemoteIsExpected
        /\ Loo!MapIsOrdered /\ Loo!PolicyBoundsTheTeam

\* However often the jobs of an attempt die and start again, a call never runs
\* again in the loop once a checkpoint of that attempt knows of it, whatever the
\* trimming forgot (the worker's runtime, main.ts:512-516; agent-loop.ts:385).
KnownCallsStay == [][(scene = "loop" => Loo!KnownStays)]_allVars

\* A message of the provider is written to the session, told to the brain and
\* starts a run of each workflow at most once, though the provider repeats its
\* call and Redis forgets the key; one that is answered "accepted" with a
\* session is in it and the brain was told of it; only a call that got an error
\* or no answer loses a message (manager.ts handleWebhook); the provider gets
\* the replies of one edge in the session's order, repeated perhaps, and the row
\* of a reply tells what happened to it (sendSessionReply).
ChannelsHold ==
    scene = "channel" =>
        /\ Cha!RoutedOnce /\ Cha!AcceptedToldBrain /\ Cha!LossIsReported
        /\ Cha!RepliesInOrder /\ Cha!OutboundTruthful

\* A message that the provider names is handled once, whichever of the
\* channel's fields the name is found in, and no other message is taken for it;
\* one written in a group never passes for a direct one, nor the reverse; and an
\* account with its channel's secret lets no call in that shows nothing
\* (createEnvelope, normalizeMessageEvent, authenticateWebhook).
AdaptersHold ==
    scene = "adapters" =>
        /\ Ada!RepeatsAreDropped /\ Ada!OnlyRepeatsAreDropped
        /\ Ada!GroupsStayGroups /\ Ada!AnonymousIsRefused
=============================================================================
