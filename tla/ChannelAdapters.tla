--------------------------- MODULE ChannelAdapters --------------------------
(***************************************************************************)
(* What the gateway makes of a chat provider's webhook call                *)
(* (apps/gateway/src/channels/adapters, channels/manager.ts                *)
(* handleWebhook): the credentials it asks for, and the message's sender,  *)
(* conversation, identity and kind.  ChannelRuntime says what happens to   *)
(* it then.                                                                *)
(*                                                                         *)
(* A body is a record: text, mention and private say that it holds a text, *)
(* a mention of the bot and the provider's mark of a private chat; strings *)
(* and numbers are functions from the names of its other fields.           *)
(***************************************************************************)
EXTENDS Integers, Sequences

CONSTANTS
    Channels,       \* channels of the account: the names of the adapters
    Messages,       \* messages of the provider
    Body,           \* the body that a channel's provider sends for a message
    Chat,           \* the chat of a message: its sender, or a group
    Names,          \* fields that name a message
    Secrets,        \* sets of secrets an account's metadata may hold
    KeyOf,          \* of each channel, the secret its provider's calls prove
    Shown,          \* sets of credentials that a call may show
    MaxCalls        \* bound: webhook calls

VARIABLES
    channel, secrets,   \* the account: its channel, the secrets in its metadata
    seen,               \* identities whose Redis key is set
    handled,            \* how often each message was handled
    calls, last         \* number of calls; message, credentials and answer of the last

vars == <<channel, secrets, seen, handled, calls, last>>

Null == "null"
Fresh == "random uuid"

-----------------------------------------------------------------------------
(* Reading a body.                                                          *)

\* The first of the fields that holds a string.
pickString(b, fields) ==
    LET found == SelectSeq(fields, LAMBDA f : f \in DOMAIN b.strings)
    IN IF found = <<>> THEN Null ELSE b.strings[Head(found)]
readNumber(b, f) == IF f \in DOMAIN b.numbers THEN b.numbers[f] ELSE Null
Or(x, y) == IF x # Null THEN x ELSE y

normalizeMessageEvent(private, mention) ==
    IF private THEN "message.dm" ELSE IF mention THEN "message.mentioned" ELSE "message.received"

NoEnvelope == [event |-> "none"]

\* Mutant: the identity is made up whatever the body says.
createEnvelope_NoId(b, sender, conv, id, private) ==
    [sender |-> sender, conv |-> Or(conv, sender), id |-> Fresh,
     event |-> normalizeMessageEvent(private, b.mention)]

createEnvelope(b, sender, conv, id, private) ==
    IF ~b.text THEN NoEnvelope
    ELSE [sender |-> Or(sender, "unknown"), conv |-> Or(conv, Or(sender, "unknown")),
          id |-> Or(id, Fresh), event |-> normalizeMessageEvent(private, b.mention)]

normalizeGenericEnvelope(b) ==
    LET sender == Or(pickString(b, <<"senderId", "from", "userId", "authorId">>), "unknown")
        conv == Or(pickString(b, <<"conversationId", "chatId", "threadId", "channelId">>), sender)
    IN createEnvelope(b, sender, conv, pickString(b, <<"providerMessageId", "messageId", "id">>),
                      conv = sender)

createWhatsappEnvelope(b) ==
    LET sender == pickString(b, <<"from">>)
    IN createEnvelope(b, sender, pickString(b, <<"context.from", "display_phone_number">>),
                      pickString(b, <<"id">>), TRUE)

\* A button's click comes with the message that holds the button.
createTelegramEnvelope(b) ==
    createEnvelope(b, readNumber(b, "from.id"), readNumber(b, "chat.id"),
                   Or(readNumber(b, "message_id"), readNumber(b, "update_id")), b.private)

createDiscordEnvelope(b) ==
    createEnvelope(b, pickString(b, <<"author.id", "username">>),
                   pickString(b, <<"channel_id", "thread_id">>), pickString(b, <<"id">>), b.private)

\* A private message's target is the bot itself.
createIrcEnvelope(b) ==
    createEnvelope(b, pickString(b, <<"nick", "sender", "user">>),
                   pickString(b, <<"target", "channel", "conversationId">>),
                   pickString(b, <<"messageId", "id", "timestamp">>), b.private)

\* Mutant: the identity is the sender's.
createSlackEnvelope_PerSender(b) ==
    createEnvelope(b, pickString(b, <<"user", "bot_id">>), pickString(b, <<"channel">>),
                   pickString(b, <<"user">>), b.private)

createSlackEnvelope(b) ==
    createEnvelope(b, pickString(b, <<"user", "bot_id">>), pickString(b, <<"channel">>),
                   pickString(b, <<"client_msg_id", "event_ts", "ts">>), b.private)

createGoogleChatEnvelope(b) ==
    createEnvelope(b, pickString(b, <<"sender.name", "displayName", "email">>),
                   pickString(b, <<"space.name">>),
                   pickString(b, <<"message.name", "eventTime">>), b.private)

createSignalEnvelope(b) ==
    LET group == pickString(b, <<"groupId">>)
    IN createEnvelope(b, pickString(b, <<"sourceUuid", "sourceNumber", "source">>), group,
                      pickString(b, <<"guid", "sourceDevice", "timestamp", "id">>), group = Null)

createImessageEnvelope(b) ==
    createEnvelope(b, pickString(b, <<"handle", "sender", "address", "from">>),
                   pickString(b, <<"chatGuid", "conversationId", "threadId">>),
                   pickString(b, <<"guid", "messageId", "id">>), b.private)

createMsteamsEnvelope(b) ==
    createEnvelope(b, pickString(b, <<"from.id", "aadObjectId">>), pickString(b, <<"conversation.id">>),
                   pickString(b, <<"id", "activityId">>), b.private)

createLineEnvelope(b) ==
    createEnvelope(b, pickString(b, <<"userId", "groupId", "roomId">>),
                   pickString(b, <<"groupId", "roomId", "userId">>),
                   pickString(b, <<"id", "webhookEventId">>), b.private)

createMatrixEnvelope(b) ==
    createEnvelope(b, pickString(b, <<"sender", "user_id", "from">>),
                   pickString(b, <<"room_id", "conversationId">>),
                   pickString(b, <<"event_id", "id">>), b.private)

createFeishuEnvelope(b) ==
    createEnvelope(b, pickString(b, <<"open_id", "user_id", "union_id">>), pickString(b, <<"chat_id">>),
                   pickString(b, <<"message_id", "event_id">>), b.private)

createMattermostEnvelope(b) ==
    createEnvelope(b, pickString(b, <<"user_id", "userId">>), pickString(b, <<"channel_id", "channelId">>),
                   pickString(b, <<"post.id", "trigger_id", "messageId", "id">>), b.private)

createBluebubblesEnvelope(b) ==
    createEnvelope(b, pickString(b, <<"handle", "sender", "address", "from">>),
                   pickString(b, <<"chatGuid", "conversationId", "threadId">>),
                   pickString(b, <<"guid", "messageId", "id">>), b.private)

createNextcloudTalkEnvelope(b) ==
    createEnvelope(b, pickString(b, <<"actorId", "senderId", "userId", "from">>),
                   pickString(b, <<"conversation.token", "conversation.id", "conversationId">>),
                   pickString(b, <<"id", "messageId">>), b.private)

createTwitchEnvelope(b) ==
    createEnvelope(b, pickString(b, <<"chatter_user_id", "senderId", "userId">>),
                   pickString(b, <<"broadcaster_user_id", "conversationId">>),
                   pickString(b, <<"message_id", "id">>), FALSE)

createWebchatEnvelope(b) ==
    createEnvelope(b, pickString(b, <<"author.id", "senderId", "from">>),
                   pickString(b, <<"room.id", "conversationId", "threadId">>),
                   pickString(b, <<"id", "messageId">>), b.private)

\* The conversation is the thread's first message, or the first person named:
\* in a private message, the bot.
createNostrEnvelope(b) ==
    createEnvelope(b, pickString(b, <<"pubkey", "senderId">>), pickString(b, <<"e", "p">>),
                   pickString(b, <<"id", "event_id">>), b.private)

\* Mutant: the ship's own channel passes for a group.
createTlonEnvelope_NoDm(b) ==
    LET sender == pickString(b, <<"ship", "author", "senderId", "from">>)
    IN createEnvelope(b, sender, pickString(b, <<"channel", "conversationId">>),
                      pickString(b, <<"id", "messageId">>), FALSE)

createTlonEnvelope(b) ==
    LET sender == pickString(b, <<"ship", "author", "senderId", "from">>)
        conv == Or(pickString(b, <<"channel", "channelId", "conversationId", "threadId">>), sender)
    IN createEnvelope(b, sender, conv, pickString(b, <<"id", "messageId">>), b.private \/ conv = sender)

createZaloEnvelope(b) ==
    createEnvelope(b, pickString(b, <<"sender.id", "senderId", "from">>),
                   pickString(b, <<"conversation.id", "threadId", "conversationId">>),
                   pickString(b, <<"msg_id", "message_id", "id">>), b.private)

createZalouserEnvelope(b) ==
    LET sender == pickString(b, <<"sender.id", "senderId", "from">>)
        conv == Or(pickString(b, <<"conversation.id", "conversationId", "threadId">>), sender)
    IN createEnvelope(b, sender, conv, pickString(b, <<"id", "messageId", "msg_id">>),
                      b.private \/ conv = sender)

Core8 == {"whatsapp", "telegram", "discord", "irc", "slack", "googlechat", "signal", "imessage"}

normalizeCore(b) ==
    CASE channel \in {"whatsapp", "telegram"} /\ b.generic -> normalizeGenericEnvelope(b)
      [] channel = "whatsapp" /\ ~b.generic -> createWhatsappEnvelope(b)
      [] channel = "telegram" /\ ~b.generic -> createTelegramEnvelope(b)
      [] channel = "discord" -> createDiscordEnvelope(b)
      [] channel = "irc" -> createIrcEnvelope(b)
      [] channel = "slack" -> createSlackEnvelope(b)
      [] channel = "googlechat" -> createGoogleChatEnvelope(b)
      [] channel = "signal" -> createSignalEnvelope(b)
      [] channel = "imessage" -> createImessageEnvelope(b)

\* These fall back on the generic form.
normalizeExtended(b) ==
    LET e == CASE channel = "feishu" -> createFeishuEnvelope(b)
               [] channel = "mattermost" -> createMattermostEnvelope(b)
               [] channel = "bluebubbles" -> createBluebubblesEnvelope(b)
               [] channel = "nextcloud-talk" -> createNextcloudTalkEnvelope(b)
               [] channel = "twitch" -> createTwitchEnvelope(b)
               [] channel = "webchat" -> createWebchatEnvelope(b)
               [] channel = "nostr" -> createNostrEnvelope(b)
               [] channel = "tlon" -> createTlonEnvelope(b)
               [] channel = "zalo" -> createZaloEnvelope(b)
               [] channel = "zalouser" -> createZalouserEnvelope(b)
               [] channel = "msteams" -> createMsteamsEnvelope(b)
               [] channel = "line" -> createLineEnvelope(b)
               [] channel = "matrix" -> createMatrixEnvelope(b)
    IN IF e = NoEnvelope THEN normalizeGenericEnvelope(b) ELSE e

normalizeWebhook(b) == IF channel \in Core8 THEN normalizeCore(b) ELSE normalizeExtended(b)

-----------------------------------------------------------------------------
(* Credentials.  A credential is named by the header that carries it, with a *)
(* value that fits the account's secret and this call's body; "channel token" *)
(* stands for the header that a channel has of its own for an ingress token.  *)

\* A secret that is configured must be matched, one that is not is not asked for.
verifyIngressToken(shown, key, headers) == key \in secrets => shown \cap headers # {}
validateWebhookHmac(shown, key, header) == verifyIngressToken(shown, key, {header})
validateBearerOrHeaderToken(shown, header) ==
    verifyIngressToken(shown, "ingressToken", {header, "authorization"})

\* The signature covers a timestamp of at most ten minutes ago.
validateSlackSignature(shown) ==
    "signingSecret" \in secrets => {"x-slack-signature", "recent timestamp"} \subseteq shown
validateDiscordSignature(shown) ==
    "discordPublicKey" \in secrets => "x-signature-ed25519" \in shown
validateFeishuToken(shown) ==
    verifyIngressToken(shown, "verificationToken", {"token in body", "x-lark-token"})
validateMattermostToken(shown) ==
    verifyIngressToken(shown, "ingressToken", {"x-mattermost-token", "token in body", "authorization"})
validateTwitchSignature(shown) ==
    verifyIngressToken(shown, "webhookSecret", {"twitch-eventsub-message-signature"})
validateZaloSignature(shown) == verifyIngressToken(shown, "webhookSecret", {"x-zalo-signature"})

\* Mutant: a call without a signature is not a call with a wrong one.
authenticateExtended_Missing(shown) == shown = {}

authenticateCore(shown) ==
    CASE channel = "whatsapp" -> validateWebhookHmac(shown, "appSecret", "x-hub-signature-256")
      [] channel = "telegram" ->
           verifyIngressToken(shown, "webhookSecretToken", {"x-telegram-bot-api-secret-token"})
      [] channel = "discord" -> validateDiscordSignature(shown)
      [] channel = "slack" -> validateSlackSignature(shown)
      [] channel = "googlechat" ->
           verifyIngressToken(shown, "verificationToken", {"x-goog-chat-token", "token in body"})
      [] channel = "signal" ->
           /\ validateWebhookHmac(shown, "webhookSecret", "x-signal-signature")
           /\ validateBearerOrHeaderToken(shown, "channel token")
      [] channel \in {"irc", "imessage"} -> validateBearerOrHeaderToken(shown, "channel token")

authenticateExtended(shown) ==
    CASE channel = "feishu" -> validateFeishuToken(shown)
      [] channel = "mattermost" -> validateMattermostToken(shown)
      [] channel = "line" /\ "channelSecret" \in secrets -> "x-line-signature" \in shown
      [] channel = "bluebubbles" ->
           /\ validateWebhookHmac(shown, "webhookSecret", "x-bluebubbles-signature")
           /\ validateBearerOrHeaderToken(shown, "channel token")
      [] channel = "twitch" ->
           validateTwitchSignature(shown) /\ validateBearerOrHeaderToken(shown, "channel token")
      [] channel = "zalo" ->
           validateZaloSignature(shown) /\ validateBearerOrHeaderToken(shown, "channel token")
      [] OTHER -> validateBearerOrHeaderToken(shown, "channel token")

authenticateWebhook(shown) ==
    IF channel \in Core8 THEN authenticateCore(shown) ELSE authenticateExtended(shown)

\* The manager asks for the webhook secret again, by a header of its own.
verifySignature(shown) == verifyIngressToken(shown, "webhookSecret", {"x-channel-signature", "x-signature"})

-----------------------------------------------------------------------------
Init ==
    /\ channel \in Channels /\ secrets \in Secrets
    /\ seen = {} /\ handled = [m \in Messages |-> 0] /\ calls = 0
    /\ last = [m |-> CHOOSE m \in Messages : TRUE, shown |-> {}, answer |-> "none"]

Answer(m, shown, answer) ==
    /\ calls < MaxCalls /\ calls' = calls + 1
    /\ last' = [m |-> m, shown |-> shown, answer |-> answer]
    /\ UNCHANGED <<channel, secrets>>

refuseWebhook(m, shown) ==
    /\ ~authenticateWebhook(shown) \/ ~verifySignature(shown)
    /\ Answer(m, shown, "refused") /\ UNCHANGED <<seen, handled>>

Envelope(m) == normalizeWebhook(Body[channel][m])

\* A key is set for the message's identity before the message is handled; a
\* message without an identity gets a new one at every call.
handleWebhook(m, shown) ==
    /\ authenticateWebhook(shown) /\ verifySignature(shown)
    /\ Envelope(m) # NoEnvelope
    /\ IF Envelope(m).id \in seen \ {Fresh}
       THEN Answer(m, shown, "duplicate_message") /\ UNCHANGED <<seen, handled>>
       ELSE /\ Answer(m, shown, "accepted") /\ seen' = seen \cup {Envelope(m).id}
            /\ handled' = [handled EXCEPT ![m] = @ + 1]

Next == \E m \in Messages, shown \in Shown : refuseWebhook(m, shown) \/ handleWebhook(m, shown)

Spec == Init /\ [][Next]_vars

-----------------------------------------------------------------------------
TypeOK ==
    /\ channel \in Channels /\ secrets \in Secrets /\ calls \in 0..MaxCalls
    /\ handled \in [Messages -> 0..MaxCalls]
    /\ last.answer \in {"none", "refused", "duplicate_message", "accepted"}

\* A provider that names its messages may repeat a call: the message is handled
\* once, whichever of the channel's fields the name is found in (createEnvelope).
RepeatsAreDropped ==
    \A m \in Messages : handled[m] > 1 => DOMAIN Body[channel][m].strings \cap Names = {}

\* A message is dropped as a repetition only if it is one: no two messages of a
\* channel share their identity (the adapters' providerMessageId).
OnlyRepeatsAreDropped == last.answer = "duplicate_message" => handled[last.m] > 0

\* A message written in a group never passes for a direct message, which other
\* rules admit, nor the reverse (normalizeMessageEvent and each adapter's test).
GroupsStayGroups ==
    \A m \in Messages : handled[m] > 0 =>
        (Envelope(m).event = "message.dm" <=> Body[channel][m].private)

\* An account with its channel's secret lets no call in that shows nothing
\* (authenticateWebhook of every adapter).
AnonymousIsRefused ==
    last.answer = "accepted" /\ KeyOf[channel] \in secrets => last.shown # {}

\* Not so: a call that satisfies its channel's adapter is let in.  The manager
\* asks for the webhook secret again, in a header no provider sends.
AdapterDecides == last.answer = "refused" => ~authenticateWebhook(last.shown)

\* Not so for whatsapp, irc and nostr, where the conversation of a private
\* message is the bot's own address: two senders never share a conversation.
ConversationsSeparate ==
    \A m, n \in Messages :
        handled[m] > 0 /\ handled[n] > 0 /\ Envelope(m).conv = Envelope(n).conv
        => Chat[m] = Chat[n]
=============================================================================
