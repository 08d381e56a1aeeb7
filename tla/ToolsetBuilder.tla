---------------------------- MODULE ToolsetBuilder ----------------------------
(***************************************************************************)
(* The conversation in which a language model helps to put a toolset       *)
(* together: a session is opened, chatted with and finalized, each request *)
(* a chain of store calls around a call of the model that may take 25      *)
(* seconds.  Everything may happen between two links of a chain: another   *)
(* request of the same session, the deletion of the secret, a model that   *)
(* fails, the loss of the process.                                         *)
(***************************************************************************)
EXTENDS Naturals, FiniteSets, Sequences, SequencesExt

CONSTANTS
    Slots,
    Sessions,       \* builder sessions that may be opened
    Keys,           \* components of the catalog a client or the model names
    Catalog,        \* those that exist
    Texts,          \* what a user says, and what the model answers
    Providers,
    Connectors,     \* per provider, the connectors whose secrets it accepts
    SecretOf,       \* the connector of each secret that may be stored
    Default,        \* per provider, the secret of the organization's engine defaults
    Managed,        \* providers with an API key of the service's own
    TurnLimit,      \* how many turns a request lists: 24
    TurnTail,       \* how many of those the model is shown: 12
    MaxTurns,       \* bounds the turns of a session
    None

VARIABLES
    secrets,        \* ids of the connector secrets stored
    builder,        \* per session: None or [status, provider, asked, selected, draft]
    turns,          \* per session: its turns, [role, text]
    req             \* the request a slot serves

vars == <<secrets, builder, turns, req>>

Init ==
    /\ secrets = DOMAIN SecretOf
    /\ builder = [b \in Sessions |-> None]
    /\ turns = [b \in Sessions |-> <<>>]
    /\ req = [s \in Slots |-> None]

deleteConnectorSecret(k) ==
    /\ k \in secrets
    /\ secrets' = secrets \ {k}
    /\ UNCHANGED <<builder, turns, req>>

Answer(s) == req' = [req EXCEPT ![s] = None]
At(s, stage) == req[s] # None /\ req[s].at = stage
Session(s) == builder[req[s].session]

(* The secret a request asks for, or the one of the engine its provider is linked to. *)
secretId(asked, provider) == IF asked # None THEN asked ELSE Default[provider]

(* The secrets are listed, and one whose connector fits is taken ... *)
secretMeta_AnyConnector(k, provider) == {x \in secrets : x = k}

secretMeta(k, provider) == {x \in secrets : x = k /\ SecretOf[x] \in Connectors[provider]}

(* ... and its value is read by another statement: gone since, it is an error. *)
resolveSecret(s, then) ==
    /\ At(s, "resolve")
    /\ LET k == secretId(req[s].asked, req[s].provider)
       IN  \/ k = None /\ req' = [req EXCEPT ![s].at = then, ![s].secret = None]
           \/ k # None /\ secretMeta(k, req[s].provider) # {}
                /\ req' = [req EXCEPT ![s].at = "load", ![s].secret = k]
           \/ k # None /\ secretMeta(k, req[s].provider) = {} /\ Answer(s)
    /\ UNCHANGED <<secrets, builder, turns>>

loadConnectorSecretValue(s, then) ==
    /\ At(s, "load")
    /\ IF req[s].secret \in secrets THEN req' = [req EXCEPT ![s].at = then] ELSE Answer(s)
    /\ UNCHANGED <<secrets, builder, turns>>

(* Turns are listed oldest first up to the limit; the model is shown the last of those. *)
listToolsetBuilderTurns(b) ==
    LET listed == SubSeq(turns[b], 1, IF Len(turns[b]) < TurnLimit THEN Len(turns[b]) ELSE TurnLimit)
    IN  SubSeq(listed, IF Len(listed) > TurnTail THEN Len(listed) - TurnTail + 1 ELSE 1, Len(listed))

Request(kind, at, b, provider, asked, text, keys) ==
    [kind |-> kind, at |-> at, session |-> b, provider |-> provider, asked |-> asked, secret |-> None,
     text |-> text, keys |-> keys, prompt |-> <<>>, draft |-> None]

(* A key the catalog does not have fails the request that names it. *)
normalizeSelectedComponentKeys(keys) == keys \subseteq Catalog

-----------------------------------------------------------------------------
(* POST /builder/sessions *)
openSession(s, b, provider, asked, intent) ==
    /\ req[s] = None /\ builder[b] = None
    /\ \A o \in Slots : req[o] # None => req[o].session # b
    /\ req' = [req EXCEPT ![s] = Request("open", "resolve", b, provider, asked, intent, {})]
    /\ UNCHANGED <<secrets, builder, turns>>

createToolsetBuilderSession(s) ==
    /\ At(s, "create")
    /\ builder' = [builder EXCEPT ![req[s].session] =
                     [status |-> "ACTIVE", provider |-> req[s].provider, asked |-> req[s].asked,
                      selected |-> {}, draft |-> None]]
    /\ req' = [req EXCEPT ![s].at = IF req[s].text = None THEN "reply" ELSE "say"]
    /\ UNCHANGED <<secrets, turns>>

(* POST /chat and /finalize: a FINALIZED session is refused. *)
chatMessage(s, b, text, keys) ==
    /\ req[s] = None /\ builder[b] # None /\ builder[b].status = "ACTIVE"
    /\ normalizeSelectedComponentKeys(keys)
    /\ req' = [req EXCEPT ![s] = Request("chat", "say", b, builder[b].provider, builder[b].asked, text, keys)]
    /\ UNCHANGED <<secrets, builder, turns>>

finalizeDraft(s, b, keys) ==
    /\ req[s] = None /\ builder[b] # None /\ builder[b].status = "ACTIVE"
    /\ normalizeSelectedComponentKeys(keys)
    /\ req' = [req EXCEPT ![s] = Request("finalize", "resolve", b, builder[b].provider, builder[b].asked, None, keys)]
    /\ UNCHANGED <<secrets, builder, turns>>

Say(b, role, text) ==
    /\ Len(turns[b]) < MaxTurns
    /\ turns' = [turns EXCEPT ![b] = Append(@, [role |-> role, text |-> text])]

userTurn_IntentOnly(s) ==
    /\ At(s, "say")
    /\ IF req[s].kind = "chat" THEN UNCHANGED turns ELSE Say(req[s].session, "USER", req[s].text)
    /\ req' = [req EXCEPT ![s].at = IF req[s].kind = "chat" THEN "resolve" ELSE "model"]
    /\ UNCHANGED <<secrets, builder>>

(* The user's words are stored before the model is asked, and stay if it fails. *)
userTurn(s) ==
    /\ At(s, "say")
    /\ Say(req[s].session, "USER", req[s].text)
    /\ req' = [req EXCEPT ![s].at = IF req[s].kind = "chat" THEN "resolve" ELSE "model"]
    /\ UNCHANGED <<secrets, builder>>

listTurns(s) ==
    /\ At(s, "turns")
    /\ req' = [req EXCEPT ![s].at = "model", ![s].prompt = listToolsetBuilderTurns(req[s].session)]
    /\ UNCHANGED <<secrets, builder, turns>>

MayCall(s) == req[s].secret # None \/ req[s].provider \in Managed

(* LLM_AUTH_NOT_CONFIGURED, LLM_UNAVAILABLE, or an answer that is not what was asked for. *)
modelFails(s) ==
    /\ At(s, "model")
    /\ Answer(s)
    /\ UNCHANGED <<secrets, builder, turns>>

(* The model suggests components, some of which it may have made up. *)
modelSuggests(s, text, suggested) ==
    /\ At(s, "model") /\ req[s].kind # "finalize" /\ MayCall(s)
    /\ IF normalizeSelectedComponentKeys(suggested)
       THEN req' = [req EXCEPT ![s].at = "reply", ![s].text = text,
                               ![s].keys = IF req[s].kind = "open" THEN suggested ELSE @ \cup suggested]
       ELSE Answer(s)
    /\ UNCHANGED <<secrets, builder, turns>>

modelDrafts_AllItSays(s, mentioned) ==
    /\ At(s, "model") /\ req[s].kind = "finalize" /\ MayCall(s)
    /\ req' = [req EXCEPT ![s].at = "finalize", ![s].draft = req[s].keys \cup mentioned]
    /\ UNCHANGED <<secrets, builder, turns>>

(* The model writes the skills; the servers are the catalog's, by the keys of the request. *)
modelDrafts(s, mentioned) ==
    /\ At(s, "model") /\ req[s].kind = "finalize" /\ MayCall(s)
    /\ req' = [req EXCEPT ![s].at = "finalize", ![s].draft = req[s].keys]
    /\ UNCHANGED <<secrets, builder, turns>>

assistantTurn(s) ==
    /\ At(s, "reply")
    /\ Say(req[s].session, "ASSISTANT", req[s].text)
    /\ req' = [req EXCEPT ![s].at = "select"]
    /\ UNCHANGED <<secrets, builder>>

(* The selection is written whatever the session's status is by now. *)
updateToolsetBuilderSessionSelection(s) ==
    /\ At(s, "select")
    /\ builder' = [builder EXCEPT ![req[s].session].selected = req[s].keys]
    /\ Answer(s)
    /\ UNCHANGED <<secrets, turns>>

finalizeToolsetBuilderSession(s) ==
    /\ At(s, "finalize")
    /\ builder' = [builder EXCEPT ![req[s].session].status = "FINALIZED",
                                  ![req[s].session].selected = req[s].keys,
                                  ![req[s].session].draft = req[s].draft]
    /\ Answer(s)
    /\ UNCHANGED <<secrets, turns>>

requestDies(s) ==
    /\ req[s] # None
    /\ Answer(s)
    /\ UNCHANGED <<secrets, builder, turns>>

AfterSecret(s) == IF req[s].kind = "open" THEN "create" ELSE "turns"

Next ==
    \/ \E k \in secrets : deleteConnectorSecret(k)
    \/ \E s \in Slots :
          \/ \E b \in Sessions :
                \/ \E p \in Providers, k \in DOMAIN SecretOf \cup {None}, t \in Texts \cup {None} : openSession(s, b, p, k, t)
                \/ \E t \in Texts, keys \in SUBSET Catalog : chatMessage(s, b, t, keys)
                \/ \E keys \in SUBSET Catalog : finalizeDraft(s, b, keys)
          \/ At(s, "resolve") /\ resolveSecret(s, AfterSecret(s))
          \/ At(s, "load") /\ loadConnectorSecretValue(s, AfterSecret(s))
          \/ createToolsetBuilderSession(s) \/ userTurn(s) \/ listTurns(s) \/ modelFails(s)
          \/ \E t \in Texts, keys \in SUBSET Keys : modelSuggests(s, t, keys)
          \/ \E keys \in SUBSET Keys : modelDrafts(s, keys)
          \/ assistantTurn(s) \/ updateToolsetBuilderSessionSelection(s)
          \/ finalizeToolsetBuilderSession(s) \/ requestDies(s)

Spec == Init /\ [][Next]_vars

-----------------------------------------------------------------------------
(* The key a model is called with is one stored for that provider or for    *)
(* the engine it is linked to, whatever the request, the session or the      *)
(* organization's defaults name (server.ts:5568).                            *)
KeysFitTheirProvider ==
    \A s \in Slots :
        At(s, "model") /\ req[s].secret # None => SecretOf[req[s].secret] \in Connectors[req[s].provider]

(* No component the model made up gets into a session's selection or draft:  *)
(* "The model does not invent MCP transport details."                        *)
(* (docs/contracts/toolsets.md:54).                                          *)
ComponentsAreTheCatalogs ==
    \A b \in Sessions : builder[b] # None =>
        /\ builder[b].selected \subseteq Catalog
        /\ builder[b].draft # None => builder[b].draft \subseteq Catalog

(* What is said in a session is answered at most once: the model's turns,    *)
(* but for the greeting, are no more than the user's.                        *)
Said(b, role) == {i \in DOMAIN turns[b] : turns[b][i].role = role /\ turns[b][i].text # None}
AnswersWereAsked ==
    \A b \in Sessions : Cardinality(Said(b, "ASSISTANT")) <= Cardinality(Said(b, "USER"))

(* A finalized session's selection is the one its draft was made of.         *)
DraftIsOfTheSelection ==
    \A b \in Sessions : builder[b] # None /\ builder[b].status = "FINALIZED"
        => builder[b].draft = builder[b].selected

(* The newest turn is among those the model is shown.                        *)
NewestIsShown ==
    \A s \in Slots : At(s, "turns") /\ turns[req[s].session] # <<>>
        => IsSuffix(listToolsetBuilderTurns(req[s].session), turns[req[s].session])
=============================================================================
