------------------------------- MODULE Accounts -------------------------------
(***************************************************************************)
(* Accounts and sign-in sessions of the API (apps/api/src/server.ts): sign *)
(* up, log in, OAuth, the refresh cookie and its rotation, log out, log    *)
(* out everywhere, and the personal workspace that each of them ensures.   *)
(*                                                                         *)
(* A handler awaits the database between its steps, so the requests of one *)
(* browser and of several interleave at each; answers arrive in any order  *)
(* or not at all.  A token is the number of the rotation that signed it.   *)
(***************************************************************************)
EXTENDS Integers, FiniteSets

CONSTANTS
    Users,          \* people, each with one email address
    Browsers,       \* cookie jars
    Sessions,       \* bound: rows of auth_sessions
    States,         \* bound: OAuth states
    Requests,       \* requests in flight at once
    None,           \* no session
    MaxTokens,      \* bound: refresh tokens signed
    MaxOutages      \* bound: answers lost, database errors and API restarts

VARIABLES
    users,          \* users: who has an account
    session,        \* auth_sessions: user, current refresh token, state
    workspaces,     \* organizations owned through ensurePersonalWorkspace
    oauthStates,    \* the API's map of OAuth states
    jar,            \* each browser's cookie: a session and a token
    req,            \* the requests in flight
    tokens,         \* tokens signed so far
    outages,        \* what MaxOutages counts
    exchanged,      \* history: <<session, token>> rotated away
    signIns,        \* history: sessions each OAuth state produced
    disturbed       \* history: browsers that refreshed twice at once or lost an answer

vars == <<users, session, workspaces, oauthStates, jar, req, tokens, outages,
          exchanged, signIns, disturbed>>

Cookie == [s : Sessions \cup {None}, token : 0..MaxTokens]
NoCookie == [s |-> None, token |-> 0]
Idle == [pc |-> "idle", op |-> "none", b |-> None, u |-> None, state |-> None,
         cookie |-> NoCookie, bearer |-> FALSE, stale |-> "no", set |-> NoCookie]

Init ==
    /\ users = {}
    /\ session = [s \in Sessions |-> [user |-> None, token |-> 0, state |-> "none"]]
    /\ workspaces = [u \in Users |-> 0]
    /\ oauthStates = [x \in States |-> "none"]
    /\ jar = [b \in Browsers |-> NoCookie]
    /\ req = [r \in Requests |-> Idle]
    /\ tokens = 0 /\ outages = 0
    /\ exchanged = {} /\ signIns = [x \in States |-> 0] /\ disturbed = {}

Go(r, pc) == req' = [req EXCEPT ![r].pc = pc]
Refuse(r) == req' = [req EXCEPT ![r] = Idle]
Begin(r, f) == req[r].pc = "idle" /\ req' = [req EXCEPT ![r] = f]
Outage == outages < MaxOutages /\ outages' = outages + 1

-----------------------------------------------------------------------------
(* Sign up, log in and OAuth up to the user's row.                         *)

\* POST /v1/auth/signup: getUserByEmail, refused with a conflict.
signup(r, b, u) ==
    /\ u \notin users
    /\ Begin(r, [Idle EXCEPT !.pc = "create", !.op = "signup", !.b = b, !.u = u])
    /\ UNCHANGED <<users, session, workspaces, oauthStates, jar, tokens, outages,
                   exchanged, signIns, disturbed>>

\* POST /v1/auth/login: the row is there and the password matches.
login(r, b, u) ==
    /\ u \in users
    /\ Begin(r, [Idle EXCEPT !.pc = "session", !.op = "login", !.b = b, !.u = u])
    /\ UNCHANGED <<users, session, workspaces, oauthStates, jar, tokens, outages,
                   exchanged, signIns, disturbed>>

oauthStart(x) ==
    /\ oauthStates[x] = "none"
    /\ oauthStates' = [oauthStates EXCEPT ![x] = "issued"]
    /\ UNCHANGED <<users, session, workspaces, jar, req, tokens, outages, exchanged,
                   signIns, disturbed>>

Callback(r, b, x, u) ==
    [Idle EXCEPT !.pc = "exchange", !.op = "oauth", !.b = b, !.u = u, !.state = x]

\* Mutant: the state is deleted once the provider has answered.
oauthCallback_DeletesLate(r, b, x, u) ==
    /\ oauthStates[x] = "issued" /\ Begin(r, Callback(r, b, x, u))
    /\ UNCHANGED <<users, session, workspaces, oauthStates, jar, tokens, outages,
                   exchanged, signIns, disturbed>>

\* The callback reads and deletes its state before it awaits the provider.
oauthCallback(r, b, x, u) ==
    /\ oauthStates[x] = "issued" /\ Begin(r, Callback(r, b, x, u))
    /\ oauthStates' = [oauthStates EXCEPT ![x] = "used"]
    /\ UNCHANGED <<users, session, workspaces, jar, tokens, outages, exchanged,
                   signIns, disturbed>>

\* The provider names the profile; its user is looked up by email.
exchangeCode(r) ==
    /\ req[r].pc = "exchange"
    /\ Go(r, IF req[r].u \in users THEN "session" ELSE "create")
    /\ oauthStates' = [oauthStates EXCEPT ![req[r].state] = "used"]
    /\ UNCHANGED <<users, session, workspaces, jar, tokens, outages, exchanged,
                   signIns, disturbed>>

\* The email is unique: the second insert fails and its request with it.
createUser(r) ==
    /\ req[r].pc = "create"
    /\ IF req[r].u \in users THEN Refuse(r) ELSE Go(r, "session")
    /\ users' = users \cup {req[r].u}
    /\ UNCHANGED <<session, workspaces, oauthStates, jar, tokens, outages, exchanged,
                   signIns, disturbed>>

createSessionForUser(r, s) ==
    /\ req[r].pc = "session" /\ session[s].state = "none" /\ tokens < MaxTokens
    /\ tokens' = tokens + 1
    /\ session' = [session EXCEPT ![s] =
            [user |-> req[r].u, token |-> tokens + 1, state |-> "active"]]
    /\ req' = [req EXCEPT ![r].pc = "workspace", ![r].set = [s |-> s, token |-> tokens + 1]]
    /\ signIns' = IF req[r].op = "oauth" THEN [signIns EXCEPT ![req[r].state] = @ + 1]
                  ELSE signIns
    /\ UNCHANGED <<users, workspaces, oauthStates, jar, outages, exchanged, disturbed>>

\* ensurePersonalWorkspace lists the user's organizations ...
listOrganizationsForUser(r) ==
    /\ req[r].pc = "workspace"
    /\ Go(r, IF workspaces[req[r].u] > 0 THEN "answer" ELSE "createWorkspace")
    /\ UNCHANGED <<users, session, workspaces, oauthStates, jar, tokens, outages,
                   exchanged, signIns, disturbed>>

\* ... and creates one.  A slug that is taken is tried again with a random
\* suffix, so a second request that found none creates a second workspace.
ensurePersonalOrganization(r) ==
    /\ req[r].pc = "createWorkspace" /\ Go(r, "answer")
    /\ workspaces' = [workspaces EXCEPT ![req[r].u] = @ + 1]
    /\ UNCHANGED <<users, session, oauthStates, jar, tokens, outages, exchanged,
                   signIns, disturbed>>

\* Mutant: the error is swallowed.
workspaceFails_Swallowed(r) ==
    /\ req[r].pc = "createWorkspace" /\ Outage /\ Go(r, "answer")
    /\ UNCHANGED <<users, session, workspaces, oauthStates, jar, tokens, exchanged,
                   signIns, disturbed>>

\* The third attempt fails: an error is answered, with the cookie already set.
workspaceFails(r) ==
    /\ req[r].pc = "createWorkspace" /\ Outage /\ Go(r, "answerError")
    /\ UNCHANGED <<users, session, workspaces, oauthStates, jar, tokens, exchanged,
                   signIns, disturbed>>

-----------------------------------------------------------------------------
(* Requests of a browser that is signed in.                                *)

Stale(c, bearer) ==
    IF session[c.s].state = "revoked" THEN "revoked"
    ELSE IF ~bearer /\ <<c.s, c.token>> \in exchanged THEN "exchanged" ELSE "no"

InFlight(b, op) == \E q \in Requests : req[q].b = b /\ req[q].op = op

\* A refresh presents the cookie; any other request the cookie or the access
\* token of the same session.
SignedIn(r, b, op, bearer) ==
    /\ jar[b].s # None /\ (op = "refresh" => ~bearer)
    /\ Begin(r, [Idle EXCEPT !.pc = "authenticate", !.op = op, !.b = b, !.bearer = bearer,
                             !.cookie = jar[b], !.u = session[jar[b].s].user,
                             !.stale = Stale(jar[b], bearer)])
    /\ disturbed' = IF op = "refresh" /\ InFlight(b, op) THEN disturbed \cup {b} ELSE disturbed
    /\ UNCHANGED <<users, session, workspaces, oauthStates, jar, tokens, outages,
                   exchanged, signIns>>

SessionActive(s) == session[s].state = "active"

AfterAuthentication(op) ==
    CASE op = "refresh" -> "rotate" [] op = "logout" -> "revoke"
      [] op = "logoutAll" -> "revokeAll" [] op = "me" -> "workspace"

\* Mutant: the hash of the token presented is not compared.
authenticates_AnyToken(r) == SessionActive(req[r].cookie.s)

\* The session is active and, for the cookie, its hash is the row's.
authenticates(r) ==
    /\ SessionActive(req[r].cookie.s)
    /\ req[r].bearer \/ session[req[r].cookie.s].token = req[r].cookie.token

Authenticate(r) ==
    /\ req[r].pc = "authenticate"
    /\ IF authenticates(r) THEN Go(r, AfterAuthentication(req[r].op)) ELSE Refuse(r)
    /\ UNCHANGED <<users, session, workspaces, oauthStates, jar, tokens, outages,
                   exchanged, signIns, disturbed>>

Rotation(r, row, cookie) ==
    /\ req[r].pc = "rotate" /\ tokens < MaxTokens /\ tokens' = tokens + 1
    /\ session' = [session EXCEPT ![req[r].cookie.s] = row]
    /\ req' = [req EXCEPT ![r].pc = "answer", ![r].set = cookie]
    /\ exchanged' = exchanged \cup {<<req[r].cookie.s, session[req[r].cookie.s].token>>}
    /\ UNCHANGED <<users, workspaces, oauthStates, jar, outages, signIns, disturbed>>

NewCookie(r) == [req[r].cookie EXCEPT !.token = tokens + 1]

\* Mutants: the update revives the row; the cookie set is the one presented.
rotateSessionRefreshToken_Revives(r) ==
    Rotation(r, [session[req[r].cookie.s] EXCEPT !.token = tokens + 1, !.state = "active"],
             NewCookie(r))
rotateSessionRefreshToken_OldCookie(r) ==
    Rotation(r, [session[req[r].cookie.s] EXCEPT !.token = tokens + 1], req[r].cookie)

\* The update asks for the row's id alone: of two refreshes that read the same
\* token the second replaces the first one's; revokedAt stays as it is.
rotateSessionRefreshToken(r) ==
    Rotation(r, [session[req[r].cookie.s] EXCEPT !.token = tokens + 1, !.state =
                    IF @ = "expired" THEN "active" ELSE @], NewCookie(r))

Revoke(S) == session' = [s \in Sessions |->
    IF s \in S /\ session[s].state \in {"active", "expired"}
    THEN [session[s] EXCEPT !.state = "revoked"] ELSE session[s]]

logout(r) ==
    /\ req[r].pc = "revoke" /\ Go(r, "answerClear") /\ Revoke({req[r].cookie.s})
    /\ UNCHANGED <<users, workspaces, oauthStates, jar, tokens, outages, exchanged,
                   signIns, disturbed>>

logoutAll(r) ==
    /\ req[r].pc = "revokeAll" /\ Go(r, "answerClear")
    /\ Revoke({s \in Sessions : session[s].user = req[r].u})
    /\ UNCHANGED <<users, workspaces, oauthStates, jar, tokens, outages, exchanged,
                   signIns, disturbed>>

-----------------------------------------------------------------------------
(* Answers, time and the API's process.                                    *)

Answers == {"answer", "answerError", "answerClear"}

\* The answer reaches the browser, which takes the cookie it sets or clears.
Answer(r) ==
    /\ req[r].pc \in Answers
    /\ jar' = [jar EXCEPT ![req[r].b] =
            IF req[r].pc = "answerClear" THEN NoCookie
            ELSE IF req[r].set.s # None THEN req[r].set ELSE @]
    /\ Refuse(r)
    /\ UNCHANGED <<users, session, workspaces, oauthStates, tokens, outages, exchanged,
                   signIns, disturbed>>

AnswerLost(r) ==
    /\ req[r].pc \in Answers /\ Outage /\ Refuse(r)
    /\ disturbed' = disturbed \cup {req[r].b}
    /\ UNCHANGED <<users, session, workspaces, oauthStates, jar, tokens, exchanged, signIns>>

\* expiresAt passes.
SessionExpires(s) ==
    /\ SessionActive(s)
    /\ session' = [session EXCEPT ![s].state = "expired"]
    /\ UNCHANGED <<users, workspaces, oauthStates, jar, req, tokens, outages, exchanged,
                   signIns, disturbed>>

\* The process restarts: its requests end and its OAuth states are gone.
ApiRestarts ==
    /\ Outage
    /\ disturbed' = disturbed \cup {req[r].b : r \in {q \in Requests : req[q].pc # "idle"}}
    /\ req' = [r \in Requests |-> Idle]
    /\ oauthStates' = [x \in States |-> IF oauthStates[x] = "issued" THEN "used"
                                        ELSE oauthStates[x]]
    /\ UNCHANGED <<users, session, workspaces, jar, tokens, exchanged, signIns>>

RequestStep(r) ==
    \/ exchangeCode(r) \/ createUser(r) \/ \E s \in Sessions : createSessionForUser(r, s)
    \/ listOrganizationsForUser(r) \/ ensurePersonalOrganization(r) \/ workspaceFails(r)
    \/ Authenticate(r) \/ rotateSessionRefreshToken(r) \/ logout(r) \/ logoutAll(r)
    \/ Answer(r) \/ AnswerLost(r)

Next ==
    \/ \E r \in Requests :
        \/ RequestStep(r)
        \/ \E b \in Browsers, u \in Users :
            \/ signup(r, b, u) \/ login(r, b, u)
            \/ \E x \in States : oauthCallback(r, b, x, u)
        \/ \E b \in Browsers, op \in {"refresh", "logout", "logoutAll", "me"},
              bearer \in BOOLEAN : SignedIn(r, b, op, bearer)
    \/ \E x \in States : oauthStart(x)
    \/ \E s \in Sessions : SessionExpires(s)
    \/ ApiRestarts

Spec == Init /\ [][Next]_vars

-----------------------------------------------------------------------------
(* Properties.                                                             *)

TypeOK ==
    /\ users \subseteq Users
    /\ session \in [Sessions -> [user : Users \cup {None}, token : 0..MaxTokens,
                                 state : {"none", "active", "revoked", "expired"}]]
    /\ workspaces \in [Users -> Nat]
    /\ oauthStates \in [States -> {"none", "issued", "used"}]
    /\ jar \in [Browsers -> Cookie]
    /\ \A r \in Requests : req[r].cookie \in Cookie /\ req[r].set \in Cookie
    /\ tokens \in 0..MaxTokens /\ outages \in 0..MaxOutages
    /\ exchanged \subseteq Sessions \X (0..MaxTokens) /\ disturbed \subseteq Browsers

Authenticated(r) == req[r].pc \notin {"idle", "authenticate", "create", "session", "exchange"}
                    /\ req[r].cookie.s # None

\* A request that begins after its session was revoked is never let in,
\* whatever refresh of that session was under way when it was revoked
\* (logout against authenticateFromRefreshCookie's read and update).
RevokedStaysOut == \A r \in Requests : Authenticated(r) => req[r].stale # "revoked"

\* A cookie that a refresh has exchanged lets in no request that begins
\* afterwards; two refreshes may still both have begun before.
ExchangedStaysOut == \A r \in Requests : Authenticated(r) => req[r].stale # "exchanged"

\* A browser that lost no answer and never had two refreshes under way holds
\* the token its session's row has, so long as that session is active: what
\* rotateSessionRefreshToken stores and what setSessionCookie sends agree.
CookieIsCurrent ==
    \A b \in Browsers :
        (/\ b \notin disturbed /\ jar[b].s # None /\ SessionActive(jar[b].s)
         /\ \A r \in Requests : req[r].b # b)
        => jar[b].token = session[jar[b].s].token

\* One OAuth state signs in at most once, however many callbacks present it.
OAuthStateOnce == \A x \in States : signIns[x] <= 1

\* Whoever is answered without an error, at any way in, has a workspace.
AnsweredHasWorkspace ==
    \A r \in Requests :
        req[r].pc = "answer" /\ req[r].op # "refresh" => workspaces[req[r].u] > 0

\* A user has at most one personal workspace (violated: two first requests).
OneWorkspace == \A u \in Users : workspaces[u] <= 1
=============================================================================
