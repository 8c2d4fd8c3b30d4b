------------------------------- MODULE SignIn -------------------------------
(***************************************************************************)
(* Sign-in and application sessions: the /auth routes, the middleware that *)
(* admits every other versioned request, the auth.* SQL functions they     *)
(* call, provisioning, and the in-process OIDC provider.                   *)
(*                                                                         *)
(* A login's state, nonce and PKCE verifier are fresh random strings, so   *)
(* one element of Logins stands for all three.  A callback mints a fresh   *)
(* session token, so a token is named by its callback.  A CSRF token is a  *)
(* function of session token and deployment secret, so it is the pair of   *)
(* them.  Every function of the auth schema is one statement and one step  *)
(* here.                                                                   *)
(***************************************************************************)
EXTENDS Naturals, FiniteSets

CONSTANTS Logins, Codes, Callbacks, Requests,
          Subjects,        \* who may authenticate with the provider
          Planner,         \* the subject the seed script provisions
          Secrets,         \* values of CSRF_SECRET over the deployment's life
          HandshakeTTL, CodeTTL, SessionTTL,
          IdentityTTLs,    \* lifetimes the provider puts on an identity
          Horizon,         \* bound: the clock stops here
          None             \* SQL NULL, an absent row or header

ASSUME SignInAssumption ==
    /\ Planner \in Subjects
    /\ {HandshakeTTL, CodeTTL, SessionTTL, Horizon} \cup IdentityTTLs \subseteq Nat \ {0}

VARIABLES
    now,          \* the database's and the API's clock
    secret,       \* Settings.csrf_secret, re-read by every request
    user,         \* app_user: a singleton row
    member,       \* is its one membership active
    handshake,    \* auth.login_handshake
    code,         \* the provider's authorization codes
    callback,     \* the callback requests
    session,      \* auth.session_index, by token
    handed,       \* CSRF tokens GET /auth/session has answered with
    request       \* the versioned requests

signInVars == <<now, secret, user, member, handshake, code, callback, session, handed, request>>

Min2(a, b) == IF a < b THEN a ELSE b
Kinds == {"read", "write", "logout"}
CsrfToken == [token : Callbacks, secret : Secrets]
NoCsrf == None

\* The rows of the tables and of the provider's code store.
HandshakeRow == [expires : Nat, consumed : BOOLEAN]
CodeRow == [login : Logins, subject : Subjects, expires : Nat, used : BOOLEAN]
SessionRow == [expires : Nat, revoked : BOOLEAN, secret : Secrets]

\* NULL is no row and no token.
ASSUME NoneAssumption ==
    /\ None \notin HandshakeRow /\ None \notin CodeRow
    /\ None \notin SessionRow /\ None \notin CsrfToken

----------------------------------------------------------------------------
(* The user and its membership.  Only provisioning is code of this          *)
(* repository; an operator disables users and revokes memberships in SQL.   *)

ProvisionSeedPlanner ==
    /\ ~user.disabled
    /\ ~(user.exists /\ member)      \* a replay changes nothing
    /\ user' = [user EXCEPT !.exists = TRUE]
    /\ member' = TRUE
    /\ UNCHANGED <<now, secret, handshake, code, callback, session, handed, request>>

DisableUser ==
    /\ user.exists /\ ~user.disabled
    /\ user' = [user EXCEPT !.disabled = TRUE]
    /\ UNCHANGED <<now, secret, member, handshake, code, callback, session, handed, request>>

RevokeMembership ==
    /\ member
    /\ member' = FALSE
    /\ UNCHANGED <<now, secret, user, handshake, code, callback, session, handed, request>>

RotateSecret ==
    /\ \E s \in Secrets \ {secret} : secret' = s
    /\ UNCHANGED <<now, user, member, handshake, code, callback, session, handed, request>>

Tick ==
    /\ now < Horizon
    /\ now' = now + 1
    /\ UNCHANGED <<secret, user, member, handshake, code, callback, session, handed, request>>

----------------------------------------------------------------------------
(* Login, the provider, the callback.                                       *)

NewHandshake == [expires |-> now + HandshakeTTL, consumed |-> FALSE]

\* When the provider's URL cannot be built the
\* row stays and nobody follows it.
Login(l) ==
    /\ handshake[l] = None
    /\ handshake' = [handshake EXCEPT ![l] = NewHandshake]
    /\ UNCHANGED <<now, secret, user, member, code, callback, session, handed, request>>

\* The browser follows the authorization URL of l, perhaps again, and someone
\* signs in.
Authorize(l) ==
    /\ handshake[l] # None
    /\ \E s \in Subjects, c \in Codes :
          /\ code[c] = None
          /\ code' = [code EXCEPT ![c] =
                [login |-> l, subject |-> s, expires |-> now + CodeTTL, used |-> FALSE]]
    /\ UNCHANGED <<now, secret, user, member, handshake, callback, session, handed, request>>

HandshakeUsableTwice(l) == handshake[l] # None /\ handshake[l].expires > now
HandshakeUsable(l) == handshake[l] # None /\ ~handshake[l].consumed /\ handshake[l].expires > now

\* The browser presents state l and some code: its own, or the one another
\* tab of the browser was sent back with.
ConsumeHandshake(k) ==
    /\ callback[k].pc = "idle"
    /\ \E l \in Logins, c \in Codes :
          /\ handshake[l] # None /\ code[c] # None
          /\ IF HandshakeUsable(l)
             THEN /\ handshake' = [handshake EXCEPT ![l].consumed = TRUE]
                  /\ callback' = [callback EXCEPT ![k] =
                         [@ EXCEPT !.pc = "consumed", !.login = l, !.code = c]]
             ELSE /\ callback' = [callback EXCEPT ![k].pc = "invalid_login_handshake"]
                  /\ UNCHANGED handshake
    /\ UNCHANGED <<now, secret, user, member, code, session, handed, request>>

\* _consume_code and the nonce check: the verifier of login l opens only the
\* code minted from l's challenge, and the code is gone whatever happens.
CodeAccepted(c, l) == ~code[c].used /\ code[c].login = l /\ code[c].expires > now

SessionExpiry(identity) == Min2(now + SessionTTL, identity)

ExchangeCode(k) ==
    LET c == callback[k].code  l == callback[k].login
    IN  /\ callback[k].pc = "consumed"
        /\ code' = [code EXCEPT ![c].used = TRUE]
        /\ \/ /\ CodeAccepted(c, l)
              /\ \E ttl \in IdentityTTLs :
                    callback' = [callback EXCEPT ![k] = [@ EXCEPT
                        !.pc = "identified", !.subject = code[c].subject,
                        !.identity = now + ttl, !.expires = SessionExpiry(now + ttl)]]
           \/ /\ ~CodeAccepted(c, l)
              /\ callback' = [callback EXCEPT ![k].pc = "oidc_identity_rejected"]
        /\ UNCHANGED <<now, secret, user, member, handshake, session, handed, request>>

Provisioned(s) == s = Planner /\ user.exists /\ ~user.disabled /\ member

EstablishSession(k) ==
    /\ callback[k].pc = "identified"
    /\ IF Provisioned(callback[k].subject)
       THEN /\ session' = [session EXCEPT ![k] =
                   [expires |-> callback[k].expires, revoked |-> FALSE, secret |-> secret]]
            /\ callback' = [callback EXCEPT ![k].pc = "signed in"]
       ELSE /\ callback' = [callback EXCEPT ![k].pc = "identity_not_provisioned"]
            /\ UNCHANGED session
    /\ UNCHANGED <<now, secret, user, member, handshake, code, handed, request>>

\* The session store fails: the handshake and the code are spent all the same.
StoreFails(k) ==
    /\ callback[k].pc = "identified"
    /\ callback' = [callback EXCEPT ![k].pc = "session_store_unavailable"]
    /\ UNCHANGED <<now, secret, user, member, handshake, code, session, handed, request>>

----------------------------------------------------------------------------
(* Requests that carry a session cookie.                                    *)

Over(k) == session[k].revoked \/ session[k].expires <= now

\* auth.resolve_session joins the session with the user and the membership.
ResolveSessionRevoked(k) ==
    session[k] # None /\ session[k].expires > now /\ user.exists /\ ~user.disabled /\ member
ResolveSession(k) ==
    session[k] # None /\ ~Over(k) /\ user.exists /\ ~user.disabled /\ member

DerivedMatches(k) == session[k].secret = secret

ReadSession(k) ==
    /\ session[k] # None /\ ResolveSession(k) /\ DerivedMatches(k)
    /\ handed' = handed \cup {[token |-> k, secret |-> secret]}
    /\ UNCHANGED <<now, secret, user, member, handshake, code, callback, session, request>>

\* The browser sends a request under cookie k; the page adds a CSRF token it
\* was handed, for this session or an earlier one, or none.
Send(r) ==
    /\ request[r].pc = "idle"
    /\ \E k \in Callbacks, kind \in Kinds, csrf \in handed \cup {NoCsrf}, own \in BOOLEAN :
          /\ session[k] # None
          /\ request' = [request EXCEPT ![r] =
                [pc |-> "sent", token |-> k, kind |-> kind, csrf |-> csrf, own |-> own,
                 late |-> Over(k), at |-> now]]
    /\ UNCHANGED <<now, secret, user, member, handshake, code, callback, session, handed>>

CsrfValid(q) ==
    /\ q.own
    /\ q.csrf # NoCsrf
    /\ q.csrf = [token |-> q.token, secret |-> session[q.token].secret]

\* enforce_versioned_session_and_csrf
Middleware(r) ==
    LET q == request[r]
    IN  /\ q.pc = "sent"
        /\ request' = [request EXCEPT ![r] = [@ EXCEPT !.at = now, !.pc =
              IF ~ResolveSession(q.token) THEN "authentication_required"
              ELSE IF q.kind # "read" /\ ~CsrfValid(q) THEN "csrf_validation_failed"
              ELSE "admitted"]]
        /\ UNCHANGED <<now, secret, user, member, handshake, code, callback, session, handed>>

RevokeSession(k) == [session EXCEPT ![k].revoked = TRUE]

\* The handler runs on the session the middleware left in request.state.
Serve(r) ==
    /\ request[r].pc = "admitted"
    /\ request' = [request EXCEPT ![r].pc = "served"]
    /\ session' = IF request[r].kind = "logout"
                  THEN RevokeSession(request[r].token) ELSE session
    /\ UNCHANGED <<now, secret, user, member, handshake, code, callback, handed>>

----------------------------------------------------------------------------
SignInInit ==
    /\ now = 0
    /\ secret \in Secrets
    /\ user = [exists |-> FALSE, disabled |-> FALSE]
    /\ member = FALSE
    /\ handshake = [l \in Logins |-> None]
    /\ code = [c \in Codes |-> None]
    /\ callback = [k \in Callbacks |-> [pc |-> "idle", login |-> None, code |-> None,
                                        subject |-> None, identity |-> 0, expires |-> 0]]
    /\ session = [k \in Callbacks |-> None]
    /\ handed = {}
    /\ request = [r \in Requests |-> [pc |-> "idle", token |-> None, kind |-> "read",
                                      csrf |-> NoCsrf, own |-> FALSE, late |-> FALSE, at |-> 0]]

SignInNext ==
    \/ ProvisionSeedPlanner \/ DisableUser \/ RevokeMembership \/ RotateSecret \/ Tick
    \/ \E l \in Logins : Login(l) \/ Authorize(l)
    \/ \E k \in Callbacks :
          ConsumeHandshake(k) \/ ExchangeCode(k) \/ EstablishSession(k) \/ StoreFails(k)
          \/ ReadSession(k)
    \/ \E r \in Requests : Send(r) \/ Middleware(r) \/ Serve(r)

SignInSpec == SignInInit /\ [][SignInNext]_signInVars

----------------------------------------------------------------------------
\* Types, and that the session table holds exactly the sessions whose callback
\* answered with a cookie (auth.establish_session_for_subject).
SignInTypeOK ==
    /\ now \in 0..Horizon /\ secret \in Secrets /\ member \in BOOLEAN
    /\ user \in [exists : BOOLEAN, disabled : BOOLEAN]
    /\ handed \subseteq CsrfToken
    /\ \A l \in Logins : handshake[l] # None => handshake[l].expires \in Nat
    /\ \A c \in Codes : code[c] # None => code[c].subject \in Subjects
    /\ \A k \in Callbacks : session[k] # None <=> callback[k].pc = "signed in"
    /\ \A r \in Requests : request[r].kind \in Kinds /\ request[r].at \in 0..now

\* A sign-in creates at most one session, however often the browser repeats the
\* callback and however the repeats interleave (consume_login_handshake).
OneSessionPerSignIn ==
    \A j, k \in Callbacks :
        (session[j] # None /\ session[k] # None /\ callback[j].login = callback[k].login) => j = k

\* Two sign-ins crossing in one browser never exchange their identities: a
\* session belongs to whoever answered the login its state names, also when
\* the code came from the other tab (PKCE verifier and nonce of the handshake).
SessionForWhoSignedIn ==
    \A k \in Callbacks : session[k] # None =>
        LET c == code[callback[k].code]
        IN  c.login = callback[k].login /\ c.subject = Planner

\* No request is served on a session after the provider's identity ran out,
\* nor later than the session's own lifetime (callback's min of the two).
ServedWithinIdentity ==
    \A r \in Requests : request[r].pc \in {"admitted", "served"} =>
        request[r].at < callback[request[r].token].identity

\* A request sent after its session was signed out or ran out is never served,
\* whatever other requests of the session are still in flight, and whether or
\* not the membership was revoked and provisioned again in between.
SignedOutStaysOut ==
    \A r \in Requests : request[r].pc \in {"admitted", "served"} => ~request[r].late

\* The CSRF token GET /auth/session answers with is one the middleware accepts
\* for that session, across a change of the deployment's secret: a page that
\* uses its own token is never told csrf_validation_failed.
HandedTokenWorks ==
    \A r \in Requests :
        LET q == request[r]
        IN  q.pc = "csrf_validation_failed" /\ q.own /\ q.csrf # NoCsrf =>
                q.csrf.token # q.token

\* A page left over from an earlier session cannot write, or sign out, under the
\* cookie of the session that replaced it.
WritesUnderOwnSession ==
    \A r \in Requests :
        LET q == request[r]
        IN  q.pc = "served" /\ q.kind # "read" => (q.csrf # NoCsrf /\ q.csrf.token = q.token)

\* A session is earned by one sign-in of the planner, lasts no longer than the
\* identity behind it and cannot be written to from another session's page.
SessionIsEarned ==
    /\ SignInTypeOK /\ OneSessionPerSignIn /\ SessionForWhoSignedIn
    /\ ServedWithinIdentity /\ WritesUnderOwnSession

\* A session that has ended admits nobody, and one that has not admits its page.
SessionEndsForAll == SignedOutStaysOut /\ HandedTokenWorks
=============================================================================
