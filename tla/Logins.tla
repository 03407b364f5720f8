------------------------------- MODULE Logins -------------------------------
(***************************************************************************)
(* Login and logout, from the browser's click to the cookie it ends up     *)
(* with.  The API runs a login as statements that commit one by one: find  *)
(* the user, look for an invite, create the session, record the attempt,   *)
(* record the audit event; then it answers.  Logout reads the session's    *)
(* user, revokes, audits, and clears the cookie.                           *)
(*                                                                         *)
(* A browser has several requests under way, in several tabs; every answer *)
(* sets, clears or leaves alone the one cookie they share, in whatever     *)
(* order the answers arrive.  A statement that fails, or a connection that *)
(* is lost, ends a request with nothing undone.                            *)
(***************************************************************************)
EXTENDS Integers, Sequences, FiniteSets

CONSTANTS
  Browsers,
  Users,           \* accounts, each named by its email
  Admins,
  NoUser,
  Invited,         \* emails of a pending invite
  Strangers,       \* other emails
  Tabs,            \* requests under way at once
  MaxSessions,     \* bound: sessions opened
  MaxRequests,     \* bound: requests sent
  MaxFaults        \* bound: statements that fail and answers that are lost

Emails == Users \cup Invited \cup Strangers

ASSUME LoginsAssumption ==
  /\ Admins \subseteq Users
  /\ NoUser \notin Emails
  /\ IsFiniteSet(Tabs)
  /\ {MaxSessions, MaxRequests, MaxFaults} \subseteq Nat

VARIABLES
  sessions,        \* user_sessions, in id order; browser and handed are history
  disabled,        \* users with a disabled_at
  cookie,          \* the session token each browser presents, 0 when it has none
  attempts,        \* the number of auth_login_attempts by email and outcome
  audits,          \* the number of audit_events by actor and action
  request,         \* what each tab has asked for
  used             \* how much of each bound is spent

vars == <<sessions, disabled, cookie, attempts, audits, request, used>>

Tokens == 0..MaxSessions

Outcomes == {"success", "invalid_credentials", "invite_required", "user_disabled"}
Actions == {"auth.login", "auth.login_failed", "auth.logout"}

\* answer is the Set-Cookie of the response: none, {0} to clear, {t} to set.
NoRequest ==
  [kind |-> "none", browser |-> NoUser, token |-> 0, email |-> NoUser, right |-> FALSE,
   outcome |-> "none", user |-> NoUser, answer |-> {}, step |-> "idle"]

Init ==
  /\ sessions = <<>>
  /\ disabled = {}
  /\ cookie = [b \in Browsers |-> 0]
  /\ attempts = [e \in Emails |-> [o \in Outcomes |-> 0]]
  /\ audits = [u \in Users \cup {NoUser} |-> [a \in Actions |-> 0]]
  /\ request = [r \in Tabs |-> NoRequest]
  /\ used = [requests |-> 0, faults |-> 0]

Live == {t \in DOMAIN sessions : sessions[t].live}

\* findUserBySessionTokenHash: the user of a token that is neither revoked nor
\* expired, if the user is not disabled.
CurrentUser(t) == {u \in Users \ disabled : t \in Live /\ sessions[t].user = u}

GoTo(r, label) == request' = [request EXCEPT ![r].step = label]

-----------------------------------------------------------------------------
\* What a browser sends.

Send(r, kind, b, email, right, label) ==
  /\ request[r].step = "idle"
  /\ used.requests < MaxRequests
  /\ used' = [used EXCEPT !.requests = @ + 1]
  /\ request' = [request EXCEPT ![r] =
       [NoRequest EXCEPT !.kind = kind, !.browser = b, !.token = cookie[b],
                         !.email = email, !.right = right, !.step = label]]
  /\ UNCHANGED <<sessions, disabled, cookie, attempts, audits>>

\* The login form, or the API's client: an email and a password, right or wrong.
SendLogin(r, b, email, right) ==
  /\ right => email \in Users
  /\ Send(r, "login", b, email, right, "find")

\* The button of the admin page.
SendLogout(r, b) == Send(r, "logout", b, NoUser, FALSE, "who")

\* A request that asks who is signed in: /auth/me, or any guarded route.  admin
\* routes want the role as well.
SendGuarded(r, b, kind) == Send(r, kind, b, NoUser, FALSE, "who")

-----------------------------------------------------------------------------
\* POST /auth/login.

\* findUserByEmail.
Account(email) == {u \in Users : u = email}

\* What the row alone decides: a disabled user is refused before the password
\* is looked at.
Verdict(q) ==
  CASE q.email \in disabled -> "user_disabled"
    [] q.email \notin disabled /\ ~q.right -> "invalid_credentials"
    [] OTHER -> "success"

\* Nothing else reads the user again before the session is there.
FindUser(r) ==
  LET q == request[r] IN
  /\ q.step = "find"
  /\ \/ /\ Account(q.email) = {}
        /\ GoTo(r, "invite")
     \/ \E u \in Account(q.email) :
          request' = [request EXCEPT ![r] =
            IF Verdict(q) = "success"
            THEN [q EXCEPT !.outcome = "success", !.user = u, !.step = "open"]
            ELSE [q EXCEPT !.outcome = Verdict(q), !.step = "record"]]
  /\ UNCHANGED <<sessions, disabled, cookie, attempts, audits, used>>

\* hasPendingInvite.
PendingInvite(email) == email \in Invited

LookForInvite(r) ==
  /\ request[r].step = "invite"
  /\ request' = [request EXCEPT
       ![r].outcome = IF PendingInvite(request[r].email) THEN "invite_required"
                      ELSE "invalid_credentials",
       ![r].step = "record"]
  /\ UNCHANGED <<sessions, disabled, cookie, attempts, audits, used>>

NewSession(q) == [user |-> q.user, browser |-> q.browser, live |-> TRUE, handed |-> FALSE]

\* createSession, with a fresh token.
CreateSession(r) ==
  /\ request[r].step = "open"
  /\ Len(sessions) < MaxSessions
  /\ sessions' = Append(sessions, NewSession(request[r]))
  /\ request' = [request EXCEPT ![r].token = Len(sessions) + 1, ![r].step = "record"]
  /\ UNCHANGED <<disabled, cookie, attempts, audits, used>>

\* recordLoginAttempt, for a success and for a refusal.
RecordLoginAttempt(r) ==
  /\ request[r].step = "record"
  /\ attempts' = [attempts EXCEPT ![request[r].email][request[r].outcome] = @ + 1]
  /\ GoTo(r, "audit")
  /\ UNCHANGED <<sessions, disabled, cookie, audits, used>>

-----------------------------------------------------------------------------
\* The session behind a cookie: POST /auth/logout, GET /auth/me, guarded routes.

\* Mutant of ClearsCookie: a user without the role loses the cookie too.
ClearsForReaders(q, users) == q.token # 0 /\ users \cap Admins = {}

\* A request whose cookie names no user's session has the cookie cleared; a
\* user without the role gets a 403 and keeps it.
ClearsCookie(q, users) == q.token # 0 /\ users = {}

UserOr(users, none) == IF users = {} THEN none ELSE CHOOSE u \in users : TRUE

\* currentUser; without a cookie there is no statement, and nothing to revoke.
FindSession(r) ==
  LET q == request[r]
      users == CurrentUser(q.token)
      found == [q EXCEPT !.user = UserOr(users, NoUser)]
      last == [found EXCEPT !.step = "answer"]
  IN  /\ q.step = "who"
      /\ request' = [request EXCEPT ![r] =
           IF q.kind = "logout"
           THEN IF q.token = 0 THEN [last EXCEPT !.answer = {0}] ELSE [found EXCEPT !.step = "revoke"]
           ELSE IF ClearsCookie(q, users) THEN [last EXCEPT !.answer = {0}] ELSE last]
      /\ UNCHANGED <<sessions, disabled, cookie, attempts, audits, used>>

\* After the revocation: the audit event, if the session had a user.
AfterRevoke(q) ==
  IF q.user # NoUser THEN [q EXCEPT !.step = "audit"]
  ELSE [q EXCEPT !.answer = {0}, !.step = "answer"]

\* Mutant of RevokeSession: the cookie is cleared without a revocation.
ForgetSession(r) ==
  /\ request[r].step = "revoke"
  /\ request' = [request EXCEPT ![r] = AfterRevoke(request[r])]
  /\ UNCHANGED <<sessions, disabled, cookie, attempts, audits, used>>

\* Mutant of RevokeSession: every session of the user is revoked.
RevokeByUser(r) ==
  /\ request[r].step = "revoke"
  /\ sessions' = [t \in DOMAIN sessions |->
                    IF sessions[t].user = sessions[request[r].token].user
                    THEN [sessions[t] EXCEPT !.live = FALSE] ELSE sessions[t]]
  /\ request' = [request EXCEPT ![r] = AfterRevoke(request[r])]
  /\ UNCHANGED <<disabled, cookie, attempts, audits, used>>

\* revokeSession: nothing to do for a token that is revoked or unknown.
RevokeSession(r) ==
  /\ request[r].step = "revoke"
  /\ sessions' = [sessions EXCEPT ![request[r].token].live = FALSE]
  /\ request' = [request EXCEPT ![r] = AfterRevoke(request[r])]
  /\ UNCHANGED <<disabled, cookie, attempts, audits, used>>

-----------------------------------------------------------------------------
\* The audit event and the answer.

\* The action, and the Set-Cookie of the answer that follows: a refusal has none.
ActionOf(q) ==
  CASE q.kind = "logout" -> "auth.logout"
    [] q.outcome = "success" -> "auth.login"
    [] OTHER -> "auth.login_failed"

CookieAfterAudit(q) ==
  CASE q.kind = "logout" -> {0}
    [] q.outcome = "success" -> {q.token}
    [] OTHER -> {}

\* recordAuditEvent; a refused login has no actor.
RecordAuditEvent(r) ==
  LET q == request[r] IN
  /\ q.step = "audit"
  /\ audits' = [audits EXCEPT ![q.user][ActionOf(q)] = @ + 1]
  /\ request' = [request EXCEPT ![r].answer = CookieAfterAudit(q), ![r].step = "answer"]
  /\ UNCHANGED <<sessions, disabled, cookie, attempts, used>>

\* What a browser keeps of the answer: the web server forwards its Set-Cookie,
\* with the API's status or with the redirect that follows a form.
CookieAfter(q, current) ==
  IF q.answer = {} THEN current ELSE CHOOSE t \in q.answer : TRUE

\* The response reaches the browser.
Answer(r) ==
  LET q == request[r] IN
  /\ q.step = "answer"
  /\ cookie' = [cookie EXCEPT ![q.browser] = CookieAfter(q, @)]
  /\ sessions' = [t \in DOMAIN sessions |->
                    IF t \in q.answer THEN [sessions[t] EXCEPT !.handed = TRUE] ELSE sessions[t]]
  /\ request' = [request EXCEPT ![r] = NoRequest]
  /\ UNCHANGED <<disabled, attempts, audits, used>>

\* Mutant of Fail: a login that fails after its session answers with the cookie.
FailWithCookie(r) ==
  /\ request[r].step # "idle"
  /\ used.faults < MaxFaults
  /\ used' = [used EXCEPT !.faults = @ + 1]
  /\ IF request[r].step = "audit" /\ request[r].outcome = "success"
     THEN request' = [request EXCEPT ![r].answer = {request[r].token}, ![r].step = "answer"]
     ELSE request' = [request EXCEPT ![r] = NoRequest]
  /\ UNCHANGED <<sessions, disabled, cookie, attempts, audits>>

\* A statement fails, and the answer is a 5xx without Set-Cookie; or the answer
\* is lost.  What the earlier statements did stays.
Fail(r) ==
  /\ request[r].step # "idle"
  /\ used.faults < MaxFaults
  /\ used' = [used EXCEPT !.faults = @ + 1]
  /\ request' = [request EXCEPT ![r] = NoRequest]
  /\ UNCHANGED <<sessions, disabled, cookie, attempts, audits>>

-----------------------------------------------------------------------------
\* Time and operators.

Expire(t) ==
  /\ t \in Live
  /\ sessions' = [sessions EXCEPT ![t].live = FALSE]
  /\ UNCHANGED <<disabled, cookie, attempts, audits, request, used>>

Disable(u) ==
  /\ u \notin disabled
  /\ disabled' = disabled \cup {u}
  /\ UNCHANGED <<sessions, cookie, attempts, audits, request, used>>

-----------------------------------------------------------------------------
RequestStep(r) ==
  \/ FindUser(r) \/ LookForInvite(r) \/ CreateSession(r) \/ RecordLoginAttempt(r)
  \/ FindSession(r) \/ RevokeSession(r)
  \/ RecordAuditEvent(r)
  \/ Answer(r)

Next ==
  \/ \E r \in Tabs, b \in Browsers :
       \/ \E email \in Emails, right \in BOOLEAN : SendLogin(r, b, email, right)
       \/ SendLogout(r, b)
       \/ \E kind \in {"me", "admin"} : SendGuarded(r, b, kind)
  \/ \E r \in Tabs : RequestStep(r) \/ Fail(r)
  \/ \E t \in Tokens : Expire(t)
  \/ \E u \in Users : Disable(u)

Spec == Init /\ [][Next]_vars

-----------------------------------------------------------------------------
\* Properties.

Sessions == INSTANCE AdminSessions

\* Whatever fails on the way, login and logout are the steps that AdminSessions
\* promises to the guarded routes: a token reaches one browser, once, and the
\* session behind it ends for ever, by that browser's logout or by time.
ImplementsSessions == Sessions!SessionSpec

SessionsOf(u, S) == Cardinality({t \in S : sessions[t].user = u})
LoggingIn(u, label) ==
  Cardinality({r \in Tabs : request[r].outcome = "success" /\ request[r].user = u
                              /\ request[r].step = label})

\* The order of the statements is what the tables can be trusted for: a token in
\* a browser has its audit event, an audited login its attempt, a successful
\* attempt its session; and only a fault leaves a session that nobody was
\* handed (login, POST /auth/login).
LoginsLeaveTraces ==
  \A u \in Users :
    LET handed == SessionsOf(u, {t \in DOMAIN sessions : sessions[t].handed})
        opened == SessionsOf(u, DOMAIN sessions)
        waiting == LoggingIn(u, "record") + LoggingIn(u, "audit") + LoggingIn(u, "answer")
    IN  /\ handed <= audits[u]["auth.login"]
        /\ audits[u]["auth.login"] <= attempts[u]["success"]
        /\ attempts[u]["success"] <= opened
        /\ opened <= handed + waiting + used.faults

\* A browser whose cookie a logout clears is not left signed in behind its back:
\* the session the logout was sent with is over when its answer is made
\* (docs/api/auth.md, POST /auth/logout).
LogoutsRevoke ==
  \A r \in Tabs : request[r].kind = "logout" /\ request[r].step \in {"audit", "answer"} =>
    request[r].token \notin Live

\* An answer takes a live session's cookie away only after a logout, or by a
\* login in the same browser, or when its request was sent under another cookie
\* or the user has been disabled: never just because a role is missing.
LiveCookiesStay ==
  [][\A b \in Browsers :
       cookie[b] \in Live /\ sessions[cookie[b]].user \notin disabled /\ cookie'[b] # cookie[b] =>
         \E r \in Tabs :
           /\ request[r].step = "answer" /\ request[r].browser = b
           /\ request[r].kind \in {"login", "logout"} \/ request[r].token # cookie[b]]_vars
=============================================================================
