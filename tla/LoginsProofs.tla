---------------------------- MODULE LoginsProofs ----------------------------
(***************************************************************************)
(* Proofs about Logins, for any browsers, accounts, tabs, requests and     *)
(* faults: the traces that logins leave, what a logout has revoked when it *)
(* answers, which cookies an answer may take away, and that all of it is   *)
(* the protocol that AdminSessions promises.                               *)
(*                                                                         *)
(* The inductive invariant says what each request under way may rely on    *)
(* while other requests, time and operators change the sessions: a login's *)
(* session is its own until its answer hands it over (TokensApart), and    *)
(* every other token in a request or a cookie was handed to that browser.  *)
(***************************************************************************)
EXTENDS Logins, TLAPS, FiniteSetTheorems

Session == [user : Users, browser : Browsers, live : BOOLEAN, handed : BOOLEAN]

Request ==
  [kind : {"none", "login", "logout", "me", "admin"}, browser : Browsers \cup {NoUser},
   token : Tokens, email : Emails \cup {NoUser}, right : BOOLEAN, outcome : Outcomes \cup {"none"},
   user : Users \cup {NoUser}, answer : SUBSET Tokens,
   step : {"idle", "find", "invite", "open", "record", "who", "revoke", "audit", "answer"}]

Types ==
  /\ sessions \in Seq(Session) /\ Len(sessions) <= MaxSessions
  /\ disabled \subseteq Users
  /\ cookie \in [Browsers -> Tokens]
  /\ attempts \in [Emails -> [Outcomes -> Nat]]
  /\ audits \in [Users \cup {NoUser} -> [Actions -> Nat]]
  /\ request \in [Tabs -> Request]
  /\ used \in [requests : Nat, faults : Nat]

\* The browser holds the token, or has held it.
HandedTo(t, b) == t \in DOMAIN sessions /\ sessions[t].handed /\ sessions[t].browser = b

\* A login that has opened its session, and not yet answered.
Opened(q) == q.kind = "login" /\ q.outcome = "success" /\ q.step \in {"record", "audit", "answer"}

\* The session of such a login has been handed to nobody.
Unhanded(q) ==
  /\ q.token \in DOMAIN sessions
  /\ ~sessions[q.token].handed
  /\ sessions[q.token].user = q.user
  /\ sessions[q.token].browser = q.browser

LoginOK(q) ==
  /\ q.step \in {"find", "invite", "open", "record", "audit", "answer"}
  /\ q.email \in Emails
  /\ q.step = "find" /\ q.right => q.email \in Users
  /\ q.step \in {"find", "invite"} => q.outcome = "none"
  /\ q.step = "open" => q.outcome = "success"
  /\ q.step \in {"record", "audit", "answer"} => q.outcome \in Outcomes
  /\ q.outcome = "success" => q.user \in Users /\ q.user = q.email
  /\ Opened(q) => Unhanded(q)
  /\ q.answer = IF q.step = "answer" /\ q.outcome = "success" THEN {q.token} ELSE {}

LogoutOK(q) ==
  /\ q.step \in {"who", "revoke", "audit", "answer"}
  /\ q.outcome = "none"
  /\ q.token # 0 => HandedTo(q.token, q.browser)
  /\ q.step = "revoke" => q.token # 0
  /\ q.step \in {"audit", "answer"} => q.token \notin Live
  /\ q.answer = IF q.step = "answer" THEN {0} ELSE {}

AskOK(q) ==
  /\ q.step \in {"who", "answer"}
  /\ q.outcome = "none"
  /\ q.token # 0 => HandedTo(q.token, q.browser)
  /\ q.answer \in {{}, {0}}
  /\ q.answer = {0} => q.step = "answer" /\ q.token # 0 /\ CurrentUser(q.token) = {}

RequestOK(q) ==
  \/ q = NoRequest
  \/ q.kind = "login" /\ q.browser \in Browsers /\ LoginOK(q)
  \/ q.kind = "logout" /\ q.browser \in Browsers /\ LogoutOK(q)
  \/ q.kind \in {"me", "admin"} /\ q.browser \in Browsers /\ AskOK(q)

RequestsOK == \A r \in Tabs : RequestOK(request[r])

CookiesOK == \A b \in Browsers : cookie[b] # 0 => HandedTo(cookie[b], b)

TokensApart ==
  \A r, p \in Tabs :
    Opened(request[r]) /\ Opened(request[p]) /\ request[r].token = request[p].token => r = p

HandedSessions(u) == SessionsOf(u, {t \in DOMAIN sessions : sessions[t].handed})
OpenedSessions(u) == SessionsOf(u, DOMAIN sessions)

\* The inequalities of LoginsLeaveTraces, with the logins that are between the
\* statements.
TracesOf(u) ==
  /\ HandedSessions(u) + LoggingIn(u, "answer") <= audits[u]["auth.login"]
  /\ audits[u]["auth.login"] + LoggingIn(u, "audit") <= attempts[u]["success"]
  /\ attempts[u]["success"] + LoggingIn(u, "record") <= OpenedSessions(u)
  /\ OpenedSessions(u) <=
       HandedSessions(u) + LoggingIn(u, "record") + LoggingIn(u, "audit")
         + LoggingIn(u, "answer") + used.faults

SessionsInv == Types /\ RequestsOK /\ CookiesOK /\ TokensApart

IInv == SessionsInv /\ \A u \in Users : TracesOf(u)

-----------------------------------------------------------------------------
\* What survives when others change the sessions.

\* Sessions are added at the end, keep their user and browser, end for good and
\* stay handed over; users stay disabled.
SessionsAdvance ==
  /\ disabled \subseteq disabled'
  /\ \A t \in DOMAIN sessions :
       /\ t \in DOMAIN sessions'
       /\ sessions'[t].user = sessions[t].user
       /\ sessions'[t].browser = sessions[t].browser
       /\ sessions'[t].live => sessions[t].live
       /\ sessions[t].handed => sessions'[t].handed

LEMMA TokensTyped == 0 \in Tokens /\ Tokens \subseteq Nat /\ (\A t \in Tokens : t <= MaxSessions)
BY LoginsAssumption DEF Tokens

LEMMA HandedStays ==
  ASSUME SessionsAdvance, NEW t, NEW b, HandedTo(t, b)
  PROVE  HandedTo(t, b)'
BY DEF SessionsAdvance, HandedTo

\* A request that others leave alone stays sound, unless its session is handed
\* over behind its back.
LEMMA RequestStays ==
  ASSUME SessionsAdvance, sessions' \in Seq(Session), NEW q, RequestOK(q),
         Opened(q) => ~sessions'[q.token].handed
  PROVE  RequestOK(q)'
<1>1. CASE q = NoRequest
  BY <1>1 DEF RequestOK
<1>2. CASE q.kind = "login" /\ q.browser \in Browsers /\ LoginOK(q)
  <2>1. Opened(q) => Unhanded(q)'
    BY <1>2 DEF LoginOK, Unhanded, SessionsAdvance
  <2>2. QED
    BY <1>2, <2>1 DEF LoginOK, RequestOK
<1>3. CASE q.kind = "logout" /\ q.browser \in Browsers /\ LogoutOK(q)
  <2>1. q.token # 0 => HandedTo(q.token, q.browser)'
    BY <1>3, HandedStays DEF LogoutOK
  <2>2. q.step \in {"audit", "answer"} => (q.token \notin Live)'
    <3>1. CASE q.token \in DOMAIN sessions
      BY <1>3, <3>1 DEF LogoutOK, Live, SessionsAdvance
    <3>2. CASE q.token = 0
      BY <3>2 DEF Live
    <3>3. QED
      BY <1>3, <3>1, <3>2 DEF LogoutOK, HandedTo
  <2>3. QED
    BY <1>3, <2>1, <2>2 DEF LogoutOK, RequestOK
<1>4. CASE q.kind \in {"me", "admin"} /\ q.browser \in Browsers /\ AskOK(q)
  <2>1. q.token # 0 => HandedTo(q.token, q.browser)'
    BY <1>4, HandedStays DEF AskOK
  <2>2. q.answer = {0} => CurrentUser(q.token)' = {}
    <3>1. SUFFICES ASSUME q.answer = {0}, NEW u \in CurrentUser(q.token)' PROVE FALSE
      OBVIOUS
    <3>2. HandedTo(q.token, q.browser) /\ CurrentUser(q.token) = {}
      BY <1>4, <3>1 DEF AskOK
    <3>3. u \in CurrentUser(q.token)
      BY <3>1, <3>2 DEF CurrentUser, Live, SessionsAdvance, HandedTo
    <3>4. QED
      BY <3>2, <3>3
  <2>3. QED
    BY <1>4, <2>1, <2>2 DEF AskOK, RequestOK
<1>5. QED
  BY <1>1, <1>2, <1>3, <1>4 DEF RequestOK

-----------------------------------------------------------------------------
\* Steps of one tab that leave sessions and cookies alone.

\* What such a step makes of a request has to be sound, and opens no session.
Replies(r, q) ==
  /\ q \in Request
  /\ RequestOK(q)
  /\ Opened(q) => Opened(request[r]) /\ q.token = request[r].token
  /\ request' = [request EXCEPT ![r] = q]

LEMMA QuietStep ==
  ASSUME SessionsInv, NEW r \in Tabs, NEW q, Replies(r, q),
         UNCHANGED <<sessions, disabled, cookie>>,
         attempts' \in [Emails -> [Outcomes -> Nat]],
         audits' \in [Users \cup {NoUser} -> [Actions -> Nat]],
         used' \in [requests : Nat, faults : Nat]
  PROVE  SessionsInv'
<1>1. Types'
  BY DEF SessionsInv, Types, Replies
<1>2. \A p \in Tabs : request'[p] = IF p = r THEN q ELSE request[p]
  BY DEF SessionsInv, Types, Replies
<1>3. \A p : RequestOK(p)' = RequestOK(p)
  BY DEF RequestOK, LoginOK, LogoutOK, AskOK, Unhanded, HandedTo, Live, CurrentUser
<1>4. RequestsOK'
  BY <1>2, <1>3 DEF RequestsOK, SessionsInv, Replies
<1>5. CookiesOK'
  BY DEF CookiesOK, HandedTo, SessionsInv
<1>6. TokensApart'
  BY <1>2 DEF TokensApart, SessionsInv, Replies
<1>7. QED
  BY <1>1, <1>4, <1>5, <1>6 DEF SessionsInv

\* Tabs' requests are of one of the four kinds.
LEMMA RequestOf ==
  ASSUME SessionsInv, NEW r \in Tabs
  PROVE  request[r] \in Request /\ RequestOK(request[r])
BY DEF SessionsInv, Types, RequestsOK

LEMMA NoRequestTyped == NoRequest \in Request /\ RequestOK(NoRequest) /\ ~Opened(NoRequest)
BY TokensTyped DEF NoRequest, Request, RequestOK, Opened

LEMMA SendSound ==
  ASSUME SessionsInv, NEW r \in Tabs, NEW b \in Browsers,
         NEW kind \in {"login", "logout", "me", "admin"}, NEW email \in Emails \cup {NoUser},
         NEW right \in BOOLEAN, NEW label \in {"find", "who"},
         kind = "login" => label = "find" /\ email \in Emails /\ (right => email \in Users),
         kind # "login" => label = "who",
         Send(r, kind, b, email, right, label)
  PROVE  /\ SessionsInv'
         /\ \E q : /\ request' = [request EXCEPT ![r] = q] /\ q.outcome = "none"
                   /\ request[r].step = "idle"
         /\ used'.faults = used.faults
<1> DEFINE q == [NoRequest EXCEPT !.kind = kind, !.browser = b, !.token = cookie[b],
                         !.email = email, !.right = right, !.step = label]
<1>1. /\ q.kind = kind /\ q.browser = b /\ q.token = cookie[b] /\ q.email = email
      /\ (q.right <=> right) /\ q.outcome = "none" /\ q.user = NoUser /\ q.answer = {} /\ q.step = label
  BY DEF NoRequest
<1>2. cookie[b] \in Tokens /\ (cookie[b] # 0 => HandedTo(cookie[b], b))
  BY DEF SessionsInv, Types, CookiesOK
<1>3. q \in Request
  <2>1. NoRequest \in Request
    BY NoRequestTyped
  <2> HIDE DEF NoRequest
  <2> QED
    BY <1>2, <2>1 DEF Request
<1>4. RequestOK(q) /\ ~Opened(q)
  BY <1>1, <1>2 DEF RequestOK, LoginOK, LogoutOK, AskOK, Opened
<1>5. request' = [request EXCEPT ![r] = q] /\ request[r].step = "idle"
  BY Zenon DEF Send
<1>6. used' = [used EXCEPT !.requests = @ + 1] /\ UNCHANGED <<sessions, disabled, cookie, attempts, audits>>
  BY DEF Send
<1>7. SessionsInv'
  <2> HIDE DEF q
  <2>1. Replies(r, q)
    BY <1>3, <1>4, <1>5 DEF Replies
  <2>2. /\ attempts' \in [Emails -> [Outcomes -> Nat]]
        /\ audits' \in [Users \cup {NoUser} -> [Actions -> Nat]]
        /\ used' \in [requests : Nat, faults : Nat]
    BY <1>6 DEF SessionsInv, Types
  <2> QED
    BY <1>6, <2>1, <2>2, QuietStep
<1>8. QED
  BY <1>1, <1>5, <1>6, <1>7 DEF SessionsInv, Types

LEMMA FindUserSound ==
  ASSUME SessionsInv, NEW r \in Tabs, FindUser(r)
  PROVE  /\ SessionsInv'
         /\ \E q : request' = [request EXCEPT ![r] = q] /\ q.step \in {"invite", "open", "record"}
                   /\ (q.step = "record" => q.outcome # "success")
<1> DEFINE q == request[r]
<1>1. q \in Request /\ RequestOK(q) /\ q.step = "find"
  BY RequestOf DEF FindUser
<1>2. q.kind = "login" /\ q.browser \in Browsers /\ LoginOK(q)
  BY <1>1 DEF RequestOK, LogoutOK, AskOK, NoRequest
<1>3. UNCHANGED <<sessions, disabled, cookie, attempts, audits, used>>
  BY DEF FindUser
<1>4. CASE request' = [request EXCEPT ![r].step = "invite"]
  <2> DEFINE n == [q EXCEPT !.step = "invite"]
  <2>1. n \in Request /\ LoginOK(n) /\ n.kind = "login" /\ n.browser = q.browser /\ ~Opened(n)
    BY <1>1, <1>2 DEF Request, LoginOK, Opened
  <2>2. request' = [request EXCEPT ![r] = n]
    BY <1>4 DEF SessionsInv, Types
  <2>3. n.step = "invite"
    BY <1>1 DEF Request
  <2> HIDE DEF n
  <2>4. SessionsInv'
    BY <1>2, <1>3, <2>1, <2>2, QuietStep DEF Replies, RequestOK, SessionsInv, Types
  <2>5. QED
    BY <2>2, <2>3, <2>4
<1>5. ASSUME NEW u \in Account(q.email),
             request' = [request EXCEPT ![r] = [q EXCEPT !.outcome = "success", !.user = u, !.step = "open"]]
      PROVE  /\ SessionsInv'
             /\ \E n : request' = [request EXCEPT ![r] = n] /\ n.step = "open"
  <2> DEFINE n == [q EXCEPT !.outcome = "success", !.user = u, !.step = "open"]
  <2>1. n.step = "open" /\ n.outcome = "success" /\ n.user = u /\ n.kind = "login"
        /\ n.browser = q.browser /\ n.email = q.email /\ n.answer = q.answer /\ n \in Request
    BY <1>1, <1>2 DEF Request, Account, Outcomes
  <2>2. u \in Users /\ u = q.email
    BY DEF Account
  <2>3. LoginOK(n) /\ ~Opened(n)
    BY <1>1, <1>2, <2>1, <2>2 DEF LoginOK, Opened
  <2>4. request' = [request EXCEPT ![r] = n]
    BY <1>5
  <2> HIDE DEF n
  <2>5. SessionsInv'
    BY <1>2, <1>3, <2>1, <2>3, <2>4, QuietStep DEF Replies, RequestOK, SessionsInv, Types
  <2>6. QED
    BY <2>1, <2>4, <2>5
<1>6. ASSUME NEW v \in Outcomes \ {"success"},
             request' = [request EXCEPT ![r] = [q EXCEPT !.outcome = v, !.step = "record"]]
      PROVE  /\ SessionsInv'
             /\ \E n : request' = [request EXCEPT ![r] = n] /\ n.step = "record" /\ n.outcome = v
  <2> DEFINE n == [q EXCEPT !.outcome = v, !.step = "record"]
  <2>1. n.step = "record" /\ n.outcome = v /\ n.user = q.user /\ n.kind = "login"
        /\ n.browser = q.browser /\ n.email = q.email /\ n.answer = q.answer /\ n \in Request
    BY <1>1, <1>2 DEF Request, Outcomes
  <2>2. LoginOK(n) /\ ~Opened(n)
    BY <1>1, <1>2, <2>1 DEF LoginOK, Opened
  <2>3. request' = [request EXCEPT ![r] = n]
    BY <1>6
  <2> HIDE DEF n
  <2>4. SessionsInv'
    BY <1>2, <1>3, <2>1, <2>2, <2>3, QuietStep DEF Replies, RequestOK, SessionsInv, Types
  <2>5. QED
    BY <2>1, <2>3, <2>4
<1>7. Verdict(q) \in Outcomes
  BY DEF Verdict, Outcomes
<1>8. \/ request' = [request EXCEPT ![r].step = "invite"]
      \/ \E u \in Account(q.email) :
           IF Verdict(q) = "success"
           THEN request' = [request EXCEPT ![r] = [q EXCEPT !.outcome = "success", !.user = u, !.step = "open"]]
           ELSE request' = [request EXCEPT ![r] = [q EXCEPT !.outcome = Verdict(q), !.step = "record"]]
  BY DEF FindUser, GoTo
<1>9. QED
  BY <1>4, <1>5, <1>6, <1>7, <1>8

LEMMA LookForInviteSound ==
  ASSUME SessionsInv, NEW r \in Tabs, LookForInvite(r)
  PROVE  /\ SessionsInv'
         /\ \E q : request' = [request EXCEPT ![r] = q] /\ q.outcome # "success"
<1> DEFINE q == request[r]
           v == IF PendingInvite(q.email) THEN "invite_required" ELSE "invalid_credentials"
           n == [q EXCEPT !.outcome = v, !.step = "record"]
<1>1. q \in Request /\ RequestOK(q) /\ q.step = "invite"
  BY RequestOf DEF LookForInvite
<1>2. q.kind = "login" /\ q.browser \in Browsers /\ LoginOK(q)
  BY <1>1 DEF RequestOK, LogoutOK, AskOK, NoRequest
<1>3. UNCHANGED <<sessions, disabled, cookie, attempts, audits, used>>
  BY DEF LookForInvite
<1>4. v \in Outcomes \ {"success"}
  BY DEF Outcomes
<1>5. request' = [request EXCEPT ![r] = n]
  BY DEF LookForInvite, SessionsInv, Types
<1> HIDE DEF v
<1>6. n.step = "record" /\ n.outcome = v /\ n.user = q.user /\ n.kind = "login"
      /\ n.browser = q.browser /\ n.email = q.email /\ n.answer = q.answer /\ n \in Request
  BY <1>1, <1>2, <1>4 DEF Request, Outcomes
<1>7. LoginOK(n) /\ ~Opened(n)
  BY <1>1, <1>2, <1>4, <1>6 DEF LoginOK, Opened
<1> HIDE DEF n
<1>8. SessionsInv'
  BY <1>2, <1>3, <1>5, <1>6, <1>7, QuietStep DEF Replies, RequestOK, SessionsInv, Types
<1>9. QED
  BY <1>4, <1>5, <1>6, <1>8

LEMMA RecordLoginAttemptSound ==
  ASSUME SessionsInv, NEW r \in Tabs, RecordLoginAttempt(r)
  PROVE  /\ SessionsInv'
         /\ \E q : /\ request' = [request EXCEPT ![r] = q]
                   /\ q.step = "audit" /\ q.outcome = request[r].outcome /\ q.user = request[r].user
         /\ request[r].email \in Emails /\ request[r].outcome \in Outcomes
         /\ request[r].outcome = "success" => request[r].user = request[r].email
<1> DEFINE q == request[r]
           n == [q EXCEPT !.step = "audit"]
<1>1. q \in Request /\ RequestOK(q) /\ q.step = "record"
  BY RequestOf DEF RecordLoginAttempt
<1>2. q.kind = "login" /\ q.browser \in Browsers /\ LoginOK(q)
  BY <1>1 DEF RequestOK, LogoutOK, AskOK, NoRequest
<1>3. q.email \in Emails /\ q.outcome \in Outcomes /\ (q.outcome = "success" => q.user = q.email)
  BY <1>1, <1>2 DEF LoginOK
<1>4. /\ n \in Request /\ n.step = "audit" /\ n.outcome = q.outcome /\ n.user = q.user
      /\ n.kind = "login" /\ n.browser = q.browser /\ n.email = q.email /\ n.answer = q.answer
      /\ n.token = q.token
  BY <1>1, <1>2 DEF Request
<1>5. request' = [request EXCEPT ![r] = n]
  BY DEF RecordLoginAttempt, GoTo, SessionsInv, Types
<1> HIDE DEF n
<1>6. LoginOK(n) /\ (Opened(n) => Opened(q))
  BY <1>1, <1>2, <1>4 DEF LoginOK, Opened, Unhanded
<1>7. /\ attempts' \in [Emails -> [Outcomes -> Nat]]
      /\ UNCHANGED <<sessions, disabled, cookie, audits, used>>
  BY <1>3 DEF RecordLoginAttempt, SessionsInv, Types
<1>8. SessionsInv'
  BY <1>2, <1>4, <1>5, <1>6, <1>7, QuietStep DEF Replies, RequestOK, SessionsInv, Types
<1>9. QED
  BY <1>3, <1>4, <1>5, <1>8

LEMMA FindSessionSound ==
  ASSUME SessionsInv, NEW r \in Tabs, FindSession(r)
  PROVE  /\ SessionsInv'
         /\ \E q : request' = [request EXCEPT ![r] = q] /\ q.outcome = "none"
<1> DEFINE q == request[r]
           users == CurrentUser(q.token)
           user == UserOr(users, NoUser)
           found == [q EXCEPT !.user = user]
<1>1. q \in Request /\ RequestOK(q) /\ q.step = "who"
  BY RequestOf DEF FindSession
<1>2. \/ q.kind = "logout" /\ q.browser \in Browsers /\ LogoutOK(q)
      \/ q.kind \in {"me", "admin"} /\ q.browser \in Browsers /\ AskOK(q)
  BY <1>1 DEF RequestOK, LoginOK, NoRequest
<1>3. user \in Users \cup {NoUser}
  BY DEF UserOr, CurrentUser
<1>4. UNCHANGED <<sessions, disabled, cookie, attempts, audits, used>>
  BY DEF FindSession
<1>5. ASSUME NEW answer \in {{}, {0}}, NEW step \in {"revoke", "answer"}
      PROVE  LET n == [found EXCEPT !.answer = answer, !.step = step]
             IN  /\ n \in Request /\ n.kind = q.kind /\ n.browser = q.browser /\ n.token = q.token
                 /\ n.outcome = q.outcome /\ n.answer = answer /\ n.step = step
  <2> HIDE DEF user
  <2> QED
    BY <1>1, <1>3, TokensTyped DEF Request
<1>6. PICK answer \in {{}, {0}}, step \in {"revoke", "answer"} :
        /\ request' = [request EXCEPT ![r] = [found EXCEPT !.answer = answer, !.step = step]]
        /\ q.kind = "logout" => (step = "revoke" => q.token # 0 /\ answer = {})
                                 /\ (step = "answer" => q.token = 0 /\ answer = {0})
        /\ q.kind # "logout" => step = "answer"
        /\ q.kind # "logout" /\ answer = {0} => q.token # 0 /\ users = {}
  <2> DEFINE last == [found EXCEPT !.step = "answer"]
  <2>1. request' = [request EXCEPT ![r] =
           IF q.kind = "logout"
           THEN IF q.token = 0 THEN [last EXCEPT !.answer = {0}] ELSE [found EXCEPT !.step = "revoke"]
           ELSE IF ClearsCookie(q, users) THEN [last EXCEPT !.answer = {0}] ELSE last]
    BY Zenon DEF FindSession
  <2>2. [last EXCEPT !.answer = {0}] = [found EXCEPT !.answer = {0}, !.step = "answer"]
    <3> HIDE DEF user
    <3> QED
      BY <1>1, <1>3 DEF Request
  <2>3. q.answer = {}
    BY <1>1, <1>2 DEF LogoutOK, AskOK
  <2>4. /\ last = [found EXCEPT !.answer = {}, !.step = "answer"]
        /\ [found EXCEPT !.step = "revoke"] = [found EXCEPT !.answer = {}, !.step = "revoke"]
    <3> HIDE DEF user
    <3> QED
      BY <1>1, <1>3, <2>3 DEF Request
  <2> HIDE DEF found, users, last
  <2>5. CASE q.kind = "logout" /\ q.token = 0
    BY <2>1, <2>2, <2>5
  <2>6. CASE q.kind = "logout" /\ q.token # 0
    BY <2>1, <2>4, <2>6
  <2>7. CASE q.kind # "logout" /\ ClearsCookie(q, users)
    BY <2>1, <2>2, <2>7 DEF ClearsCookie
  <2>8. CASE q.kind # "logout" /\ ~ClearsCookie(q, users)
    BY <2>1, <2>4, <2>8
  <2>9. QED
    BY <2>5, <2>6, <2>7, <2>8
<1> DEFINE n == [found EXCEPT !.answer = answer, !.step = step]
<1>7. /\ n \in Request /\ n.kind = q.kind /\ n.browser = q.browser /\ n.token = q.token
      /\ n.outcome = q.outcome /\ n.answer = answer /\ n.step = step
  BY <1>5
<1>8. request' = [request EXCEPT ![r] = n]
  BY <1>6
<1> HIDE DEF n
<1>9. RequestOK(n) /\ ~Opened(n)
  <2>1. CASE q.kind = "logout"
    <3>1. LogoutOK(n)
      BY <1>1, <1>2, <1>6, <1>7, <2>1, TokensTyped DEF LogoutOK, Live, SessionsInv, Types
    <3>2. QED
      BY <1>2, <1>7, <2>1, <3>1 DEF RequestOK, Opened
  <2>2. CASE q.kind # "logout"
    <3>1. AskOK(n)
      BY <1>2, <1>6, <1>7, <2>2 DEF AskOK
    <3>2. QED
      BY <1>2, <1>7, <2>2, <3>1 DEF RequestOK, Opened
  <2>3. QED
    BY <2>1, <2>2
<1>10. SessionsInv'
  BY <1>4, <1>7, <1>8, <1>9, QuietStep DEF Replies, SessionsInv, Types
<1>11. n.outcome = "none"
  BY <1>2, <1>7 DEF LogoutOK, AskOK
<1>12. QED
  BY <1>8, <1>10, <1>11

LEMMA RecordAuditEventSound ==
  ASSUME SessionsInv, NEW r \in Tabs, RecordAuditEvent(r)
  PROVE  /\ SessionsInv'
         /\ \E q : /\ request' = [request EXCEPT ![r] = q]
                   /\ q.step = "answer" /\ q.outcome = request[r].outcome /\ q.user = request[r].user
         /\ request[r].user \in Users \cup {NoUser}
         /\ ActionOf(request[r]) = "auth.login" <=> request[r].outcome = "success"
<1> DEFINE q == request[r]
           n == [q EXCEPT !.answer = CookieAfterAudit(q), !.step = "answer"]
<1>1. q \in Request /\ RequestOK(q) /\ q.step = "audit"
  BY RequestOf DEF RecordAuditEvent
<1>2. \/ q.kind = "logout" /\ q.browser \in Browsers /\ LogoutOK(q)
      \/ q.kind = "login" /\ q.browser \in Browsers /\ LoginOK(q)
  BY <1>1 DEF RequestOK, AskOK, NoRequest
<1>3. CookieAfterAudit(q) = IF q.kind = "logout" THEN {0} ELSE IF q.outcome = "success" THEN {q.token} ELSE {}
  BY <1>2 DEF CookieAfterAudit, LogoutOK
<1>4. ActionOf(q) \in Actions /\ (ActionOf(q) = "auth.login" <=> q.outcome = "success")
  BY <1>2 DEF ActionOf, Actions, LogoutOK
<1>5. CookieAfterAudit(q) \in SUBSET Tokens
  BY <1>1, <1>3, TokensTyped DEF Request
<1>6. /\ n \in Request /\ n.step = "answer" /\ n.outcome = q.outcome /\ n.user = q.user
      /\ n.kind = q.kind /\ n.browser = q.browser /\ n.email = q.email
      /\ n.answer = CookieAfterAudit(q) /\ n.token = q.token
  BY <1>1, <1>5 DEF Request
<1>7. request' = [request EXCEPT ![r] = n]
  BY DEF RecordAuditEvent, SessionsInv, Types
<1> HIDE DEF n
<1>8. RequestOK(n) /\ (Opened(n) => Opened(q))
  <2>1. CASE q.kind = "logout"
    BY <1>1, <1>2, <1>3, <1>6, <2>1 DEF LogoutOK, RequestOK, Opened
  <2>2. CASE q.kind = "login"
    BY <1>1, <1>2, <1>3, <1>6, <2>2 DEF LoginOK, RequestOK, Opened, Unhanded
  <2>3. QED
    BY <1>2, <2>1, <2>2
<1>9. q.user \in Users \cup {NoUser}
  BY <1>1 DEF Request
<1>10. audits' = [audits EXCEPT ![q.user][ActionOf(q)] = @ + 1] /\ UNCHANGED <<sessions, disabled, cookie, attempts, used>>
  BY DEF RecordAuditEvent
<1>11. audits' \in [Users \cup {NoUser} -> [Actions -> Nat]]
  BY <1>4, <1>9, <1>10 DEF SessionsInv, Types
<1>12. SessionsInv'
  BY <1>6, <1>7, <1>8, <1>10, <1>11, QuietStep DEF Replies, SessionsInv, Types
<1>13. QED
  BY <1>4, <1>6, <1>7, <1>9, <1>12

LEMMA FailSound ==
  ASSUME SessionsInv, NEW r \in Tabs, Fail(r)
  PROVE  /\ SessionsInv' /\ used'.faults = used.faults + 1
         /\ request' = [request EXCEPT ![r] = NoRequest]
         /\ UNCHANGED <<sessions, disabled, cookie, attempts, audits>>
<1>1. /\ request' = [request EXCEPT ![r] = NoRequest]
      /\ UNCHANGED <<sessions, disabled, cookie, attempts, audits>>
      /\ used' = [used EXCEPT !.faults = @ + 1]
  BY DEF Fail
<1>2. used' \in [requests : Nat, faults : Nat] /\ used'.faults = used.faults + 1
  BY <1>1 DEF SessionsInv, Types
<1>3. SessionsInv'
  BY <1>1, <1>2, NoRequestTyped, QuietStep DEF Replies, SessionsInv, Types
<1>4. QED
  BY <1>1, <1>2, <1>3

-----------------------------------------------------------------------------
\* Steps that change sessions or cookies.

LEMMA AdvancingStep ==
  ASSUME SessionsInv, SessionsAdvance, Types', CookiesOK', TokensApart',
         \A p \in Tabs :
           \/ /\ request'[p] = request[p]
              /\ Opened(request[p]) => ~sessions'[request[p].token].handed
           \/ RequestOK(request[p])'
  PROVE  SessionsInv'
<1>1. SUFFICES ASSUME NEW p \in Tabs PROVE RequestOK(request[p])'
  BY DEF SessionsInv, RequestsOK
<1>2. CASE /\ request'[p] = request[p]
           /\ Opened(request[p]) => ~sessions'[request[p].token].handed
  <2> DEFINE q == request[p]
  <2>1. RequestOK(q)
    BY RequestOf
  <2>2. sessions' \in Seq(Session)
    BY DEF Types
  <2> SUFFICES ASSUME NEW c, c = q PROVE RequestOK(c)'
    BY <1>2
  <2>3. RequestOK(c) /\ (Opened(c) => ~sessions'[c.token].handed)
    BY <1>2, <2>1
  <2>4. QED
    BY <2>2, <2>3, RequestStays
<1>3. QED
  BY <1>2

\* The tokens of logins that are not yet answered are in the table.
LEMMA OpenedUnhanded ==
  ASSUME SessionsInv, NEW p \in Tabs, Opened(request[p])
  PROVE  Unhanded(request[p])
<1>1. request[p].kind = "login" /\ RequestOK(request[p])
  BY RequestOf DEF Opened
<1>2. LoginOK(request[p])
  BY <1>1 DEF RequestOK, NoRequest
<1>3. QED
  BY <1>2 DEF LoginOK

LEMMA SessionAt ==
  ASSUME SessionsInv, NEW t \in DOMAIN sessions
  PROVE  /\ sessions[t] \in Session /\ DOMAIN sessions = 1..Len(sessions) /\ Len(sessions) \in Nat
         /\ t \in Tokens \ {0}
BY LoginsAssumption DEF SessionsInv, Types, Tokens

LEMMA CreateSessionSound ==
  ASSUME SessionsInv, NEW r \in Tabs, CreateSession(r)
  PROVE  /\ SessionsInv'
         /\ \E q : /\ request' = [request EXCEPT ![r] = q]
                   /\ q.step = "record" /\ q.outcome = "success" /\ q.user = request[r].user
         /\ request[r].step = "open"
         /\ request[r].user \in Users /\ request[r].browser \in Browsers
         /\ sessions' = Append(sessions, NewSession(request[r])) /\ Len(sessions) < MaxSessions
<1> DEFINE q == request[r]
           t == Len(sessions) + 1
           n == [q EXCEPT !.token = t, !.step = "record"]
<1>1. q \in Request /\ RequestOK(q) /\ q.step = "open"
  BY RequestOf DEF CreateSession
<1>2. q.kind = "login" /\ q.browser \in Browsers /\ LoginOK(q) /\ q.outcome = "success"
  BY <1>1 DEF RequestOK, LogoutOK, AskOK, NoRequest, LoginOK
<1>3. q.user \in Users /\ q.user = q.email
  BY <1>1, <1>2 DEF LoginOK
<1>4. /\ sessions' = Append(sessions, NewSession(q)) /\ Len(sessions) < MaxSessions
      /\ UNCHANGED <<disabled, cookie, attempts, audits, used>>
  BY DEF CreateSession
<1>5. sessions \in Seq(Session) /\ Len(sessions) \in Nat
  BY DEF SessionsInv, Types
<1>6. NewSession(q) \in Session
  BY <1>2, <1>3 DEF NewSession, Session
<1>7. /\ sessions' \in Seq(Session) /\ Len(sessions') = t
      /\ DOMAIN sessions = 1..Len(sessions) /\ DOMAIN sessions' = 1..t
      /\ \A i \in DOMAIN sessions : sessions'[i] = sessions[i]
      /\ sessions'[t] = NewSession(q)
  BY <1>4, <1>5, <1>6
<1>8. SessionsAdvance
  BY <1>4, <1>5, <1>7 DEF SessionsAdvance
<1>9. t \in Tokens
  BY <1>4, <1>5, LoginsAssumption DEF Tokens
<1> HIDE DEF t
<1>10. /\ n \in Request /\ n.step = "record" /\ n.outcome = q.outcome /\ n.user = q.user
       /\ n.kind = q.kind /\ n.browser = q.browser /\ n.email = q.email
       /\ n.answer = q.answer /\ n.token = t
  BY <1>1, <1>9 DEF Request
<1>11. request' = [request EXCEPT ![r] = n]
  BY DEF CreateSession, SessionsInv, Types, t
<1> HIDE DEF n
<1>12. Types'
  <2>1. t <= MaxSessions
    BY <1>9, TokensTyped
  <2>2. request' \in [Tabs -> Request]
    BY <1>10, <1>11 DEF SessionsInv, Types
  <2>3. QED
    BY <1>4, <1>7, <2>1, <2>2 DEF SessionsInv, Types
<1>13. CookiesOK'
  <2>1. ASSUME NEW b \in Browsers, cookie[b] # 0 PROVE HandedTo(cookie[b], b)'
    BY <1>4, <1>7, <1>5, <2>1 DEF SessionsInv, CookiesOK, HandedTo
  <2>2. QED
    BY <1>4, <2>1 DEF CookiesOK
<1>14. \A p \in Tabs : request'[p] = IF p = r THEN n ELSE request[p]
  BY <1>11 DEF SessionsInv, Types
<1>15. \A p \in Tabs : Opened(request[p]) =>
         /\ request[p].token \in 1..Len(sessions) /\ request[p].token # t
         /\ ~sessions'[request[p].token].handed
  BY <1>5, <1>7, OpenedUnhanded DEF Unhanded, t
<1>16. TokensApart'
  BY <1>10, <1>14, <1>15 DEF TokensApart, SessionsInv
<1>17. RequestOK(request[r])'
  <2> SUFFICES ASSUME NEW c, c = n PROVE RequestOK(c)'
    BY <1>14
  <2>1. t \in DOMAIN sessions'
    BY <1>5, <1>7 DEF t
  <2>2. Unhanded(c)'
    BY <1>7, <1>10, <2>1, <1>2 DEF Unhanded, NewSession
  <2>3. LoginOK(c)'
    BY <1>1, <1>2, <1>3, <1>10, <2>2 DEF LoginOK, Outcomes
  <2>4. QED
    BY <1>2, <1>10, <2>3 DEF RequestOK
<1>18. SessionsInv'
  BY <1>8, <1>12, <1>13, <1>14, <1>15, <1>16, <1>17, AdvancingStep
<1>19. QED
  BY <1>1, <1>2, <1>3, <1>4, <1>10, <1>11, <1>18

\* A session ends.
LEMMA SessionEnds ==
  ASSUME SessionsInv, NEW t \in DOMAIN sessions,
         sessions' = [sessions EXCEPT ![t].live = FALSE]
  PROVE  /\ sessions' \in Seq(Session) /\ Len(sessions') = Len(sessions)
         /\ DOMAIN sessions' = DOMAIN sessions
         /\ \A i \in DOMAIN sessions :
              /\ sessions'[i].user = sessions[i].user /\ sessions'[i].browser = sessions[i].browser
              /\ sessions'[i].handed = sessions[i].handed
              /\ sessions'[i].live = IF i = t THEN FALSE ELSE sessions[i].live
<1>1. sessions \in Seq(Session) /\ \A i \in DOMAIN sessions : sessions[i] \in Session
  BY SessionAt DEF SessionsInv, Types
<1>2. [sessions[t] EXCEPT !.live = FALSE] \in Session
  BY <1>1 DEF Session
<1>3. sessions' = [sessions EXCEPT ![t] = [sessions[t] EXCEPT !.live = FALSE]]
  BY <1>1
<1>4. QED
  BY <1>1, <1>2, <1>3 DEF Session

LEMMA RevokeSessionSound ==
  ASSUME SessionsInv, NEW r \in Tabs, RevokeSession(r)
  PROVE  /\ SessionsInv'
         /\ \E q : request' = [request EXCEPT ![r] = q] /\ q.outcome = "none"
         /\ HandedTo(request[r].token, request[r].browser)
         /\ sessions' = [sessions EXCEPT ![request[r].token].live = FALSE]
<1> DEFINE q == request[r]
           t == q.token
           n == AfterRevoke(q)
<1>1. q \in Request /\ RequestOK(q) /\ q.step = "revoke"
  BY RequestOf DEF RevokeSession
<1>2. q.kind = "logout" /\ q.browser \in Browsers /\ LogoutOK(q)
  BY <1>1 DEF RequestOK, LoginOK, AskOK, NoRequest
<1>3. HandedTo(t, q.browser) /\ t \in DOMAIN sessions
  BY <1>1, <1>2 DEF LogoutOK, HandedTo
<1>4. /\ sessions' = [sessions EXCEPT ![t].live = FALSE]
      /\ request' = [request EXCEPT ![r] = n]
      /\ UNCHANGED <<disabled, cookie, attempts, audits, used>>
  BY DEF RevokeSession
<1>5. /\ sessions' \in Seq(Session) /\ Len(sessions') = Len(sessions)
      /\ DOMAIN sessions' = DOMAIN sessions
      /\ \A i \in DOMAIN sessions :
           /\ sessions'[i].user = sessions[i].user /\ sessions'[i].browser = sessions[i].browser
           /\ sessions'[i].handed = sessions[i].handed
           /\ sessions'[i].live = IF i = t THEN FALSE ELSE sessions[i].live
  BY <1>3, <1>4, SessionEnds
<1>6. SessionsAdvance
  BY <1>4, <1>5 DEF SessionsAdvance
<1>7. /\ n \in Request /\ n.outcome = q.outcome /\ n.kind = q.kind /\ n.browser = q.browser
      /\ n.token = t
      /\ \/ n.step = "audit" /\ n.answer = q.answer
         \/ n.step = "answer" /\ n.answer = {0}
  BY <1>1, TokensTyped DEF Request, AfterRevoke
<1> HIDE DEF n
<1>8. Types'
  BY <1>4, <1>5, <1>7 DEF SessionsInv, Types
<1>9. CookiesOK'
  BY <1>4, <1>5 DEF SessionsInv, CookiesOK, HandedTo
<1>10. \A p \in Tabs : request'[p] = IF p = r THEN n ELSE request[p]
  BY <1>4 DEF SessionsInv, Types
<1>11. TokensApart'
  BY <1>2, <1>7, <1>10 DEF TokensApart, SessionsInv, Opened
<1>12. RequestOK(request[r])'
  <2> SUFFICES ASSUME NEW c, c = n PROVE RequestOK(c)'
    BY <1>10
  <2>1. c.token \notin Live'
    BY <1>3, <1>5, <1>7 DEF Live
  <2>2. HandedTo(c.token, c.browser)'
    BY <1>3, <1>5, <1>7 DEF HandedTo
  <2>3. LogoutOK(c)'
    BY <1>1, <1>2, <1>7, <2>1, <2>2 DEF LogoutOK
  <2>4. QED
    BY <1>2, <1>7, <2>3 DEF RequestOK
<1>13. \A p \in Tabs : Opened(request[p]) => ~sessions'[request[p].token].handed
  BY <1>5, OpenedUnhanded DEF Unhanded
<1>14. SessionsInv'
  BY <1>6, <1>8, <1>9, <1>10, <1>11, <1>12, <1>13, AdvancingStep
<1>15. QED
  BY <1>2, <1>3, <1>4, <1>7, <1>14 DEF LogoutOK

\* What an answer does: it hands its login's session over, clears the cookie, or
\* leaves both alone.
HandsOver(q) ==
  /\ Opened(q) /\ Unhanded(q)
  /\ sessions' = [sessions EXCEPT ![q.token].handed = TRUE]
  /\ cookie' = [cookie EXCEPT ![q.browser] = q.token]

Clears(q) ==
  /\ q.kind # "login" /\ q.answer = {0}
  /\ sessions' = sessions
  /\ cookie' = [cookie EXCEPT ![q.browser] = 0]

LEMMA AnswerCases ==
  ASSUME SessionsInv, NEW r \in Tabs, Answer(r)
  PROVE  /\ request[r].browser \in Browsers
         /\ \/ HandsOver(request[r])
            \/ Clears(request[r]) /\ request[r].outcome = "none"
            \/ request[r].outcome # "success" /\ UNCHANGED <<sessions, cookie>>
<1> DEFINE q == request[r]
<1>1. q \in Request /\ RequestOK(q) /\ q.step = "answer"
  BY RequestOf DEF Answer
<1>2. /\ q.browser \in Browsers
      /\ \/ q.kind = "login" /\ LoginOK(q)
         \/ q.kind = "logout" /\ LogoutOK(q)
         \/ q.kind \in {"me", "admin"} /\ AskOK(q)
  BY <1>1 DEF RequestOK, NoRequest
<1>3. /\ cookie' = [cookie EXCEPT ![q.browser] = CookieAfter(q, cookie[q.browser])]
      /\ sessions' = [t \in DOMAIN sessions |->
                    IF t \in q.answer THEN [sessions[t] EXCEPT !.handed = TRUE] ELSE sessions[t]]
  BY DEF Answer
<1>4. /\ sessions \in Seq(Session) /\ Len(sessions) \in Nat /\ DOMAIN sessions = 1..Len(sessions)
      /\ cookie \in [Browsers -> Tokens]
  BY DEF SessionsInv, Types
<1>5. CASE q.kind = "login" /\ q.outcome = "success"
  <2>1. q.answer = {q.token} /\ Opened(q) /\ Unhanded(q)
    BY <1>1, <1>2, <1>5 DEF LoginOK, Opened
  <2>2. CookieAfter(q, cookie[q.browser]) = q.token
    BY <2>1 DEF CookieAfter
  <2>3. sessions' = [sessions EXCEPT ![q.token].handed = TRUE]
    BY <1>3, <1>4, <2>1 DEF Unhanded
  <2>4. QED
    BY <1>2, <1>3, <2>1, <2>2, <2>3 DEF HandsOver
<1>6. CASE q.kind # "login" /\ q.answer = {0}
  <2>1. CookieAfter(q, cookie[q.browser]) = 0
    BY <1>6 DEF CookieAfter
  <2>2. sessions' = sessions
    BY <1>3, <1>4, <1>6
  <2>3. QED
    BY <1>2, <1>3, <1>6, <2>1, <2>2 DEF Clears, LogoutOK, AskOK
<1>7. CASE q.answer = {} /\ q.outcome # "success"
  <2>1. cookie' = cookie
    BY <1>2, <1>3, <1>4, <1>7 DEF CookieAfter
  <2>2. sessions' = sessions
    BY <1>3, <1>4, <1>7
  <2>3. QED
    BY <1>2, <1>7, <2>1, <2>2
<1>8. QED
  BY <1>1, <1>2, <1>5, <1>6, <1>7 DEF LoginOK, LogoutOK, AskOK

LEMMA HandsOverEffect ==
  ASSUME SessionsInv, NEW t \in DOMAIN sessions,
         sessions' = [sessions EXCEPT ![t].handed = TRUE]
  PROVE  /\ sessions' \in Seq(Session) /\ Len(sessions') = Len(sessions)
         /\ DOMAIN sessions' = DOMAIN sessions
         /\ \A i \in DOMAIN sessions :
              /\ sessions'[i].user = sessions[i].user /\ sessions'[i].browser = sessions[i].browser
              /\ sessions'[i].live = sessions[i].live
              /\ sessions'[i].handed = IF i = t THEN TRUE ELSE sessions[i].handed
<1>1. sessions \in Seq(Session) /\ \A i \in DOMAIN sessions : sessions[i] \in Session
  BY SessionAt DEF SessionsInv, Types
<1>2. [sessions[t] EXCEPT !.handed = TRUE] \in Session
  BY <1>1 DEF Session
<1>3. sessions' = [sessions EXCEPT ![t] = [sessions[t] EXCEPT !.handed = TRUE]]
  BY <1>1
<1>4. QED
  BY <1>1, <1>2, <1>3 DEF Session

LEMMA AnswerSound ==
  ASSUME SessionsInv, NEW r \in Tabs, Answer(r)
  PROVE  SessionsInv'
<1> DEFINE q == request[r]
<1>1. /\ request' = [request EXCEPT ![r] = NoRequest]
      /\ UNCHANGED <<disabled, attempts, audits, used>>
  BY DEF Answer
<1>2. \A p \in Tabs : request'[p] = IF p = r THEN NoRequest ELSE request[p]
  BY <1>1 DEF SessionsInv, Types
<1>3. TokensApart'
  BY <1>2, NoRequestTyped DEF TokensApart, SessionsInv
<1>4. RequestOK(request[r])'
  BY <1>2 DEF RequestOK
<1>5. request' \in [Tabs -> Request]
  BY <1>1, NoRequestTyped DEF SessionsInv, Types
<1>6. q.browser \in Browsers
  BY AnswerCases
<1>7. CASE HandsOver(q)
  <2> DEFINE t == q.token
  <2>1. Opened(q) /\ Unhanded(q) /\ t \in DOMAIN sessions
    BY <1>7 DEF HandsOver, Unhanded
  <2>2. /\ sessions' = [sessions EXCEPT ![t].handed = TRUE]
        /\ cookie' = [cookie EXCEPT ![q.browser] = t]
    BY <1>7 DEF HandsOver
  <2>3. /\ sessions' \in Seq(Session) /\ Len(sessions') = Len(sessions)
        /\ DOMAIN sessions' = DOMAIN sessions
        /\ \A i \in DOMAIN sessions :
             /\ sessions'[i].user = sessions[i].user /\ sessions'[i].browser = sessions[i].browser
             /\ sessions'[i].live = sessions[i].live
             /\ sessions'[i].handed = IF i = t THEN TRUE ELSE sessions[i].handed
    BY <2>1, <2>2, HandsOverEffect
  <2>4. SessionsAdvance
    BY <1>1, <2>3 DEF SessionsAdvance
  <2>5. t \in Tokens \ {0}
    BY <2>1, SessionAt
  <2>6. Types'
    BY <1>1, <1>5, <2>2, <2>3, <2>5 DEF SessionsInv, Types
  <2>7. CookiesOK'
    <3>1. ASSUME NEW b \in Browsers, cookie'[b] # 0 PROVE HandedTo(cookie[b], b)'
      <4>1. CASE b = q.browser
        BY <1>6, <2>1, <2>2, <2>3, <4>1 DEF HandedTo, Unhanded, SessionsInv, Types
      <4>2. CASE b # q.browser
        BY <2>2, <2>3, <3>1, <4>2 DEF HandedTo, SessionsInv, Types, CookiesOK
      <4>3. QED
        BY <4>1, <4>2
    <3>2. QED
      BY <3>1 DEF CookiesOK
  <2>8. \A p \in Tabs \ {r} : Opened(request[p]) => ~sessions'[request[p].token].handed
    BY <2>1, <2>3, OpenedUnhanded DEF Unhanded, SessionsInv, TokensApart
  <2>9. QED
    BY <1>2, <1>3, <1>4, <2>4, <2>6, <2>7, <2>8, AdvancingStep
<1>8. ASSUME sessions' = sessions,
             cookie' = cookie \/ cookie' = [cookie EXCEPT ![q.browser] = 0]
      PROVE  SessionsInv'
  <2>1. SessionsAdvance
    BY <1>1, <1>8 DEF SessionsAdvance
  <2>2. Types'
    BY <1>1, <1>5, <1>8, TokensTyped DEF SessionsInv, Types
  <2>3. CookiesOK'
    BY <1>6, <1>8 DEF SessionsInv, Types, CookiesOK, HandedTo
  <2>4. \A p \in Tabs \ {r} : Opened(request[p]) => ~sessions'[request[p].token].handed
    BY <1>8, OpenedUnhanded DEF Unhanded
  <2>5. QED
    BY <1>2, <1>3, <1>4, <2>1, <2>2, <2>3, <2>4, AdvancingStep
<1>9. QED
  BY <1>7, <1>8, AnswerCases DEF Clears

LEMMA ExpireSound ==
  ASSUME SessionsInv, NEW t \in Tokens, Expire(t)
  PROVE  SessionsInv'
<1>1. /\ t \in DOMAIN sessions /\ sessions' = [sessions EXCEPT ![t].live = FALSE]
      /\ UNCHANGED <<disabled, cookie, attempts, audits, request, used>>
  BY DEF Expire, Live
<1>2. /\ sessions' \in Seq(Session) /\ Len(sessions') = Len(sessions)
      /\ DOMAIN sessions' = DOMAIN sessions
      /\ \A i \in DOMAIN sessions :
           /\ sessions'[i].user = sessions[i].user /\ sessions'[i].browser = sessions[i].browser
           /\ sessions'[i].handed = sessions[i].handed
           /\ sessions'[i].live = IF i = t THEN FALSE ELSE sessions[i].live
  BY <1>1, SessionEnds
<1>3. SessionsAdvance
  BY <1>1, <1>2 DEF SessionsAdvance
<1>4. Types' /\ TokensApart'
  BY <1>1, <1>2 DEF SessionsInv, Types, TokensApart
<1>5. CookiesOK'
  BY <1>1, <1>2 DEF SessionsInv, CookiesOK, HandedTo
<1>6. \A p \in Tabs : Opened(request[p]) => ~sessions'[request[p].token].handed
  BY <1>2, OpenedUnhanded DEF Unhanded
<1>7. QED
  BY <1>1, <1>3, <1>4, <1>5, <1>6, AdvancingStep

LEMMA DisableSound ==
  ASSUME SessionsInv, NEW u \in Users, Disable(u)
  PROVE  SessionsInv'
<1>1. /\ disabled' = disabled \cup {u}
      /\ UNCHANGED <<sessions, cookie, attempts, audits, request, used>>
  BY DEF Disable
<1>2. SessionsAdvance
  BY <1>1 DEF SessionsAdvance
<1>3. Types' /\ TokensApart' /\ CookiesOK'
  BY <1>1 DEF SessionsInv, Types, TokensApart, CookiesOK, HandedTo
<1>4. \A p \in Tabs : Opened(request[p]) => ~sessions'[request[p].token].handed
  BY <1>1, OpenedUnhanded DEF Unhanded
<1>5. QED
  BY <1>1, <1>2, <1>3, <1>4, AdvancingStep

-----------------------------------------------------------------------------
\* Counting logins and sessions.

Bit(condition) == IF condition THEN 1 ELSE 0

At(q, u, label) == q.outcome = "success" /\ q.user = u /\ q.step = label

LEMMA LoggingInMoves ==
  ASSUME Types, NEW r \in Tabs, NEW q, request' = [request EXCEPT ![r] = q], NEW u, NEW label
  PROVE  /\ LoggingIn(u, label) \in Nat
         /\ LoggingIn(u, label)' = LoggingIn(u, label) - Bit(At(request[r], u, label)) + Bit(At(q, u, label))
<1> DEFINE S == {p \in Tabs : At(request[p], u, label)}
           T == {p \in Tabs : At(request'[p], u, label)}
<1>1. IsFiniteSet(S) /\ IsFiniteSet(T)
  BY FS_Subset, LoginsAssumption
<1>2. LoggingIn(u, label) = Cardinality(S) /\ LoggingIn(u, label)' = Cardinality(T)
  BY DEF LoggingIn, At
<1>3. r \in S <=> At(request[r], u, label)
  OBVIOUS
<1>4. T = IF At(q, u, label) THEN S \cup {r} ELSE S \ {r}
  BY DEF Types
<1> HIDE DEF S, T
<1>5. Cardinality(S) \in Nat
  BY <1>1, FS_CardinalityType
<1>6. /\ Cardinality(S \cup {r}) = IF r \in S THEN Cardinality(S) ELSE Cardinality(S) + 1
      /\ Cardinality(S \ {r}) = IF r \in S THEN Cardinality(S) - 1 ELSE Cardinality(S)
  BY <1>1, FS_AddElement, FS_RemoveElement
<1>7. QED
  BY <1>2, <1>3, <1>4, <1>5, <1>6 DEF Bit

LEMMA SomeSessionsFinite ==
  ASSUME Types, NEW S, S \subseteq DOMAIN sessions
  PROVE  IsFiniteSet(S)
BY FS_Interval, FS_Subset DEF Types

\* The counts of sessions are numbers.
LEMMA SessionsCounted ==
  ASSUME Types, NEW u
  PROVE  HandedSessions(u) \in Nat /\ OpenedSessions(u) \in Nat
<1>1. IsFiniteSet(DOMAIN sessions)
  BY FS_Interval DEF Types
<1>2. /\ IsFiniteSet({t \in {t \in DOMAIN sessions : sessions[t].handed} : sessions[t].user = u})
      /\ IsFiniteSet({t \in DOMAIN sessions : sessions[t].user = u})
  BY <1>1, FS_Subset
<1>3. QED
  BY <1>2, FS_CardinalityType DEF HandedSessions, OpenedSessions, SessionsOf

\* Ending a session, or leaving them alone, changes no count.
LEMMA SameCounts ==
  ASSUME NEW u, DOMAIN sessions' = DOMAIN sessions,
         \A t \in DOMAIN sessions : /\ sessions'[t].user = sessions[t].user
                                    /\ sessions'[t].handed = sessions[t].handed
  PROVE  /\ HandedSessions(u)' = HandedSessions(u)
         /\ OpenedSessions(u)' = OpenedSessions(u)
<1>1. {t \in DOMAIN sessions : sessions[t].user = u}' = {t \in DOMAIN sessions : sessions[t].user = u}
  OBVIOUS
<1>2. {t \in {t \in DOMAIN sessions : sessions[t].handed} : sessions[t].user = u}'
        = {t \in {t \in DOMAIN sessions : sessions[t].handed} : sessions[t].user = u}
  OBVIOUS
<1>3. QED
  BY <1>1, <1>2 DEF HandedSessions, OpenedSessions, SessionsOf

\* A new session is counted as opened, and not as handed over.
LEMMA OpenedCounts ==
  ASSUME Types, NEW u, NEW n, n.user \in Users, ~n.handed, n \in Session,
         sessions' = Append(sessions, n)
  PROVE  /\ HandedSessions(u)' = HandedSessions(u)
         /\ OpenedSessions(u)' = OpenedSessions(u) + Bit(n.user = u)
<1> DEFINE t == Len(sessions) + 1
           S == {i \in DOMAIN sessions : sessions[i].user = u}
           T == {i \in DOMAIN sessions' : sessions'[i].user = u}
<1>1. /\ DOMAIN sessions = 1..Len(sessions) /\ DOMAIN sessions' = 1..t /\ Len(sessions) \in Nat
      /\ \A i \in DOMAIN sessions : sessions'[i] = sessions[i]
      /\ sessions'[t] = n
  BY DEF Types
<1>2. {i \in {i \in DOMAIN sessions' : sessions'[i].handed} : sessions'[i].user = u}
        = {i \in {i \in DOMAIN sessions : sessions[i].handed} : sessions[i].user = u}
  BY <1>1
<1>3. T = (IF n.user = u THEN S \cup {t} ELSE S) /\ t \notin S
  BY <1>1
<1>4. IsFiniteSet(S)
  BY SomeSessionsFinite
<1>5. OpenedSessions(u) = Cardinality(S) /\ OpenedSessions(u)' = Cardinality(T)
  BY DEF OpenedSessions, SessionsOf
<1>6. HandedSessions(u)' = HandedSessions(u)
  BY <1>2 DEF HandedSessions, SessionsOf
<1> HIDE DEF S, T, t
<1>7. Cardinality(S \cup {t}) = Cardinality(S) + 1 /\ Cardinality(S) \in Nat
  BY <1>3, <1>4, FS_AddElement, FS_CardinalityType
<1>8. QED
  BY <1>3, <1>5, <1>6, <1>7 DEF Bit

\* A session that is handed over is counted from then on.
LEMMA HandedCounts ==
  ASSUME SessionsInv, NEW u, NEW t \in DOMAIN sessions, ~sessions[t].handed,
         sessions' = [sessions EXCEPT ![t].handed = TRUE]
  PROVE  /\ HandedSessions(u)' = HandedSessions(u) + Bit(sessions[t].user = u)
         /\ OpenedSessions(u)' = OpenedSessions(u)
<1> DEFINE S == {i \in {i \in DOMAIN sessions : sessions[i].handed} : sessions[i].user = u}
           T == {i \in {i \in DOMAIN sessions' : sessions'[i].handed} : sessions'[i].user = u}
<1>1. /\ DOMAIN sessions' = DOMAIN sessions
      /\ \A i \in DOMAIN sessions :
           /\ sessions'[i].user = sessions[i].user
           /\ sessions'[i].handed = IF i = t THEN TRUE ELSE sessions[i].handed
  BY HandsOverEffect
<1>2. {i \in DOMAIN sessions' : sessions'[i].user = u} = {i \in DOMAIN sessions : sessions[i].user = u}
  BY <1>1
<1>3. T = (IF sessions[t].user = u THEN S \cup {t} ELSE S) /\ t \notin S
  BY <1>1
<1>4. IsFiniteSet(S)
  BY SomeSessionsFinite DEF SessionsInv
<1>5. HandedSessions(u) = Cardinality(S) /\ HandedSessions(u)' = Cardinality(T)
  BY DEF HandedSessions, SessionsOf
<1>6. OpenedSessions(u)' = OpenedSessions(u)
  BY <1>2 DEF OpenedSessions, SessionsOf
<1> HIDE DEF S, T
<1>7. Cardinality(S \cup {t}) = Cardinality(S) + 1 /\ Cardinality(S) \in Nat
  BY <1>3, <1>4, FS_AddElement, FS_CardinalityType
<1>8. QED
  BY <1>3, <1>5, <1>6, <1>7 DEF Bit

\* A step of one tab whose counts add up.
LEMMA TraceStep ==
  ASSUME SessionsInv, used'.faults \in Nat,
         NEW u \in Users, TracesOf(u),
         NEW r \in Tabs, NEW q, request' = [request EXCEPT ![r] = q],
         NEW handed \in {0, 1}, HandedSessions(u)' = HandedSessions(u) + handed,
         NEW opened \in {0, 1}, OpenedSessions(u)' = OpenedSessions(u) + opened,
         NEW audited \in {0, 1}, audits'[u]["auth.login"] = audits[u]["auth.login"] + audited,
         NEW attempted \in {0, 1}, attempts'[u]["success"] = attempts[u]["success"] + attempted,
         NEW lost \in {0, 1}, used'.faults = used.faults + lost,
         handed + Bit(At(q, u, "answer")) <= audited + Bit(At(request[r], u, "answer")),
         audited + Bit(At(q, u, "audit")) <= attempted + Bit(At(request[r], u, "audit")),
         attempted + Bit(At(q, u, "record")) <= opened + Bit(At(request[r], u, "record")),
         opened + Bit(At(request[r], u, "record")) + Bit(At(request[r], u, "audit"))
             + Bit(At(request[r], u, "answer"))
           <= handed + Bit(At(q, u, "record")) + Bit(At(q, u, "audit")) + Bit(At(q, u, "answer")) + lost
  PROVE  TracesOf(u)'
<1>1. \A label : /\ LoggingIn(u, label) \in Nat
                 /\ LoggingIn(u, label)' = LoggingIn(u, label) - Bit(At(request[r], u, label)) + Bit(At(q, u, label))
  BY LoggingInMoves DEF SessionsInv
<1>2. \A p, label : Bit(At(p, u, label)) \in {0, 1}
  BY DEF Bit
<1>3. HandedSessions(u) \in Nat /\ OpenedSessions(u) \in Nat
  BY SessionsCounted DEF SessionsInv
<1>4. audits[u]["auth.login"] \in Nat /\ attempts[u]["success"] \in Nat /\ used.faults \in Nat
  BY DEF SessionsInv, Types, Emails, Outcomes, Actions
<1>5. /\ LoggingIn(u, "record") \in Nat /\ LoggingIn(u, "audit") \in Nat /\ LoggingIn(u, "answer") \in Nat
      /\ LoggingIn(u, "record")' = LoggingIn(u, "record") - Bit(At(request[r], u, "record")) + Bit(At(q, u, "record"))
      /\ LoggingIn(u, "audit")' = LoggingIn(u, "audit") - Bit(At(request[r], u, "audit")) + Bit(At(q, u, "audit"))
      /\ LoggingIn(u, "answer")' = LoggingIn(u, "answer") - Bit(At(request[r], u, "answer")) + Bit(At(q, u, "answer"))
  BY <1>1
<1>6. /\ Bit(At(request[r], u, "record")) \in {0, 1} /\ Bit(At(q, u, "record")) \in {0, 1}
      /\ Bit(At(request[r], u, "audit")) \in {0, 1} /\ Bit(At(q, u, "audit")) \in {0, 1}
      /\ Bit(At(request[r], u, "answer")) \in {0, 1} /\ Bit(At(q, u, "answer")) \in {0, 1}
  BY <1>2
<1>7. /\ HandedSessions(u) + LoggingIn(u, "answer") <= audits[u]["auth.login"]
      /\ audits[u]["auth.login"] + LoggingIn(u, "audit") <= attempts[u]["success"]
      /\ attempts[u]["success"] + LoggingIn(u, "record") <= OpenedSessions(u)
      /\ OpenedSessions(u) <=
           HandedSessions(u) + LoggingIn(u, "record") + LoggingIn(u, "audit")
             + LoggingIn(u, "answer") + used.faults
  BY DEF TracesOf
<1>8. HandedSessions(u)' + LoggingIn(u, "answer")' <= audits'[u]["auth.login"]
  BY <1>3, <1>4, <1>5, <1>6, <1>7
<1>9. audits'[u]["auth.login"] + LoggingIn(u, "audit")' <= attempts'[u]["success"]
  BY <1>3, <1>4, <1>5, <1>6, <1>7
<1>10. attempts'[u]["success"] + LoggingIn(u, "record")' <= OpenedSessions(u)'
  BY <1>3, <1>4, <1>5, <1>6, <1>7
<1>11. OpenedSessions(u)' <=
         HandedSessions(u)' + LoggingIn(u, "record")' + LoggingIn(u, "audit")'
           + LoggingIn(u, "answer")' + used'.faults
  BY <1>3, <1>4, <1>5, <1>6, <1>7
<1>12. QED
  BY <1>8, <1>9, <1>10, <1>11 DEF TracesOf

\* A step that opens, hands over, records and loses nothing, of a request that
\* is between no two of the counted statements before or after it.
LEMMA QuietTrace ==
  ASSUME SessionsInv, NEW u \in Users, TracesOf(u),
         NEW r \in Tabs, NEW q, request' = [request EXCEPT ![r] = q],
         request[r].outcome = "success" => request[r].step \notin {"record", "audit", "answer"},
         q.outcome = "success" => q.step \notin {"record", "audit", "answer"},
         HandedSessions(u)' = HandedSessions(u), OpenedSessions(u)' = OpenedSessions(u),
         audits'[u]["auth.login"] = audits[u]["auth.login"],
         attempts'[u]["success"] = attempts[u]["success"], used'.faults = used.faults
  PROVE  TracesOf(u)'
<1>1. \A label \in {"record", "audit", "answer"} : ~At(request[r], u, label) /\ ~At(q, u, label)
  BY DEF At
<1>2. ASSUME NEW label \in {"record", "audit", "answer"}
      PROVE  LoggingIn(u, label)' = LoggingIn(u, label)
  <2>1. Bit(At(request[r], u, label)) = 0 /\ Bit(At(q, u, label)) = 0
    BY <1>1 DEF Bit
  <2>2. /\ LoggingIn(u, label) \in Nat
        /\ LoggingIn(u, label)' = LoggingIn(u, label) - Bit(At(request[r], u, label)) + Bit(At(q, u, label))
    BY LoggingInMoves DEF SessionsInv
  <2>3. QED
    BY <2>1, <2>2
<1>3. QED
  BY <1>2 DEF TracesOf

-----------------------------------------------------------------------------
\* Every step keeps the counts of every account in order.

LEMMA NumbersOf ==
  ASSUME SessionsInv, NEW u \in Users
  PROVE  /\ HandedSessions(u) \in Nat /\ OpenedSessions(u) \in Nat
         /\ audits[u]["auth.login"] \in Nat /\ attempts[u]["success"] \in Nat /\ used.faults \in Nat
<1>1. HandedSessions(u) \in Nat /\ OpenedSessions(u) \in Nat
  BY SessionsCounted DEF SessionsInv
<1>2. audits[u]["auth.login"] \in Nat /\ attempts[u]["success"] \in Nat /\ used.faults \in Nat
  BY DEF SessionsInv, Types, Emails, Outcomes, Actions
<1>3. QED
  BY <1>1, <1>2

LEMMA SendTraces ==
  ASSUME SessionsInv, NEW u \in Users, TracesOf(u), NEW r \in Tabs,
         \E q : request' = [request EXCEPT ![r] = q] /\ q.outcome = "none",
         request[r].step = "idle",
         UNCHANGED <<sessions, attempts, audits>>, used'.faults = used.faults
  PROVE  TracesOf(u)'
<1>1. PICK q : request' = [request EXCEPT ![r] = q] /\ q.outcome = "none"
  OBVIOUS
<1>2. QED
  BY <1>1, QuietTrace, SameCounts

LEMMA FindUserTraces ==
  ASSUME SessionsInv, NEW u \in Users, TracesOf(u), NEW r \in Tabs, FindUser(r)
  PROVE  TracesOf(u)'
<1>1. PICK q : request' = [request EXCEPT ![r] = q] /\ q.step \in {"invite", "open", "record"}
                 /\ (q.step = "record" => q.outcome # "success")
  BY FindUserSound
<1>2. request[r].step = "find" /\ UNCHANGED <<sessions, attempts, audits, used>>
  BY DEF FindUser
<1>3. QED
  BY <1>1, <1>2, QuietTrace, SameCounts

LEMMA LookForInviteTraces ==
  ASSUME SessionsInv, NEW u \in Users, TracesOf(u), NEW r \in Tabs, LookForInvite(r)
  PROVE  TracesOf(u)'
<1>1. PICK q : request' = [request EXCEPT ![r] = q] /\ q.outcome # "success"
  BY LookForInviteSound
<1>2. request[r].step = "invite" /\ UNCHANGED <<sessions, attempts, audits, used>>
  BY DEF LookForInvite
<1>3. QED
  BY <1>1, <1>2, QuietTrace, SameCounts

LEMMA FindSessionTraces ==
  ASSUME SessionsInv, NEW u \in Users, TracesOf(u), NEW r \in Tabs, FindSession(r)
  PROVE  TracesOf(u)'
<1>1. PICK q : request' = [request EXCEPT ![r] = q] /\ q.outcome = "none"
  BY FindSessionSound
<1>2. request[r].step = "who" /\ UNCHANGED <<sessions, attempts, audits, used>>
  BY DEF FindSession
<1>3. QED
  BY <1>1, <1>2, QuietTrace, SameCounts

LEMMA RevokeSessionTraces ==
  ASSUME SessionsInv, NEW u \in Users, TracesOf(u), NEW r \in Tabs, RevokeSession(r)
  PROVE  TracesOf(u)'
<1>1. /\ \E q : request' = [request EXCEPT ![r] = q] /\ q.outcome = "none"
      /\ request[r].token \in DOMAIN sessions
      /\ sessions' = [sessions EXCEPT ![request[r].token].live = FALSE]
  BY RevokeSessionSound DEF HandedTo
<1>2. PICK q : request' = [request EXCEPT ![r] = q] /\ q.outcome = "none"
  BY <1>1
<1>3. request[r].step = "revoke" /\ UNCHANGED <<attempts, audits, used>>
  BY DEF RevokeSession
<1>4. HandedSessions(u)' = HandedSessions(u) /\ OpenedSessions(u)' = OpenedSessions(u)
  BY <1>1, SessionEnds, SameCounts
<1>5. QED
  BY <1>2, <1>3, <1>4, QuietTrace

LEMMA RecordLoginAttemptTraces ==
  ASSUME SessionsInv, NEW u \in Users, TracesOf(u), NEW r \in Tabs, RecordLoginAttempt(r)
  PROVE  TracesOf(u)'
<1> DEFINE attempted == Bit(At(request[r], u, "record"))
<1>1. PICK q : /\ request' = [request EXCEPT ![r] = q]
               /\ q.step = "audit" /\ q.outcome = request[r].outcome /\ q.user = request[r].user
  BY RecordLoginAttemptSound
<1>2. /\ request[r].step = "record" /\ UNCHANGED <<sessions, audits, used>>
      /\ attempts' = [attempts EXCEPT ![request[r].email][request[r].outcome] = @ + 1]
  BY DEF RecordLoginAttempt
<1>3. /\ request[r].email \in Emails /\ request[r].outcome \in Outcomes
      /\ request[r].outcome = "success" => request[r].user = request[r].email
  BY RecordLoginAttemptSound
<1>4. u \in Emails /\ "success" \in Outcomes /\ attempts \in [Emails -> [Outcomes -> Nat]]
  BY DEF Emails, Outcomes, SessionsInv, Types
<1>5. attempts'[u]["success"] = attempts[u]["success"] + attempted
  <2>1. CASE request[r].outcome = "success" /\ request[r].user = u
    BY <1>2, <1>3, <1>4, <2>1 DEF Bit, At
  <2>2. CASE request[r].outcome = "success" /\ request[r].user # u
    BY <1>2, <1>3, <1>4, <2>2 DEF Bit, At
  <2>3. CASE request[r].outcome # "success"
    BY <1>2, <1>3, <1>4, <2>3 DEF Bit, At
  <2>4. QED
    BY <2>1, <2>2, <2>3
<1>6. /\ Bit(At(q, u, "audit")) = attempted /\ Bit(At(q, u, "record")) = 0 /\ Bit(At(q, u, "answer")) = 0
      /\ Bit(At(request[r], u, "audit")) = 0 /\ Bit(At(request[r], u, "answer")) = 0
  BY <1>1, <1>2 DEF At, Bit
<1>7. attempted \in {0, 1}
  BY DEF Bit
<1>8. HandedSessions(u)' = HandedSessions(u) + 0 /\ OpenedSessions(u)' = OpenedSessions(u) + 0
      /\ audits'[u]["auth.login"] = audits[u]["auth.login"] + 0 /\ used'.faults = used.faults + 0
      /\ used'.faults \in Nat
  BY <1>2, SameCounts, NumbersOf
<1>9. Bit(At(request[r], u, "record")) = attempted
  OBVIOUS
<1> HIDE DEF attempted
<1>10. /\ 0 + Bit(At(q, u, "answer")) <= 0 + Bit(At(request[r], u, "answer"))
       /\ 0 + Bit(At(q, u, "audit")) <= attempted + Bit(At(request[r], u, "audit"))
       /\ attempted + Bit(At(q, u, "record")) <= 0 + Bit(At(request[r], u, "record"))
       /\ 0 + Bit(At(request[r], u, "record")) + Bit(At(request[r], u, "audit"))
              + Bit(At(request[r], u, "answer"))
            <= 0 + Bit(At(q, u, "record")) + Bit(At(q, u, "audit")) + Bit(At(q, u, "answer")) + 0
  BY <1>6, <1>7, <1>9
<1>11. QED
  BY <1>1, <1>5, <1>7, <1>8, <1>10, TraceStep

LEMMA RecordAuditEventTraces ==
  ASSUME SessionsInv, NEW u \in Users, TracesOf(u), NEW r \in Tabs, RecordAuditEvent(r)
  PROVE  TracesOf(u)'
<1> DEFINE audited == Bit(At(request[r], u, "audit"))
<1>1. PICK q : /\ request' = [request EXCEPT ![r] = q]
               /\ q.step = "answer" /\ q.outcome = request[r].outcome /\ q.user = request[r].user
  BY RecordAuditEventSound
<1>2. /\ request[r].step = "audit" /\ UNCHANGED <<sessions, attempts, used>>
      /\ audits' = [audits EXCEPT ![request[r].user][ActionOf(request[r])] = @ + 1]
  BY DEF RecordAuditEvent
<1>3. /\ request[r].user \in Users \cup {NoUser}
      /\ ActionOf(request[r]) = "auth.login" <=> request[r].outcome = "success"
  BY RecordAuditEventSound
<1>4. "auth.login" \in Actions /\ audits \in [Users \cup {NoUser} -> [Actions -> Nat]]
  BY DEF Actions, SessionsInv, Types
<1>5. audits'[u]["auth.login"] = audits[u]["auth.login"] + audited
  <2>1. CASE request[r].outcome = "success" /\ request[r].user = u
    BY <1>2, <1>3, <1>4, <2>1 DEF Bit, At
  <2>2. CASE request[r].user # u
    BY <1>2, <1>3, <1>4, <2>2 DEF Bit, At
  <2>3. CASE request[r].outcome # "success"
    BY <1>2, <1>3, <1>4, <2>3 DEF Bit, At
  <2>4. QED
    BY <2>1, <2>2, <2>3
<1>6. /\ Bit(At(q, u, "answer")) = audited /\ Bit(At(q, u, "record")) = 0 /\ Bit(At(q, u, "audit")) = 0
      /\ Bit(At(request[r], u, "record")) = 0 /\ Bit(At(request[r], u, "answer")) = 0
  BY <1>1, <1>2 DEF At, Bit
<1>7. audited \in {0, 1}
  BY DEF Bit
<1>8. HandedSessions(u)' = HandedSessions(u) + 0 /\ OpenedSessions(u)' = OpenedSessions(u) + 0
      /\ attempts'[u]["success"] = attempts[u]["success"] + 0 /\ used'.faults = used.faults + 0
      /\ used'.faults \in Nat
  BY <1>2, SameCounts, NumbersOf
<1>9. Bit(At(request[r], u, "audit")) = audited
  OBVIOUS
<1> HIDE DEF audited
<1>10. /\ 0 + Bit(At(q, u, "answer")) <= audited + Bit(At(request[r], u, "answer"))
       /\ audited + Bit(At(q, u, "audit")) <= 0 + Bit(At(request[r], u, "audit"))
       /\ 0 + Bit(At(q, u, "record")) <= 0 + Bit(At(request[r], u, "record"))
       /\ 0 + Bit(At(request[r], u, "record")) + Bit(At(request[r], u, "audit"))
              + Bit(At(request[r], u, "answer"))
            <= 0 + Bit(At(q, u, "record")) + Bit(At(q, u, "audit")) + Bit(At(q, u, "answer")) + 0
  BY <1>6, <1>7, <1>9
<1>11. QED
  BY <1>1, <1>5, <1>7, <1>8, <1>10, TraceStep

LEMMA CreateSessionTraces ==
  ASSUME SessionsInv, NEW u \in Users, TracesOf(u), NEW r \in Tabs, CreateSession(r)
  PROVE  TracesOf(u)'
<1> DEFINE opened == Bit(request[r].user = u)
           n == NewSession(request[r])
<1>1. PICK q : /\ request' = [request EXCEPT ![r] = q]
               /\ q.step = "record" /\ q.outcome = "success" /\ q.user = request[r].user
  BY CreateSessionSound
<1>2. /\ request[r].step = "open" /\ sessions' = Append(sessions, n)
      /\ request[r].user \in Users /\ request[r].browser \in Browsers
      /\ UNCHANGED <<attempts, audits, used>>
  BY CreateSessionSound DEF CreateSession
<1>3. n \in Session /\ n.user = request[r].user /\ ~n.handed
  BY <1>2 DEF NewSession, Session
<1>4. /\ HandedSessions(u)' = HandedSessions(u)
      /\ OpenedSessions(u)' = OpenedSessions(u) + Bit(n.user = u)
  <2> HIDE DEF n
  <2> QED
    BY <1>2, <1>3, OpenedCounts DEF SessionsInv
<1>5. OpenedSessions(u)' = OpenedSessions(u) + opened
  BY <1>3, <1>4
<1>6. /\ Bit(At(q, u, "record")) = opened /\ Bit(At(q, u, "audit")) = 0 /\ Bit(At(q, u, "answer")) = 0
      /\ Bit(At(request[r], u, "record")) = 0 /\ Bit(At(request[r], u, "audit")) = 0
      /\ Bit(At(request[r], u, "answer")) = 0
  BY <1>1, <1>2 DEF At, Bit
<1>7. opened \in {0, 1}
  BY DEF Bit
<1>8. /\ HandedSessions(u)' = HandedSessions(u) + 0
      /\ audits'[u]["auth.login"] = audits[u]["auth.login"] + 0
      /\ attempts'[u]["success"] = attempts[u]["success"] + 0 /\ used'.faults = used.faults + 0
      /\ used'.faults \in Nat
  BY <1>2, <1>4, NumbersOf
<1> HIDE DEF opened
<1>10. /\ 0 + Bit(At(q, u, "answer")) <= 0 + Bit(At(request[r], u, "answer"))
       /\ 0 + Bit(At(q, u, "audit")) <= 0 + Bit(At(request[r], u, "audit"))
       /\ 0 + Bit(At(q, u, "record")) <= opened + Bit(At(request[r], u, "record"))
       /\ opened + Bit(At(request[r], u, "record")) + Bit(At(request[r], u, "audit"))
              + Bit(At(request[r], u, "answer"))
            <= 0 + Bit(At(q, u, "record")) + Bit(At(q, u, "audit")) + Bit(At(q, u, "answer")) + 0
  BY <1>6, <1>7
<1>11. QED
  BY <1>1, <1>5, <1>7, <1>8, <1>10, TraceStep

LEMMA FailTraces ==
  ASSUME SessionsInv, NEW u \in Users, TracesOf(u), NEW r \in Tabs, Fail(r)
  PROVE  TracesOf(u)'
<1>1. /\ request' = [request EXCEPT ![r] = NoRequest] /\ used'.faults = used.faults + 1
      /\ UNCHANGED <<sessions, attempts, audits>>
  BY FailSound
<1>2. NoRequest.outcome = "none"
  BY DEF NoRequest
<1>3. /\ Bit(At(NoRequest, u, "record")) = 0 /\ Bit(At(NoRequest, u, "audit")) = 0
      /\ Bit(At(NoRequest, u, "answer")) = 0
  BY <1>2 DEF At, Bit
<1>4. \A label \in {"record", "audit", "answer"} : Bit(At(request[r], u, label)) \in {0, 1}
  BY DEF Bit
<1>5. /\ HandedSessions(u)' = HandedSessions(u) + 0 /\ OpenedSessions(u)' = OpenedSessions(u) + 0
      /\ audits'[u]["auth.login"] = audits[u]["auth.login"] + 0
      /\ attempts'[u]["success"] = attempts[u]["success"] + 0
      /\ used'.faults \in Nat
  BY <1>1, SameCounts, NumbersOf
<1>6. Bit(At(request[r], u, "record")) + Bit(At(request[r], u, "audit")) + Bit(At(request[r], u, "answer")) <= 1
  BY DEF Bit, At
<1>7. /\ 0 + Bit(At(NoRequest, u, "answer")) <= 0 + Bit(At(request[r], u, "answer"))
      /\ 0 + Bit(At(NoRequest, u, "audit")) <= 0 + Bit(At(request[r], u, "audit"))
      /\ 0 + Bit(At(NoRequest, u, "record")) <= 0 + Bit(At(request[r], u, "record"))
      /\ 0 + Bit(At(request[r], u, "record")) + Bit(At(request[r], u, "audit"))
             + Bit(At(request[r], u, "answer"))
           <= 0 + Bit(At(NoRequest, u, "record")) + Bit(At(NoRequest, u, "audit"))
                + Bit(At(NoRequest, u, "answer")) + 1
  BY <1>3, <1>4, <1>6
<1>8. QED
  BY <1>1, <1>5, <1>7, TraceStep

LEMMA AnswerTraces ==
  ASSUME SessionsInv, NEW u \in Users, TracesOf(u), NEW r \in Tabs, Answer(r)
  PROVE  TracesOf(u)'
<1> DEFINE q == request[r]
<1>1. /\ request' = [request EXCEPT ![r] = NoRequest] /\ q.step = "answer"
      /\ UNCHANGED <<attempts, audits, used>>
  BY DEF Answer
<1>2. NoRequest.outcome = "none"
  BY DEF NoRequest
<1>3. CASE HandsOver(q)
  <2> DEFINE t == q.token
             handed == Bit(sessions[t].user = u)
  <2>1. t \in DOMAIN sessions /\ ~sessions[t].handed /\ sessions[t].user = q.user
        /\ q.outcome = "success" /\ sessions' = [sessions EXCEPT ![t].handed = TRUE]
    BY <1>3 DEF HandsOver, Opened, Unhanded
  <2>2. /\ HandedSessions(u)' = HandedSessions(u) + handed
        /\ OpenedSessions(u)' = OpenedSessions(u)
    BY <2>1, HandedCounts
  <2>3. /\ Bit(At(q, u, "answer")) = handed /\ Bit(At(q, u, "record")) = 0 /\ Bit(At(q, u, "audit")) = 0
        /\ Bit(At(NoRequest, u, "record")) = 0 /\ Bit(At(NoRequest, u, "audit")) = 0
        /\ Bit(At(NoRequest, u, "answer")) = 0
    BY <1>1, <1>2, <2>1 DEF At, Bit
  <2>4. handed \in {0, 1}
    BY DEF Bit
  <2>5. /\ OpenedSessions(u)' = OpenedSessions(u) + 0
        /\ audits'[u]["auth.login"] = audits[u]["auth.login"] + 0
        /\ attempts'[u]["success"] = attempts[u]["success"] + 0 /\ used'.faults = used.faults + 0
        /\ used'.faults \in Nat
    BY <1>1, <2>2, NumbersOf
  <2> HIDE DEF handed
  <2>6. /\ handed + Bit(At(NoRequest, u, "answer")) <= 0 + Bit(At(q, u, "answer"))
        /\ 0 + Bit(At(NoRequest, u, "audit")) <= 0 + Bit(At(q, u, "audit"))
        /\ 0 + Bit(At(NoRequest, u, "record")) <= 0 + Bit(At(q, u, "record"))
        /\ 0 + Bit(At(q, u, "record")) + Bit(At(q, u, "audit")) + Bit(At(q, u, "answer"))
             <= handed + Bit(At(NoRequest, u, "record")) + Bit(At(NoRequest, u, "audit"))
                  + Bit(At(NoRequest, u, "answer")) + 0
    BY <2>3, <2>4
  <2>7. QED
    BY <1>1, <2>2, <2>4, <2>5, <2>6, TraceStep
<1>4. CASE q.outcome # "success" /\ sessions' = sessions
  <2>1. HandedSessions(u)' = HandedSessions(u) /\ OpenedSessions(u)' = OpenedSessions(u)
    BY <1>4, SameCounts
  <2>2. QED
    BY <1>1, <1>2, <1>4, <2>1, QuietTrace
<1>5. QED
  BY <1>3, <1>4, AnswerCases DEF Clears

LEMMA ExpireTraces ==
  ASSUME SessionsInv, NEW u \in Users, TracesOf(u), NEW t \in Tokens, Expire(t)
  PROVE  TracesOf(u)'
<1>1. /\ t \in DOMAIN sessions /\ sessions' = [sessions EXCEPT ![t].live = FALSE]
      /\ UNCHANGED <<attempts, audits, request, used>>
  BY DEF Expire, Live
<1>2. HandedSessions(u)' = HandedSessions(u) /\ OpenedSessions(u)' = OpenedSessions(u)
  BY <1>1, SessionEnds, SameCounts
<1>3. \A label : LoggingIn(u, label)' = LoggingIn(u, label)
  BY <1>1 DEF LoggingIn
<1>4. QED
  BY <1>1, <1>2, <1>3 DEF TracesOf

LEMMA IdleTraces ==
  ASSUME NEW u \in Users, TracesOf(u), UNCHANGED <<sessions, attempts, audits, request, used>>
  PROVE  TracesOf(u)'
BY DEF TracesOf, HandedSessions, OpenedSessions, SessionsOf, LoggingIn

-----------------------------------------------------------------------------
\* The inductive invariant.

LEMMA InitSound == Init => IInv
<1> SUFFICES ASSUME Init PROVE IInv
  OBVIOUS
<1>1. Types
  <2>1. sessions \in Seq(Session) /\ Len(sessions) <= MaxSessions /\ DOMAIN sessions = {}
    BY LoginsAssumption DEF Init
  <2>2. cookie \in [Browsers -> Tokens] /\ disabled \subseteq Users /\ used \in [requests : Nat, faults : Nat]
    BY TokensTyped DEF Init
  <2>3. /\ attempts \in [Emails -> [Outcomes -> Nat]]
        /\ audits \in [Users \cup {NoUser} -> [Actions -> Nat]]
    BY DEF Init
  <2>4. request \in [Tabs -> Request]
    BY NoRequestTyped DEF Init
  <2>5. QED
    BY <2>1, <2>2, <2>3, <2>4 DEF Types
<1>2. RequestsOK /\ TokensApart
  BY NoRequestTyped DEF Init, RequestsOK, TokensApart
<1>3. CookiesOK
  BY DEF Init, CookiesOK
<1>4. ASSUME NEW u \in Users PROVE TracesOf(u)
  <2>1. /\ {t \in DOMAIN sessions : sessions[t].user = u} = {}
        /\ {t \in {t \in DOMAIN sessions : sessions[t].handed} : sessions[t].user = u} = {}
    BY DEF Init
  <2>2. OpenedSessions(u) = 0 /\ HandedSessions(u) = 0
    BY <2>1, FS_EmptySet DEF OpenedSessions, HandedSessions, SessionsOf
  <2>3. ASSUME NEW label PROVE LoggingIn(u, label) = 0
    <3>1. {r \in Tabs : request[r].outcome = "success" /\ request[r].user = u /\ request[r].step = label} = {}
      BY DEF Init, NoRequest
    <3>2. QED
      BY <3>1, FS_EmptySet DEF LoggingIn
  <2>4. audits[u]["auth.login"] = 0 /\ attempts[u]["success"] = 0 /\ used.faults = 0
    BY DEF Init, Emails, Outcomes, Actions
  <2>5. QED
    BY <2>2, <2>3, <2>4 DEF TracesOf
<1>5. QED
  BY <1>1, <1>2, <1>3, <1>4 DEF IInv, SessionsInv

\* The three kinds of request that a browser sends.
LEMMA SentSound ==
  ASSUME SessionsInv, NEW r \in Tabs, NEW b \in Browsers,
         \/ \E email \in Emails, right \in BOOLEAN : SendLogin(r, b, email, right)
         \/ SendLogout(r, b)
         \/ \E kind \in {"me", "admin"} : SendGuarded(r, b, kind)
  PROVE  /\ SessionsInv' /\ UNCHANGED <<sessions, disabled, cookie, attempts, audits>>
         /\ \A u \in Users : TracesOf(u) => TracesOf(u)'
<1>1. PICK kind \in {"login", "logout", "me", "admin"}, email \in Emails \cup {NoUser},
           right \in BOOLEAN, label \in {"find", "who"} :
        /\ kind = "login" => label = "find" /\ email \in Emails /\ (right => email \in Users)
        /\ kind # "login" => label = "who"
        /\ Send(r, kind, b, email, right, label)
  <2>1. CASE \E email \in Emails, right \in BOOLEAN : SendLogin(r, b, email, right)
    BY <2>1 DEF SendLogin
  <2>2. CASE SendLogout(r, b)
    BY <2>2, Zenon DEF SendLogout
  <2>3. CASE \E kind \in {"me", "admin"} : SendGuarded(r, b, kind)
    BY <2>3, Zenon DEF SendGuarded
  <2>4. QED
    BY <2>1, <2>2, <2>3
<1>2. UNCHANGED <<sessions, disabled, cookie, attempts, audits>>
  BY <1>1 DEF Send
<1>3. /\ SessionsInv'
      /\ \E q : /\ request' = [request EXCEPT ![r] = q] /\ q.outcome = "none"
                /\ request[r].step = "idle"
      /\ used'.faults = used.faults
  BY <1>1, SendSound
<1>4. QED
  BY <1>2, <1>3, SendTraces

LEMMA StepSound ==
  ASSUME SessionsInv, NEW r \in Tabs, RequestStep(r)
  PROVE  SessionsInv' /\ \A u \in Users : TracesOf(u) => TracesOf(u)'
<1>1. CASE FindUser(r)
  BY <1>1, FindUserSound, FindUserTraces
<1>2. CASE LookForInvite(r)
  BY <1>2, LookForInviteSound, LookForInviteTraces
<1>3. CASE CreateSession(r)
  BY <1>3, CreateSessionSound, CreateSessionTraces
<1>4. CASE RecordLoginAttempt(r)
  BY <1>4, RecordLoginAttemptSound, RecordLoginAttemptTraces
<1>5. CASE FindSession(r)
  BY <1>5, FindSessionSound, FindSessionTraces
<1>6. CASE RevokeSession(r)
  BY <1>6, RevokeSessionSound, RevokeSessionTraces
<1>7. CASE RecordAuditEvent(r)
  BY <1>7, RecordAuditEventSound, RecordAuditEventTraces
<1>8. CASE Answer(r)
  BY <1>8, AnswerSound, AnswerTraces
<1>9. QED
  BY <1>1, <1>2, <1>3, <1>4, <1>5, <1>6, <1>7, <1>8 DEF RequestStep

LEMMA NextSound == IInv /\ [Next]_vars => IInv'
<1> SUFFICES ASSUME IInv, [Next]_vars PROVE IInv'
  OBVIOUS
<1> SUFFICES SessionsInv' /\ \A u \in Users : TracesOf(u) => TracesOf(u)'
  BY DEF IInv
<1>1. SessionsInv
  BY DEF IInv
<1>2. CASE \E r \in Tabs, b \in Browsers :
             \/ \E email \in Emails, right \in BOOLEAN : SendLogin(r, b, email, right)
             \/ SendLogout(r, b)
             \/ \E kind \in {"me", "admin"} : SendGuarded(r, b, kind)
  BY <1>1, <1>2, SentSound
<1>3. CASE \E r \in Tabs : RequestStep(r)
  BY <1>1, <1>3, StepSound
<1>4. CASE \E r \in Tabs : Fail(r)
  BY <1>1, <1>4, FailSound, FailTraces
<1>5. CASE \E t \in Tokens : Expire(t)
  BY <1>1, <1>5, ExpireSound, ExpireTraces
<1>6. CASE \E u \in Users : Disable(u)
  BY <1>1, <1>6, DisableSound, IdleTraces DEF Disable
<1>7. CASE UNCHANGED vars
  <2>1. UNCHANGED <<sessions, disabled, cookie, attempts, audits, request, used>>
    BY <1>7 DEF vars
  <2>2. SessionsInv'
    <3>1. Types' /\ TokensApart' /\ CookiesOK'
      BY <1>1, <2>1 DEF SessionsInv, Types, CookiesOK, HandedTo, TokensApart
    <3>2. SessionsAdvance /\ \A p \in Tabs : Opened(request[p]) => ~sessions'[request[p].token].handed
      BY <1>1, <2>1, OpenedUnhanded DEF SessionsAdvance, Unhanded
    <3>3. QED
      BY <1>1, <2>1, <3>1, <3>2, AdvancingStep
  <2>3. QED
    BY <2>1, <2>2, IdleTraces
<1>8. QED
  BY <1>2, <1>3, <1>4, <1>5, <1>6, <1>7 DEF Next

\* What a request under way may rely on, whatever other tabs, time and operators
\* do meanwhile (login, POST /auth/logout, requireAdmin).
THEOREM LoginsInvariant == Spec => []IInv
<1>1. Init => IInv
  BY InitSound
<1>2. IInv /\ [Next]_vars => IInv'
  BY NextSound
<1>3. QED
  BY <1>1, <1>2, PTL DEF Spec

\* A token in a browser has its audit event, an audited login its attempt, a
\* successful attempt its session, and only a fault leaves a session that nobody
\* was handed: for any number of tabs, accounts and faults (login).
THEOREM TracesOfLogins == Spec => []LoginsLeaveTraces
<1>1. IInv => LoginsLeaveTraces
  <2> SUFFICES ASSUME IInv, NEW u \in Users
               PROVE  /\ HandedSessions(u) <= audits[u]["auth.login"]
                      /\ audits[u]["auth.login"] <= attempts[u]["success"]
                      /\ attempts[u]["success"] <= OpenedSessions(u)
                      /\ OpenedSessions(u) <= HandedSessions(u) + (LoggingIn(u, "record")
                           + LoggingIn(u, "audit") + LoggingIn(u, "answer")) + used.faults
    BY DEF LoginsLeaveTraces, HandedSessions, OpenedSessions
  <2>1. /\ HandedSessions(u) \in Nat /\ OpenedSessions(u) \in Nat
        /\ audits[u]["auth.login"] \in Nat /\ attempts[u]["success"] \in Nat /\ used.faults \in Nat
    BY NumbersOf DEF IInv
  <2>2. \A label : LoggingIn(u, label) \in Nat
    <3>1. \A label : IsFiniteSet({r \in Tabs : request[r].outcome = "success" /\ request[r].user = u
                                              /\ request[r].step = label})
      BY FS_Subset, LoginsAssumption
    <3>2. QED
      BY <3>1, FS_CardinalityType DEF LoggingIn
  <2>3. LoggingIn(u, "record") \in Nat /\ LoggingIn(u, "audit") \in Nat /\ LoggingIn(u, "answer") \in Nat
    BY <2>2
  <2>4. TracesOf(u)
    BY DEF IInv
  <2>5. QED
    BY <2>1, <2>3, <2>4 DEF TracesOf
<1>2. QED
  BY <1>1, LoginsInvariant, PTL

\* When a logout's answer is made, the session it was sent with is over, and no
\* step of another tab has brought it back (POST /auth/logout).
THEOREM LogoutsEndSessions == Spec => []LogoutsRevoke
<1>1. IInv => LogoutsRevoke
  <2> SUFFICES ASSUME IInv, NEW r \in Tabs, request[r].kind = "logout",
                      request[r].step \in {"audit", "answer"}
               PROVE  request[r].token \notin Live
    BY DEF LogoutsRevoke
  <2>1. RequestOK(request[r])
    BY RequestOf DEF IInv
  <2>2. QED
    BY <2>1 DEF RequestOK, LogoutOK, NoRequest
<1>2. QED
  BY <1>1, LoginsInvariant, PTL

-----------------------------------------------------------------------------
\* Cookies.

\* An answer that takes a live session's cookie away is a login's or a logout's,
\* or its request was sent under another cookie: never a guarded route's, to a
\* user who is still signed in (login, POST /auth/logout, requireAdmin).
THEOREM SignedInUntilLogout == Spec => LiveCookiesStay
<1>1. IInv /\ [Next]_vars =>
        [\A b \in Browsers :
           cookie[b] \in Live /\ sessions[cookie[b]].user \notin disabled /\ cookie'[b] # cookie[b] =>
             \E r \in Tabs :
               /\ request[r].step = "answer" /\ request[r].browser = b
               /\ request[r].kind \in {"login", "logout"} \/ request[r].token # cookie[b]]_vars
  <2> SUFFICES ASSUME IInv, Next, NEW b \in Browsers,
                      cookie[b] \in Live, sessions[cookie[b]].user \notin disabled,
                      cookie'[b] # cookie[b]
               PROVE  \E r \in Tabs :
                        /\ request[r].step = "answer" /\ request[r].browser = b
                        /\ request[r].kind \in {"login", "logout"} \/ request[r].token # cookie[b]
    BY DEF vars
  <2>1. SessionsInv
    BY DEF IInv
  <2>2. PICK r \in Tabs : Answer(r)
    <3>1. CASE \E r \in Tabs, c \in Browsers :
                 \/ \E email \in Emails, right \in BOOLEAN : SendLogin(r, c, email, right)
                 \/ SendLogout(r, c)
                 \/ \E kind \in {"me", "admin"} : SendGuarded(r, c, kind)
      BY <2>1, <3>1, SentSound
    <3>2. CASE \E r \in Tabs : RequestStep(r)
      BY <3>2 DEF RequestStep, FindUser, LookForInvite, CreateSession, RecordLoginAttempt,
                  FindSession, RevokeSession, RecordAuditEvent
    <3>3. CASE \E r \in Tabs : Fail(r)
      BY <3>3 DEF Fail
    <3>4. CASE \E t \in Tokens : Expire(t)
      BY <3>4 DEF Expire
    <3>5. CASE \E u \in Users : Disable(u)
      BY <3>5 DEF Disable
    <3>6. QED
      BY <3>1, <3>2, <3>3, <3>4, <3>5 DEF Next
  <2>3. request[r].step = "answer" /\ request[r].browser \in Browsers
    BY <2>1, <2>2, AnswerCases DEF Answer
  <2>4. CASE HandsOver(request[r])
    BY <2>1, <2>3, <2>4 DEF HandsOver, Opened, SessionsInv, Types
  <2>5. CASE Clears(request[r])
    <3>1. request[r].browser = b
      BY <2>1, <2>3, <2>5 DEF Clears, SessionsInv, Types
    <3>2. request[r].answer = {0} /\ RequestOK(request[r]) /\ request[r] \in Request
      BY <2>1, <2>5, RequestOf DEF Clears
    <3>3. CASE AskOK(request[r]) /\ request[r].token = cookie[b]
      <4>1. CurrentUser(cookie[b]) = {}
        BY <3>2, <3>3 DEF AskOK
      <4>2. sessions[cookie[b]].user \in Users
        BY <2>1, SessionAt DEF Live, Session
      <4>3. QED
        BY <4>1, <4>2 DEF CurrentUser
    <3>4. QED
      BY <2>3, <3>1, <3>2, <3>3 DEF RequestOK, NoRequest
  <2>6. QED
    BY <2>1, <2>2, <2>4, <2>5, AnswerCases
<1>2. QED
  BY <1>1, LoginsInvariant, PTL DEF Spec, LiveCookiesStay

-----------------------------------------------------------------------------
\* The promise of AdminSessions, step by step.

LEMMA InitPromised == Init => Sessions!SessionInit
BY DEF Init, Sessions!SessionInit

LEMMA AnswerPromised ==
  ASSUME SessionsInv, NEW r \in Tabs, Answer(r)
  PROVE  [Sessions!SessionStep]_(Sessions!sessionVars)
<1> DEFINE q == request[r]
           t == q.token
<1>1. UNCHANGED disabled /\ q.browser \in Browsers
  BY AnswerCases DEF Answer
<1>2. CASE HandsOver(q)
  <2>1. t \in DOMAIN sessions /\ ~sessions[t].handed /\ sessions[t].browser = q.browser
    BY <1>2 DEF HandsOver, Unhanded
  <2>2. t \in Sessions!Tokens
    BY <2>1, SessionAt DEF Tokens, Sessions!Tokens
  <2>3. Sessions!HandOver(t)
    BY <1>1, <1>2, <2>1 DEF HandsOver, Sessions!HandOver
  <2>4. QED
    BY <2>2, <2>3 DEF Sessions!SessionStep
<1>3. CASE Clears(q)
  <2>1. CASE cookie[q.browser] = 0
    <3>1. cookie' = cookie
      BY <1>1, <1>3, <2>1 DEF Clears, SessionsInv, Types
    <3>2. QED
      BY <1>1, <1>3, <3>1 DEF Clears, Sessions!sessionVars
  <2>2. CASE cookie[q.browser] # 0
    <3>1. Sessions!ClearCookie(q.browser)
      BY <1>1, <1>3, <2>2 DEF Clears, Sessions!ClearCookie
    <3>2. QED
      BY <1>1, <3>1 DEF Sessions!SessionStep
  <2>3. QED
    BY <2>1, <2>2
<1>4. CASE UNCHANGED <<sessions, cookie>>
  BY <1>1, <1>4 DEF Sessions!sessionVars
<1>5. QED
  BY <1>2, <1>3, <1>4, AnswerCases

LEMMA StepPromised ==
  ASSUME SessionsInv, NEW r \in Tabs, RequestStep(r)
  PROVE  [Sessions!SessionStep]_(Sessions!sessionVars)
<1>1. CASE FindUser(r) \/ LookForInvite(r) \/ RecordLoginAttempt(r) \/ FindSession(r) \/ RecordAuditEvent(r)
  BY <1>1 DEF FindUser, LookForInvite, RecordLoginAttempt, FindSession, RecordAuditEvent,
              Sessions!sessionVars
<1>2. CASE CreateSession(r)
  <2>1. /\ request[r].user \in Users /\ request[r].browser \in Browsers
        /\ sessions' = Append(sessions, NewSession(request[r])) /\ Len(sessions) < MaxSessions
        /\ UNCHANGED <<disabled, cookie>>
    BY <1>2, CreateSessionSound DEF CreateSession
  <2>2. Sessions!OpenSession(request[r].browser, request[r].user)
    BY <2>1 DEF Sessions!OpenSession, NewSession
  <2>3. QED
    BY <2>1, <2>2 DEF Sessions!SessionStep
<1>3. CASE RevokeSession(r)
  <2> DEFINE t == request[r].token
  <2>1. /\ t \in DOMAIN sessions /\ sessions[t].handed
        /\ sessions' = [sessions EXCEPT ![t].live = FALSE]
        /\ UNCHANGED <<disabled, cookie>>
    BY <1>3, RevokeSessionSound DEF HandedTo, RevokeSession
  <2>2. CASE t \in Live
    <3>1. Sessions!Revoke(t) /\ t \in Sessions!Tokens
      BY <2>1, <2>2, SessionAt DEF Sessions!Revoke, Live, Sessions!Live, Tokens, Sessions!Tokens
    <3>2. QED
      BY <3>1 DEF Sessions!SessionStep
  <2>3. CASE t \notin Live
    <3>1. sessions \in Seq(Session) /\ sessions[t] \in Session /\ sessions[t].live = FALSE
      BY <2>1, <2>3, SessionAt DEF Live, SessionsInv, Types, Session
    <3>2. [sessions[t] EXCEPT !.live = FALSE] = sessions[t]
      BY <3>1 DEF Session
    <3>3. sessions' = sessions
      BY <2>1, <3>1, <3>2
    <3>4. QED
      BY <2>1, <3>3 DEF Sessions!sessionVars
  <2>4. QED
    BY <2>2, <2>3
<1>4. CASE Answer(r)
  BY <1>4, AnswerPromised
<1>5. QED
  BY <1>1, <1>2, <1>3, <1>4 DEF RequestStep

\* The statements and answers of logins and logouts, with what fails between
\* them, are the sessions that the guarded routes rely on: each step opens,
\* hands over, revokes, expires or clears as AdminSessions allows, or changes
\* nothing of it.
THEOREM LoginsAreSessions == Spec => ImplementsSessions
<1>1. IInv /\ [Next]_vars => [Sessions!SessionStep]_(Sessions!sessionVars)
  <2> SUFFICES ASSUME IInv, [Next]_vars PROVE [Sessions!SessionStep]_(Sessions!sessionVars)
    OBVIOUS
  <2>1. SessionsInv
    BY DEF IInv
  <2>2. CASE \E r \in Tabs, b \in Browsers :
               \/ \E email \in Emails, right \in BOOLEAN : SendLogin(r, b, email, right)
               \/ SendLogout(r, b)
               \/ \E kind \in {"me", "admin"} : SendGuarded(r, b, kind)
    <3>1. UNCHANGED <<sessions, disabled, cookie>>
      BY <2>1, <2>2, SentSound
    <3>2. QED
      BY <3>1 DEF Sessions!sessionVars
  <2>3. CASE \E r \in Tabs : RequestStep(r)
    BY <2>1, <2>3, StepPromised
  <2>4. CASE \E r \in Tabs : Fail(r)
    BY <2>4 DEF Fail, Sessions!sessionVars
  <2>5. CASE \E t \in Tokens : Expire(t)
    BY <2>5 DEF Expire, Live, Tokens, Sessions!Expire, Sessions!Live, Sessions!Tokens, Sessions!SessionStep
  <2>6. CASE \E u \in Users : Disable(u)
    BY <2>6 DEF Disable, Sessions!Disable, Sessions!SessionStep
  <2>7. CASE UNCHANGED vars
    BY <2>7 DEF vars, Sessions!sessionVars
  <2>8. QED
    BY <2>2, <2>3, <2>4, <2>5, <2>6, <2>7 DEF Next
<1>2. QED
  BY <1>1, InitPromised, LoginsInvariant, PTL DEF Spec, ImplementsSessions, Sessions!SessionSpec
=============================================================================
