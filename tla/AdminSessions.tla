---------------------------- MODULE AdminSessions ----------------------------
(***************************************************************************)
(* What the API promises of sessions: a login in a browser opens one, its  *)
(* token is handed to that browser at most once, and only a logout of that *)
(* browser, or time, ends it, for ever.  A browser's cookie names the last *)
(* session handed to it, or nothing.                                       *)
(*                                                                         *)
(* This is the view that the guarded routes (AdminApi) build on; Logins    *)
(* has the statements and answers behind each step and implements it.  A   *)
(* token is the number of its session.                                     *)
(***************************************************************************)
EXTENDS Integers, Sequences

CONSTANTS
  Browsers,
  Users,
  Admins,          \* the users whose role is admin
  NoUser,
  MaxSessions      \* bound: sessions opened

ASSUME SessionsAssumption ==
  /\ Admins \subseteq Users
  /\ NoUser \notin Users
  /\ MaxSessions \in Nat

VARIABLES
  sessions,        \* user_sessions, in id order, and the browser of each login
  disabled,        \* users with a disabled_at
  cookie           \* the token each browser presents, 0 when it has none

sessionVars == <<sessions, disabled, cookie>>

Tokens == 0..MaxSessions

\* live: neither revoked nor expired.  handed: the browser was given the token.
Session == [user : Users, browser : Browsers, live : BOOLEAN, handed : BOOLEAN]

SessionInit ==
  /\ sessions = <<>>
  /\ disabled = {}
  /\ cookie = [b \in Browsers |-> 0]

Live == {t \in DOMAIN sessions : sessions[t].live}

\* Mutant of CurrentUser: revoked sessions are not left out.
AnySessionsUser(t) ==
  {u \in Users \ disabled : t \in DOMAIN sessions /\ sessions[t].user = u}

\* findUserBySessionTokenHash: the user of a token, if any.
CurrentUser(t) == {u \in Users \ disabled : t \in Live /\ sessions[t].user = u}

\* createSession, at the end of a login.
OpenSession(b, u) ==
  /\ Len(sessions) < MaxSessions
  /\ sessions' = Append(sessions, [user |-> u, browser |-> b, live |-> TRUE, handed |-> FALSE])
  /\ UNCHANGED <<disabled, cookie>>

\* The answer that sets the cookie; it stays out when a later statement fails.
HandOver(t) ==
  /\ t \in DOMAIN sessions
  /\ ~sessions[t].handed
  /\ sessions' = [sessions EXCEPT ![t].handed = TRUE]
  /\ cookie' = [cookie EXCEPT ![sessions[t].browser] = t]
  /\ UNCHANGED disabled

\* A logout ends the session it was sent with.
Revoke(t) ==
  /\ t \in Live
  /\ sessions[t].handed
  /\ sessions' = [sessions EXCEPT ![t].live = FALSE]
  /\ UNCHANGED <<disabled, cookie>>

\* The answer to a logout, or a 401 to a request under a session that is over.
ClearCookie(b) ==
  /\ cookie[b] # 0
  /\ cookie' = [cookie EXCEPT ![b] = 0]
  /\ UNCHANGED <<sessions, disabled>>

Expire(t) ==
  /\ t \in Live
  /\ sessions' = [sessions EXCEPT ![t].live = FALSE]
  /\ UNCHANGED <<disabled, cookie>>

\* An operator sets disabled_at in the database.
Disable(u) ==
  /\ u \notin disabled
  /\ disabled' = disabled \cup {u}
  /\ UNCHANGED <<sessions, cookie>>

SessionStep ==
  \/ \E b \in Browsers, u \in Users : OpenSession(b, u)
  \/ \E b \in Browsers : ClearCookie(b)
  \/ \E t \in Tokens : HandOver(t) \/ Revoke(t) \/ Expire(t)
  \/ \E u \in Users : Disable(u)

SessionSpec == SessionInit /\ [][SessionStep]_sessionVars
=============================================================================
