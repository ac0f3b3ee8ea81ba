------------------------------ MODULE Sessions ------------------------------
(***************************************************************************)
(* TokenService, and the handlers of AuthService and UsersService that     *)
(* issue, rotate and revoke sessions.                                      *)
(*                                                                         *)
(* A session row is known by its refresh token (refreshTokenHash is        *)
(* unique).  rotate reads the presented session, inserts a child session   *)
(* and only then marks the parent, by an update whose condition is checked *)
(* when it writes; between any two awaits other requests run.              *)
(*                                                                         *)
(* Expiry, lockout and MFA only refuse requests that the model lets by, so *)
(* they are left out.                                                      *)
(***************************************************************************)
EXTENDS Handlers, FiniteSets

CONSTANTS
  Users,
  Tokens          \* refresh tokens that sessions can have

ASSUME SessionsAssumption == None \notin Users \cup Tokens

VARIABLES
  account,        \* users.status and users."mustChangePassword"
  session,        \* the sessions rows, and the login each one stems from
  handed,         \* tokens that clients were given
  ended           \* logins of a user whose sessions were all revoked since

sessionVars == <<account, session, handed, ended>>

NoSession == [user |-> None, login |-> None, revoked |-> FALSE, rotatedTo |-> None]

SessionRow ==
  {NoSession} \cup
  [user : Users, login : Tokens, revoked : BOOLEAN, rotatedTo : Tokens \cup {None}]

SessionRequest ==
  {Idle} \cup
  [at : {"issueSession", "createChild", "markRotated", "answer", "deleteChild",
         "setPassword", "setTemporaryPassword", "revokeAll", "revokeAndSuspend", "suspend"},
   user : Users, token : Tokens \cup {None}, child : Tokens \cup {None}]

\* A rotated session is revoked, in favour of one of the same login.
SessionsTypeOK ==
  /\ account \in [Users -> [status : {"ACTIVE", "SUSPENDED"}, mustChangePassword : BOOLEAN]]
  /\ session \in [Tokens -> SessionRow]
  /\ \A t \in Tokens :
       session[t].rotatedTo # None =>
         session[t].revoked /\ session[session[t].rotatedTo].login = session[t].login
  /\ handed \subseteq Tokens
  /\ ended \subseteq Tokens

SessionsInit ==
  /\ account = [u \in Users |-> [status |-> "ACTIVE", mustChangePassword |-> FALSE]]
  /\ session = [t \in Tokens |-> NoSession]
  /\ handed = {}
  /\ ended = {}

Begin(r, at, u, t) == Start(r, [at |-> at, user |-> u, token |-> t, child |-> None])

\* A random token: no client holds it, and no row has its hash.  Such tokens are
\* alike, so one of them stands for all.
Fresh ==
  LET unused == {t \in Tokens : session[t] = NoSession}
  IN  IF unused = {} THEN {} ELSE {CHOOSE t \in unused : TRUE}

Insert(t, user, login) ==
  session' = [session EXCEPT ![t] =
                [user |-> user, login |-> login, revoked |-> FALSE, rotatedTo |-> None]]

-----------------------------------------------------------------------------
(* AuthService.login: the checks, then, awaits later, the session.         *)

Login(r, u) ==
  /\ account[u].status # "SUSPENDED"
  /\ ~ account[u].mustChangePassword
  /\ Begin(r, "issueSession", u, None)
  /\ UNCHANGED sessionVars

IssueSession(r) ==
  /\ request[r].at = "issueSession"
  /\ \E t \in Fresh : Insert(t, request[r].user, t) /\ handed' = handed \cup {t}
  /\ Stop(r)
  /\ UNCHANGED <<account, ended>>

-----------------------------------------------------------------------------
(* TokenService.rotate                                                     *)

\* A token that was rotated or revoked before is reused: every session of its
\* user is to be revoked.
Rotate(r, t) ==
  /\ t \in handed
  /\ Begin(r, IF session[t].revoked \/ session[t].rotatedTo # None
              THEN "revokeAll" ELSE "createChild",
           session[t].user, t)
  /\ UNCHANGED sessionVars

CreateChild(r) ==
  /\ request[r].at = "createChild"
  /\ \E c \in Fresh :
       /\ Insert(c, request[r].user, session[request[r].token].login)
       /\ request' = [request EXCEPT ![r].at = "markRotated", ![r].child = c]
  /\ UNCHANGED <<account, handed, ended>>

\* Mutant: the condition is on rotatedToId only.
MarkRotatedThoughRevoked(r) ==
  LET t == request[r].token IN
  /\ request[r].at = "markRotated"
  /\ IF session[t].rotatedTo = None
     THEN /\ session' = [session EXCEPT ![t].revoked = TRUE, ![t].rotatedTo = request[r].child]
          /\ Go(r, "answer")
     ELSE Go(r, "deleteChild") /\ UNCHANGED session
  /\ UNCHANGED <<account, handed, ended>>

\* Mutant: the rotated session is not revoked.
MarkRotatedOnly(r) ==
  LET t == request[r].token IN
  /\ request[r].at = "markRotated"
  /\ IF session[t].rotatedTo = None /\ ~ session[t].revoked
     THEN session' = [session EXCEPT ![t].rotatedTo = request[r].child] /\ Go(r, "answer")
     ELSE Go(r, "deleteChild") /\ UNCHANGED session
  /\ UNCHANGED <<account, handed, ended>>

\* The update that decides between rotations of one token.
MarkRotated(r) ==
  LET t == request[r].token IN
  /\ request[r].at = "markRotated"
  /\ IF session[t].rotatedTo = None /\ ~ session[t].revoked
     THEN /\ session' = [session EXCEPT ![t].revoked = TRUE, ![t].rotatedTo = request[r].child]
          /\ Go(r, "answer")
     ELSE Go(r, "deleteChild") /\ UNCHANGED session
  /\ UNCHANGED <<account, handed, ended>>

\* The security event is recorded and the client has its token.
AnswerRotated(r) ==
  /\ request[r].at = "answer"
  /\ handed' = handed \cup {request[r].child}
  /\ Stop(r)
  /\ UNCHANGED <<account, session, ended>>

DeleteChild(r) ==
  /\ request[r].at = "deleteChild"
  /\ session' = [session EXCEPT ![request[r].child] = NoSession]
  /\ Go(r, "revokeAll")
  /\ UNCHANGED <<account, handed, ended>>

\* TokenService.revokeAllSessionsForUser and UsersService.revokeSessions.
RevokeAll(r) ==
  LET u == request[r].user
      mine == {t \in Tokens : session[t].user = u}
  IN
  /\ request[r].at \in {"revokeAll", "revokeAndSuspend"}
  /\ session' = [t \in Tokens |->
                   IF t \in mine THEN [session[t] EXCEPT !.revoked = TRUE] ELSE session[t]]
  /\ ended' = ended \cup {session[t].login : t \in mine}
  /\ IF request[r].at = "revokeAndSuspend" THEN Go(r, "suspend") ELSE Stop(r)
  /\ UNCHANGED <<account, handed>>

-----------------------------------------------------------------------------
\* TokenService.revoke
Logout(t) ==
  /\ t \in handed
  /\ session' = [session EXCEPT ![t].revoked = TRUE]
  /\ UNCHANGED <<account, handed, ended, request>>

\* AuthService.changeForcedPassword reads the account, sets the password and
\* revokes; UsersService.resetPassword does so with a temporary one.
ChangeForcedPassword(r, u) ==
  /\ account[u].mustChangePassword
  /\ account[u].status # "SUSPENDED"
  /\ Begin(r, "setPassword", u, None)
  /\ UNCHANGED sessionVars

ResetPassword(r, u) ==
  /\ Begin(r, "setTemporaryPassword", u, None)
  /\ UNCHANGED sessionVars

SetPassword(r) ==
  /\ request[r].at \in {"setPassword", "setTemporaryPassword"}
  /\ account' = [account EXCEPT ![request[r].user].mustChangePassword =
                   request[r].at = "setTemporaryPassword"]
  /\ Go(r, "revokeAll")
  /\ UNCHANGED <<session, handed, ended>>

\* UsersService.resetMfa: the authenticator is removed, then the sessions.
ResetMfa(r, u) ==
  /\ Begin(r, "revokeAll", u, None)
  /\ UNCHANGED sessionVars

\* UsersService.update revokes the sessions, then sets the status.
Suspend(r, u) ==
  /\ Begin(r, "revokeAndSuspend", u, None)
  /\ UNCHANGED sessionVars

SetSuspended(r) ==
  /\ request[r].at = "suspend"
  /\ account' = [account EXCEPT ![request[r].user].status = "SUSPENDED"]
  /\ Stop(r)
  /\ UNCHANGED <<session, handed, ended>>

Reactivate(u) ==
  /\ account' = [account EXCEPT ![u].status = "ACTIVE"]
  /\ UNCHANGED <<session, handed, ended, request>>

\* An await throws, the client gives up or the API crashes.
FailSessionRequest(r) == Abandon(r) /\ UNCHANGED sessionVars

SessionsNext ==
  \/ \E r \in Requests :
       \/ \E u \in Users :
            \/ Login(r, u)
            \/ ChangeForcedPassword(r, u)
            \/ ResetPassword(r, u)
            \/ ResetMfa(r, u)
            \/ Suspend(r, u)
       \/ \E t \in Tokens : Rotate(r, t)
       \/ IssueSession(r)
       \/ CreateChild(r)
       \/ MarkRotated(r)
       \/ AnswerRotated(r)
       \/ DeleteChild(r)
       \/ RevokeAll(r)
       \/ SetPassword(r)
       \/ SetSuspended(r)
       \/ FailSessionRequest(r)
  \/ \E t \in Tokens : Logout(t)
  \/ \E u \in Users : Reactivate(u)

SessionsSpec ==
  SessionsInit /\ HandlersInit /\ [][SessionsNext]_<<sessionVars, request>>
-----------------------------------------------------------------------------
(* Safety, whatever the requests interleave and wherever they end.         *)

Live == {t \in handed : ~ session[t].revoked}

\* A login leads to one live token at most, however its tokens are presented
\* at the same time, and so never to two sessions.
OneLiveTokenPerLogin ==
  \A s, t \in Live : session[s].login = session[t].login => s = t

\* When all sessions of a user were revoked - for a reused token, a new
\* password, an MFA reset - no token of a login before that is ever live
\* again, also when it was being rotated meanwhile.
EndedLoginsStayEnded ==
  \A t \in Live : session[t].login \notin ended

\* A login is one chain of tokens, and ends with all of it.
LoginsAreChains == OneLiveTokenPerLogin /\ EndedLoginsStayEnded
=============================================================================
