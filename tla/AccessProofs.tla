---------------------------- MODULE AccessProofs ----------------------------
(***************************************************************************)
(* Theorems about the modules of identity and access and the parts of the  *)
(* web client that hold a session, for every number of users, tokens and   *)
(* concurrent requests.                                                    *)
(***************************************************************************)
EXTENDS Access, TLAPS

-----------------------------------------------------------------------------
(* Sessions.                                                               *)

\* The awaits of rotate at which it owns the child session it inserted.
Owns == {"markRotated", "answer", "deleteChild"}

\* What a request relies on when it goes on from where it waits.
SessionPromise(q) ==
  /\ q.at = "createChild" => q.token \in handed /\ session[q.token].user = q.user
  /\ q.at \in Owns =>
       /\ q.token \in handed
       /\ q.child \in Tokens \ handed
       /\ session[q.child].login # None
       /\ session[q.child].login = session[q.token].login
       /\ session[q.child].user = session[q.token].user
  /\ q.at \in {"markRotated", "deleteChild"} =>
       \A t \in Tokens : session[t].rotatedTo # q.child

SessionPromises == \A r \in Requests : SessionPromise(request[r])

\* A child session is one rotation's.
ChildrenAreOwned ==
  \A r, s \in Requests :
    request[r].at \in Owns /\ request[s].at \in Owns /\ r # s =>
      request[r].child # request[s].child

\* A login is known by its first token, which a client was given, which is
\* never deleted, and whose user all tokens of the login have.
RowsAreOfLogins ==
  /\ \A t \in handed : session[t].login # None
  /\ \A t \in Tokens :
       session[t].login # None =>
         /\ session[t].login \in handed
         /\ session[session[t].login].user = session[t].user
  /\ ended \subseteq handed

\* A token that a client has, or that the rotation that won will answer with.
Good(t) ==
  \/ t \in handed
  \/ \E r \in Requests : request[r].at = "answer" /\ request[r].child = t

\* LoginsAreChains, for the tokens on their way to a client as well: when one
\* is handed over it is too late to find that it must not be live.
GoodTokens ==
  /\ \A s, t \in Tokens :
       Good(s) /\ Good(t) /\ ~ session[s].revoked /\ ~ session[t].revoked
         /\ session[s].login = session[t].login => s = t
  /\ \A t \in Tokens : Good(t) /\ ~ session[t].revoked => session[t].login \notin ended

\* The inductive invariant of SessionsSpec.
SessionsInv ==
  /\ SessionsTypeOK
  /\ request \in [Requests -> SessionRequest]
  /\ SessionPromises
  /\ ChildrenAreOwned
  /\ RowsAreOfLogins
  /\ GoodTokens

SessionsStep == [SessionsNext]_<<sessionVars, request>>

LEMMA SessionsInitInv == SessionsInit /\ HandlersInit => SessionsInv
<1> SUFFICES ASSUME SessionsInit, HandlersInit PROVE SessionsInv
  OBVIOUS
<1> USE SessionsAssumption DEF SessionsInit, HandlersInit
<1>1. SessionsTypeOK
  BY DEF SessionsTypeOK, SessionRow, NoSession
<1>2. request \in [Requests -> SessionRequest] /\ \A r \in Requests : request[r].at = "idle"
  BY DEF SessionRequest, Idle
<1>3. SessionPromises /\ ChildrenAreOwned
  BY <1>2 DEF SessionPromises, SessionPromise, ChildrenAreOwned, Owns
<1>4. RowsAreOfLogins
  BY DEF RowsAreOfLogins, NoSession
<1>5. GoodTokens
  BY <1>2 DEF GoodTokens, Good
<1>6. QED
  BY <1>1, <1>2, <1>3, <1>4, <1>5 DEF SessionsInv

\* What a row of a session is, by whether it exists.
LEMMA SessionRows ==
  ASSUME SessionsTypeOK, NEW t \in Tokens
  PROVE  /\ session[t] \in SessionRow
         /\ session[t] = NoSession <=> session[t].login = None
         /\ session[t].login # None =>
              /\ session[t].login \in Tokens /\ session[t].user \in Users
              /\ session[t].user # None
         /\ session[t].login = None =>
              session[t].user = None /\ session[t].rotatedTo = None
         /\ session[t].revoked \in BOOLEAN
         /\ session[t].rotatedTo \in Tokens \cup {None}
<1>1. session[t] \in SessionRow
  BY DEF SessionsTypeOK
<1>2. CASE session[t] = NoSession
  BY <1>1, <1>2 DEF NoSession
<1>3. CASE session[t] \in [user : Users, login : Tokens, revoked : BOOLEAN,
                           rotatedTo : Tokens \cup {None}]
  BY <1>1, <1>3, SessionsAssumption DEF NoSession
<1>4. QED
  BY <1>1, <1>2, <1>3 DEF SessionRow

\* What a request carries where it waits.
LEMMA SessionRequests ==
  ASSUME SessionsInv, NEW r \in Requests
  PROVE  /\ request[r] \in SessionRequest
         /\ SessionPromise(request[r])
         /\ Idle \in SessionRequest
         /\ Idle.at = "idle"
         /\ request[r].at # "idle" =>
              /\ request[r].user \in Users
              /\ request[r].token \in Tokens \cup {None}
              /\ request[r].child \in Tokens \cup {None}
BY DEF SessionsInv, SessionPromises, SessionRequest, Idle

\* A step that moves one request and touches accounts only.
LEMMA QuietSessionStep ==
  ASSUME SessionsInv, UNCHANGED <<session, handed, ended>>,
         account' \in [Users -> [status : {"ACTIVE", "SUSPENDED"}, mustChangePassword : BOOLEAN]],
         NEW r \in Requests, NEW q \in SessionRequest,
         request' = [request EXCEPT ![r] = q],
         SessionPromise(q),
         q.at # "answer",
         q.at \in Owns => request[r].at \in Owns /\ q.child = request[r].child
  PROVE  SessionsInv'
<1> USE DEF SessionsInv
<1>1. SessionsTypeOK'
  BY DEF SessionsTypeOK
<1>2. /\ request' \in [Requests -> SessionRequest]
      /\ request'[r] = q /\ \A s \in Requests \ {r} : request'[s] = request[s]
  OBVIOUS
<1>3. SessionPromises'
  <2>1. ASSUME NEW s \in Requests PROVE SessionPromise(request[s])'
    <3>1. SessionPromise(request'[s])
      BY <1>2 DEF SessionPromises
    <3>2. QED
      BY <3>1 DEF SessionPromise
  <2>2. QED
    BY <2>1 DEF SessionPromises
<1>4. ChildrenAreOwned'
  BY <1>2 DEF ChildrenAreOwned
<1>5. RowsAreOfLogins'
  BY DEF RowsAreOfLogins
<1>6. GoodTokens'
  <2>1. \A t \in Tokens : Good(t)' => Good(t)
    BY <1>2 DEF Good
  <2>2. QED
    BY <2>1 DEF GoodTokens
<1>7. QED
  BY <1>1, <1>2, <1>3, <1>4, <1>5, <1>6

LEMMA StopSessionStep ==
  ASSUME SessionsInv, UNCHANGED <<session, handed, ended>>,
         account' \in [Users -> [status : {"ACTIVE", "SUSPENDED"}, mustChangePassword : BOOLEAN]],
         NEW r \in Requests, Stop(r)
  PROVE  SessionsInv'
<1>1. SessionPromise(Idle) /\ Idle \in SessionRequest /\ Idle.at = "idle"
  BY DEF SessionPromise, SessionRequest, Idle, Owns
<1>2. QED
  BY <1>1, QuietSessionStep DEF Stop, Owns

LEMMA BeginSessionStep ==
  ASSUME SessionsInv, UNCHANGED sessionVars, NEW r \in Requests,
         NEW at \in {"issueSession", "createChild", "setPassword", "setTemporaryPassword",
                     "revokeAll", "revokeAndSuspend"},
         NEW u \in Users, NEW t \in Tokens \cup {None}, Begin(r, at, u, t),
         at = "createChild" => t \in handed /\ session[t].user = u
  PROVE  SessionsInv'
<1> PICK q : q = [at |-> at, user |-> u, token |-> t, child |-> None]
  OBVIOUS
<1>1. q \in SessionRequest
  BY DEF SessionRequest
<1>2. SessionPromise(q) /\ q.at \notin Owns /\ q.at # "answer"
  BY DEF SessionPromise, Owns
<1>3. request' = [request EXCEPT ![r] = q]
  BY DEF Begin, Start
<1>4. QED
  BY <1>1, <1>2, <1>3, QuietSessionStep DEF sessionVars, SessionsInv, SessionsTypeOK

LEMMA RotateStep ==
  ASSUME SessionsInv, NEW r \in Requests, NEW t \in Tokens, Rotate(r, t)
  PROVE  SessionsInv'
<1>1. t \in handed /\ session[t].user \in Users
  BY SessionRows DEF Rotate, SessionsInv, RowsAreOfLogins
<1>2. CASE session[t].revoked \/ session[t].rotatedTo # None
  BY <1>1, <1>2, BeginSessionStep DEF Rotate
<1>3. CASE ~ (session[t].revoked \/ session[t].rotatedTo # None)
  BY <1>1, <1>3, BeginSessionStep DEF Rotate
<1>4. QED
  BY <1>2, <1>3

LEMMA SetPasswordStep ==
  ASSUME SessionsInv, NEW r \in Requests, SetPassword(r)
  PROVE  SessionsInv'
<1>1. account' \in [Users -> [status : {"ACTIVE", "SUSPENDED"}, mustChangePassword : BOOLEAN]]
  BY DEF SetPassword, SessionsInv, SessionsTypeOK
<1>2. PICK q : q = [request[r] EXCEPT !.at = "revokeAll"]
  OBVIOUS
<1>3. q \in SessionRequest /\ q.at = "revokeAll"
  BY <1>2, SessionRequests DEF SetPassword, SessionRequest
<1>4. SessionPromise(q) /\ q.at \notin Owns
  BY <1>3 DEF SessionPromise, Owns
<1>5. QED
  BY <1>1, <1>2, <1>3, <1>4, QuietSessionStep DEF SetPassword, Go

LEMMA SetSuspendedStep ==
  ASSUME SessionsInv, NEW r \in Requests, SetSuspended(r)
  PROVE  SessionsInv'
<1>1. account' \in [Users -> [status : {"ACTIVE", "SUSPENDED"}, mustChangePassword : BOOLEAN]]
  BY DEF SetSuspended, SessionsInv, SessionsTypeOK
<1>2. QED
  BY <1>1, StopSessionStep DEF SetSuspended

-----------------------------------------------------------------------------
(* The steps that write session rows.                                      *)

LEMMA FreshIsUnused == \A t \in Fresh : t \in Tokens /\ session[t] = NoSession
<1> DEFINE unused == {t \in Tokens : session[t] = NoSession}
<1>1. CASE unused = {}
  BY <1>1 DEF Fresh
<1>2. CASE unused # {}
  <2>1. (CHOOSE t \in unused : TRUE) \in unused
    BY <1>2
  <2>2. QED
    BY <1>2, <2>1 DEF Fresh
<1>3. QED
  BY <1>1, <1>2

LEMMA IssueSessionStep ==
  ASSUME SessionsInv, NEW r \in Requests, IssueSession(r)
  PROVE  SessionsInv'
<1> USE DEF SessionsInv
<1>1. request[r].user \in Users
  BY SessionRequests DEF IssueSession
<1>2. PICK n \in Tokens :
        /\ session[n].login = None
        /\ session' = [session EXCEPT ![n] = [user |-> request[r].user, login |-> n,
                                              revoked |-> FALSE, rotatedTo |-> None]]
        /\ handed' = handed \cup {n}
        /\ request' = [request EXCEPT ![r] = Idle]
        /\ UNCHANGED <<account, ended>>
  <2>1. \A n \in Fresh : n \in Tokens /\ session[n].login = None
    BY FreshIsUnused DEF NoSession
  <2>2. QED
    BY <2>1 DEF IssueSession, Insert, Stop
<1>3. /\ session' \in [Tokens -> SessionRow]
      /\ session'[n].login = n /\ ~ session'[n].revoked /\ session'[n].rotatedTo = None
      /\ session'[n].user = request[r].user
      /\ \A t \in Tokens \ {n} : session'[t] = session[t]
  BY <1>1, <1>2 DEF SessionsTypeOK, SessionRow
<1>4. /\ \A t \in Tokens : session[t].login # None => session[t].login # n
      /\ n \notin handed /\ n \notin ended
      /\ \A t \in Tokens : session[t].rotatedTo # n
  BY <1>2, SessionRows, SessionsAssumption DEF RowsAreOfLogins, SessionsTypeOK
<1>5. SessionsTypeOK'
  BY <1>2, <1>3, <1>4 DEF SessionsTypeOK
<1>6. /\ request' \in [Requests -> SessionRequest]
      /\ request'[r].at = "idle" /\ \A s \in Requests \ {r} : request'[s] = request[s]
  BY <1>2, SessionRequests
<1>7. SessionPromises'
  <2>1. ASSUME NEW s \in Requests PROVE SessionPromise(request[s])'
    <3>1. PICK q : q = request'[s]
      OBVIOUS
    <3>2. q.at = "idle" \/ SessionPromise(q)
      BY <1>6, <3>1 DEF SessionPromises
    <3>3. SessionPromise(q)'
      BY <1>2, <1>3, <1>4, <3>2, SessionsAssumption DEF SessionPromise, Owns, SessionsTypeOK
    <3>4. QED
      BY <3>1, <3>3 DEF SessionPromise
  <2>2. QED
    BY <2>1 DEF SessionPromises
<1>8. ChildrenAreOwned'
  BY <1>6 DEF ChildrenAreOwned, Owns
<1>9. RowsAreOfLogins'
  BY <1>2, <1>3, <1>4, SessionsAssumption DEF RowsAreOfLogins, SessionsTypeOK
<1>10. GoodTokens'
  <2>1. \A t \in Tokens : Good(t)' => t = n \/ Good(t)
    BY <1>2, <1>6 DEF Good
  <2>2. \A t \in Tokens : Good(t) => session[t].login # None /\ t # n
    BY <1>2, SessionRequests DEF Good, RowsAreOfLogins, SessionPromise, Owns
  <2>3. QED
    BY <1>2, <1>3, <1>4, <2>1, <2>2 DEF GoodTokens
<1>11. QED
  BY <1>5, <1>6, <1>7, <1>8, <1>9, <1>10

LEMMA CreateChildStep ==
  ASSUME SessionsInv, NEW r \in Requests, CreateChild(r)
  PROVE  SessionsInv'
<1> USE DEF SessionsInv
<1>1. /\ request[r].user \in Users /\ request[r].token \in handed
      /\ session[request[r].token].user = request[r].user
      /\ request[r] \in SessionRequest /\ request[r].at = "createChild"
  BY SessionRequests DEF CreateChild, SessionPromise
<1>2. PICK p : p = request[r]
  OBVIOUS
<1>3. PICK l : l = session[p.token].login
  OBVIOUS
<1>4. l \in Tokens /\ l \in handed /\ session[l].user = p.user
  BY <1>1, <1>2, <1>3, SessionRows DEF RowsAreOfLogins, SessionsTypeOK
<1>5. PICK c \in Tokens :
        /\ session[c].login = None
        /\ session' = [session EXCEPT ![c] = [user |-> p.user, login |-> l,
                                              revoked |-> FALSE, rotatedTo |-> None]]
        /\ request' = [request EXCEPT ![r].at = "markRotated", ![r].child = c]
        /\ UNCHANGED <<account, handed, ended>>
  <2>1. \A c \in Fresh : c \in Tokens /\ session[c].login = None
    BY FreshIsUnused DEF NoSession
  <2>2. QED
    BY <1>2, <1>3, <2>1 DEF CreateChild, Insert
<1>6. /\ session' \in [Tokens -> SessionRow]
      /\ session'[c].login = l /\ ~ session'[c].revoked /\ session'[c].rotatedTo = None
      /\ session'[c].user = p.user
      /\ \A t \in Tokens \ {c} : session'[t] = session[t]
  BY <1>1, <1>2, <1>4, <1>5 DEF SessionsTypeOK, SessionRow
<1>7. /\ c \notin handed
      /\ \A t \in Tokens : session[t].rotatedTo # c
      /\ \A s \in Requests : request[s].at \in Owns => request[s].child # c
      /\ l # c
  BY <1>4, <1>5, SessionRows, SessionsAssumption
  DEF RowsAreOfLogins, SessionsTypeOK, SessionPromises, SessionPromise
<1>8. SessionsTypeOK'
  BY <1>5, <1>6, <1>7 DEF SessionsTypeOK
<1>9. PICK q : q = [p EXCEPT !.at = "markRotated", !.child = c]
  OBVIOUS
<1>10. /\ q \in SessionRequest /\ q.at = "markRotated" /\ q.child = c /\ q.token = p.token
       /\ q.user = p.user
  <2>1. p \in SessionRequest \ {Idle}
    BY <1>1, <1>2 DEF Idle
  <2>2. QED
    BY <1>9, <2>1 DEF SessionRequest
<1>11. /\ request' \in [Requests -> SessionRequest]
       /\ request'[r] = q /\ \A s \in Requests \ {r} : request'[s] = request[s]
  BY <1>2, <1>5, <1>9, <1>10
<1>12. SessionPromises'
  <2>1. SessionPromise(q)'
    <3>1. q.token \in handed /\ q.token # c /\ q.token \in Tokens
      BY <1>1, <1>2, <1>7, <1>10 DEF SessionsTypeOK
    <3>2. session'[q.token] = session[q.token]
      BY <1>6, <3>1
    <3>3. session'[c].login = session'[q.token].login /\ session'[c].user = session'[q.token].user
      BY <1>1, <1>2, <1>3, <1>6, <1>10, <3>2
    <3>4. \A t \in Tokens : session'[t].rotatedTo # c
      BY <1>6, <1>7, SessionsAssumption
    <3>5. QED
      BY <1>4, <1>5, <1>6, <1>7, <1>10, <3>1, <3>3, <3>4, SessionsAssumption DEF SessionPromise
  <2>2. ASSUME NEW s \in Requests \ {r} PROVE SessionPromise(request[s])'
    <3>1. PICK u : u = request[s]
      OBVIOUS
    <3>2. SessionPromise(u) /\ request'[s] = u /\ (u.at \in Owns => u.child # c)
      BY <1>7, <1>11, <3>1 DEF SessionPromises
    <3>3. u.at \in Owns => u.child # None
      BY <3>2, SessionsAssumption DEF SessionPromise
    <3>4. SessionPromise(u)'
      BY <1>5, <1>6, <1>7, <3>2, <3>3 DEF SessionPromise, Owns, SessionsTypeOK
    <3>5. QED
      BY <3>2, <3>4 DEF SessionPromise
  <2>3. ASSUME NEW s \in Requests PROVE SessionPromise(request[s])'
    <3>1. CASE s = r
      BY <1>11, <2>1, <3>1 DEF SessionPromise
    <3>2. QED
      BY <2>2, <3>1
  <2>4. QED
    BY <2>3 DEF SessionPromises
<1>13. ChildrenAreOwned'
  BY <1>7, <1>10, <1>11 DEF ChildrenAreOwned
<1>14. RowsAreOfLogins'
  BY <1>4, <1>5, <1>6, <1>7 DEF RowsAreOfLogins, SessionsTypeOK
<1>15. GoodTokens'
  <2>1. \A t \in Tokens : Good(t)' => Good(t)
    BY <1>5, <1>10, <1>11 DEF Good
  <2>2. \A t \in Tokens : Good(t) => t # c
    BY <1>7 DEF Good, Owns
  <2>3. QED
    BY <1>5, <1>6, <2>1, <2>2 DEF GoodTokens
<1>16. QED
  BY <1>8, <1>11, <1>12, <1>13, <1>14, <1>15

\* Of the rotations of a token one wins; the child takes the token's place.
LEMMA MarkRotatedStep ==
  ASSUME SessionsInv, NEW r \in Requests, MarkRotated(r)
  PROVE  SessionsInv'
<1> USE DEF SessionsInv
<1>1. PICK p : p = request[r]
  OBVIOUS
<1>2. PICK t : t = p.token
  OBVIOUS
<1>3. PICK c : c = p.child
  OBVIOUS
<1>4. /\ p \in SessionRequest /\ p.at = "markRotated" /\ SessionPromise(p)
      /\ UNCHANGED <<account, handed, ended>>
  BY <1>1, SessionRequests DEF MarkRotated
<1>5. /\ t \in handed /\ t \in Tokens /\ c \in Tokens \ handed
      /\ session[c].login # None /\ session[c].login = session[t].login
      /\ session[c].user = session[t].user
      /\ \A x \in Tokens : session[x].rotatedTo # c
  BY <1>2, <1>3, <1>4 DEF SessionPromise, Owns, SessionsTypeOK
<1>6. CASE /\ session[t].rotatedTo = None /\ ~ session[t].revoked
           /\ session' = [session EXCEPT ![t].revoked = TRUE, ![t].rotatedTo = c]
           /\ Go(r, "answer")
  <2>1. /\ session' \in [Tokens -> SessionRow]
        /\ session'[t].revoked /\ session'[t].rotatedTo = c
        /\ session'[t].login = session[t].login /\ session'[t].user = session[t].user
        /\ \A x \in Tokens \ {t} : session'[x] = session[x]
    <3>1. session[t] \in [user : Users, login : Tokens, revoked : BOOLEAN,
                          rotatedTo : Tokens \cup {None}]
      BY <1>5, SessionRows DEF SessionRow
    <3>2. [session[t] EXCEPT !.revoked = TRUE, !.rotatedTo = c] \in SessionRow
      BY <1>5, <3>1 DEF SessionRow
    <3>3. QED
      BY <1>5, <1>6, <3>1, <3>2 DEF SessionsTypeOK
  <2>2. t # c
    BY <1>5
  <2>3. SessionsTypeOK'
    <3>1. \A x \in Tokens : session'[x].login = session[x].login
      BY <2>1
    <3>2. \A x \in Tokens : session[x].rotatedTo \in Tokens \cup {None}
      BY SessionRows
    <3>3. ASSUME NEW x \in Tokens, session'[x].rotatedTo # None
          PROVE  session'[x].revoked /\ session'[session'[x].rotatedTo].login = session'[x].login
      BY <1>5, <2>1, <2>2, <3>1, <3>2, <3>3 DEF SessionsTypeOK
    <3>4. QED
      BY <1>4, <2>1, <3>3 DEF SessionsTypeOK
  <2>4. PICK q : q = [p EXCEPT !.at = "answer"]
    OBVIOUS
  <2>5. q \in SessionRequest /\ q.at = "answer" /\ q.child = c /\ q.token = t
    BY <1>2, <1>3, <1>4, <2>4 DEF SessionRequest, Idle
  <2>6. /\ request' \in [Requests -> SessionRequest]
        /\ request'[r] = q /\ \A s \in Requests \ {r} : request'[s] = request[s]
    BY <1>1, <1>6, <2>4, <2>5 DEF Go
  <2>7. ASSUME NEW s \in Requests PROVE SessionPromise(request[s])'
    <3>1. PICK u : u = request'[s]
      OBVIOUS
    <3>2. u.at \in Owns => u.child # c \/ u = q
      BY <1>1, <1>3, <1>4, <2>6, <3>1 DEF ChildrenAreOwned, Owns
    <3>3. u = q \/ SessionPromise(u)
      BY <2>6, <3>1 DEF SessionPromises
    <3>4. SessionPromise(u)'
      BY <1>4, <1>5, <2>1, <2>2, <2>5, <3>2, <3>3 DEF SessionPromise, Owns, SessionsTypeOK
    <3>5. QED
      BY <3>1, <3>4 DEF SessionPromise
  <2>8. SessionPromises'
    BY <2>7 DEF SessionPromises
  <2>9. ChildrenAreOwned'
    BY <1>1, <1>3, <1>4, <2>5, <2>6 DEF ChildrenAreOwned, Owns
  <2>10. RowsAreOfLogins'
    BY <1>4, <2>1 DEF RowsAreOfLogins, SessionsTypeOK
  <2>11. GoodTokens'
    <3>1. \A x \in Tokens : Good(x)' => x = c \/ Good(x)
      BY <1>4, <2>5, <2>6 DEF Good
    <3>2. Good(t)
      BY <1>5 DEF Good
    <3>3. \A x \in Tokens : Good(x)' /\ ~ session'[x].revoked =>
            x = c \/ (Good(x) /\ ~ session[x].revoked /\ session[x].login # session[t].login)
      BY <1>5, <1>6, <2>1, <3>1, <3>2 DEF GoodTokens
    <3>4. session[t].login \notin ended
      BY <1>5, <1>6, <3>2 DEF GoodTokens
    <3>5. \A x \in Tokens : session'[x].login = session[x].login
      BY <2>1
    <3>6. QED
      BY <1>4, <1>5, <2>1, <3>3, <3>4, <3>5 DEF GoodTokens
  <2>12. QED
    BY <2>3, <2>6, <2>8, <2>9, <2>10, <2>11
<1>7. CASE Go(r, "deleteChild") /\ UNCHANGED session
  <2>1. PICK q : q = [p EXCEPT !.at = "deleteChild"]
    OBVIOUS
  <2>2. q \in SessionRequest /\ q.at = "deleteChild" /\ q.child = c /\ q.token = t
    BY <1>2, <1>3, <1>4, <2>1 DEF SessionRequest, Idle
  <2>3. SessionPromise(q)
    BY <1>5, <2>2 DEF SessionPromise
  <2>4. request[r].at \in Owns /\ q.child = request[r].child
    BY <1>1, <1>3, <1>4, <2>2 DEF Owns
  <2>5. request' = [request EXCEPT ![r] = q]
    BY <1>1, <1>7, <2>1 DEF Go
  <2>6. account' \in [Users -> [status : {"ACTIVE", "SUSPENDED"}, mustChangePassword : BOOLEAN]]
    BY <1>4 DEF SessionsTypeOK
  <2>7. QED
    BY <1>4, <1>7, <2>2, <2>3, <2>4, <2>5, <2>6, QuietSessionStep
<1>8. QED
  BY <1>1, <1>2, <1>3, <1>6, <1>7 DEF MarkRotated

LEMMA AnswerRotatedStep ==
  ASSUME SessionsInv, NEW r \in Requests, AnswerRotated(r)
  PROVE  SessionsInv'
<1> USE DEF SessionsInv
<1>1. PICK c : c = request[r].child
  OBVIOUS
<1>2. /\ request[r].at = "answer" /\ c \in Tokens /\ session[c].login # None
      /\ handed' = handed \cup {c}
      /\ UNCHANGED <<account, session, ended>>
      /\ request' = [request EXCEPT ![r] = Idle]
  BY <1>1, SessionRequests DEF AnswerRotated, SessionPromise, Owns, Stop
<1>3. /\ request' \in [Requests -> SessionRequest]
      /\ request'[r].at = "idle" /\ \A s \in Requests \ {r} : request'[s] = request[s]
  BY <1>2, SessionRequests
<1>4. SessionsTypeOK'
  BY <1>2 DEF SessionsTypeOK
<1>5. ASSUME NEW s \in Requests PROVE SessionPromise(request[s])'
  <2>1. PICK u : u = request'[s]
    OBVIOUS
  <2>2. u.at = "idle" \/ (SessionPromise(u) /\ (u.at \in Owns => u.child # c))
    BY <1>1, <1>2, <1>3, <2>1 DEF SessionPromises, ChildrenAreOwned, Owns
  <2>3. SessionPromise(u)'
    BY <1>2, <2>2 DEF SessionPromise, Owns
  <2>4. QED
    BY <2>1, <2>3 DEF SessionPromise
<1>6. SessionPromises'
  BY <1>5 DEF SessionPromises
<1>7. ChildrenAreOwned'
  BY <1>3 DEF ChildrenAreOwned, Owns
<1>8. RowsAreOfLogins'
  BY <1>2 DEF RowsAreOfLogins
<1>9. GoodTokens'
  <2>1. \A t \in Tokens : Good(t)' => Good(t)
    BY <1>1, <1>2, <1>3 DEF Good
  <2>2. QED
    BY <1>2, <2>1 DEF GoodTokens
<1>10. QED
  BY <1>3, <1>4, <1>6, <1>7, <1>8, <1>9

LEMMA DeleteChildStep ==
  ASSUME SessionsInv, NEW r \in Requests, DeleteChild(r)
  PROVE  SessionsInv'
<1> USE DEF SessionsInv
<1>1. PICK p : p = request[r]
  OBVIOUS
<1>2. PICK c : c = p.child
  OBVIOUS
<1>3. /\ p.at = "deleteChild" /\ p \in SessionRequest /\ c \in Tokens \ handed
      /\ \A t \in Tokens : session[t].rotatedTo # c
      /\ session' = [session EXCEPT ![c] = NoSession]
      /\ UNCHANGED <<account, handed, ended>>
  BY <1>1, <1>2, SessionRequests DEF DeleteChild, SessionPromise, Owns
<1>4. /\ session' \in [Tokens -> SessionRow]
      /\ session'[c] = NoSession
      /\ \A t \in Tokens \ {c} : session'[t] = session[t]
  BY <1>3 DEF SessionsTypeOK, SessionRow
<1>5. SessionsTypeOK'
  BY <1>3, <1>4 DEF SessionsTypeOK, NoSession
<1>6. PICK q : q = [p EXCEPT !.at = "revokeAll"]
  OBVIOUS
<1>7. q \in SessionRequest /\ q.at = "revokeAll"
  BY <1>3, <1>6 DEF SessionRequest, Idle
<1>8. /\ request' \in [Requests -> SessionRequest]
      /\ request'[r] = q /\ \A s \in Requests \ {r} : request'[s] = request[s]
  BY <1>1, <1>6, <1>7 DEF DeleteChild, Go
<1>9. ASSUME NEW s \in Requests PROVE SessionPromise(request[s])'
  <2>1. PICK u : u = request'[s]
    OBVIOUS
  <2>2. u.at = "revokeAll" \/ (SessionPromise(u) /\ (u.at \in Owns => u.child # c))
    BY <1>1, <1>2, <1>3, <1>7, <1>8, <2>1 DEF SessionPromises, ChildrenAreOwned, Owns
  <2>3. SessionPromise(u)'
    BY <1>3, <1>4, <2>2, SessionsAssumption DEF SessionPromise, Owns, SessionsTypeOK, NoSession
  <2>4. QED
    BY <2>1, <2>3 DEF SessionPromise
<1>10. SessionPromises'
  BY <1>9 DEF SessionPromises
<1>11. ChildrenAreOwned'
  BY <1>7, <1>8 DEF ChildrenAreOwned, Owns
<1>12. RowsAreOfLogins'
  BY <1>3, <1>4 DEF RowsAreOfLogins, SessionsTypeOK, NoSession
<1>13. GoodTokens'
  <2>1. \A t \in Tokens : Good(t)' => Good(t)
    BY <1>3, <1>7, <1>8 DEF Good
  <2>2. \A t \in Tokens : Good(t) => t # c
    BY <1>1, <1>2, <1>3 DEF Good, ChildrenAreOwned, Owns
  <2>3. QED
    BY <1>3, <1>4, <2>1, <2>2 DEF GoodTokens
<1>14. QED
  BY <1>5, <1>8, <1>10, <1>11, <1>12, <1>13

\* A step that revokes rows, and moves a request to where it owns nothing.
LEMMA RevokeStep ==
  ASSUME SessionsInv, UNCHANGED <<account, handed>>,
         NEW gone \in SUBSET Tokens,
         \A t \in gone : session[t].login # None,
         session' = [t \in Tokens |-> IF t \in gone THEN [session[t] EXCEPT !.revoked = TRUE]
                                      ELSE session[t]],
         ended' = ended \/ ended' = ended \cup {session[t].login : t \in gone},
         ended' # ended =>
           \A s \in gone, t \in Tokens : session[t].user = session[s].user => t \in gone,
         request' \in [Requests -> SessionRequest],
         \A r \in Requests : request'[r] = request[r] \/ request'[r].at \in {"idle", "suspend"}
  PROVE  SessionsInv'
<1> USE DEF SessionsInv
<1>1. ASSUME NEW t \in Tokens
      PROVE  /\ session'[t] \in SessionRow
             /\ session'[t].user = session[t].user /\ session'[t].login = session[t].login
             /\ session'[t].rotatedTo = session[t].rotatedTo
             /\ session'[t].revoked = (session[t].revoked \/ t \in gone)
  <2>1. CASE t \in gone
    <3>1. session[t] \in [user : Users, login : Tokens, revoked : BOOLEAN,
                          rotatedTo : Tokens \cup {None}]
      BY <2>1, SessionRows DEF SessionRow
    <3>2. session'[t] = [session[t] EXCEPT !.revoked = TRUE]
      BY <2>1
    <3>3. QED
      BY <2>1, <3>1, <3>2 DEF SessionRow
  <2>2. CASE t \notin gone
    BY <2>2, SessionRows
  <2>3. QED
    BY <2>1, <2>2
<1>2. session' \in [Tokens -> SessionRow]
  <2>1. \A t \in Tokens : session'[t] \in SessionRow
    BY <1>1
  <2>2. QED
    BY <2>1
<1>3. ended' \subseteq handed
  BY DEF RowsAreOfLogins
<1>4. SessionsTypeOK'
  <2>1. \A t \in Tokens : session[t].rotatedTo \in Tokens \cup {None}
    BY SessionRows
  <2>2. ASSUME NEW t \in Tokens, session'[t].rotatedTo # None
        PROVE  session'[t].revoked /\ session'[session'[t].rotatedTo].login = session'[t].login
    BY <1>1, <2>1, <2>2 DEF SessionsTypeOK
  <2>3. QED
    BY <1>2, <1>3, <2>2 DEF SessionsTypeOK
<1>5. SessionPromises'
  <2>1. ASSUME NEW s \in Requests PROVE SessionPromise(request[s])'
    <3>1. PICK u : u = request'[s]
      OBVIOUS
    <3>2. u.at \in {"idle", "suspend"} \/ SessionPromise(u)
      BY <3>1 DEF SessionPromises
    <3>3. SessionPromise(u)'
      BY <1>1, <3>2 DEF SessionPromise, Owns, SessionsTypeOK
    <3>4. QED
      BY <3>1, <3>3 DEF SessionPromise
  <2>2. QED
    BY <2>1 DEF SessionPromises
<1>6. ChildrenAreOwned'
  BY DEF ChildrenAreOwned, Owns
<1>7. RowsAreOfLogins'
  BY <1>1, <1>3 DEF RowsAreOfLogins, SessionsTypeOK
<1>8. GoodTokens'
  <2>1. \A t \in Tokens : Good(t)' => Good(t)
    BY DEF Good
  <2>2. \A s, t \in Tokens :
          Good(s)' /\ Good(t)' /\ ~ session'[s].revoked /\ ~ session'[t].revoked
            /\ session'[s].login = session'[t].login => s = t
    BY <1>1, <2>1 DEF GoodTokens
  <2>3. ASSUME NEW t \in Tokens, Good(t)', ~ session'[t].revoked
        PROVE  session'[t].login \notin ended'
    <3>1. t \notin gone /\ Good(t) /\ ~ session[t].revoked
      BY <1>1, <2>1, <2>3
    <3>2. session[t].login \notin ended
      BY <3>1 DEF GoodTokens
    <3>3. ASSUME NEW s \in gone, session[s].login = session[t].login, ended' # ended
          PROVE  FALSE
      <4>1. session[s].user = session[t].user
        BY <3>3 DEF RowsAreOfLogins
      <4>2. QED
        BY <3>1, <3>3, <4>1
    <3>4. QED
      BY <1>1, <3>2, <3>3
  <2>4. QED
    BY <2>2, <2>3 DEF GoodTokens
<1>9. QED
  BY <1>4, <1>5, <1>6, <1>7, <1>8

LEMMA RevokeAllStep ==
  ASSUME SessionsInv, NEW r \in Requests, RevokeAll(r)
  PROVE  SessionsInv'
<1>1. PICK gone : gone = {t \in Tokens : session[t].user = request[r].user}
  OBVIOUS
<1>2. request[r].user \in Users
  BY SessionRequests DEF RevokeAll
<1>3. \A t \in gone : session[t].login # None
  BY <1>1, <1>2, SessionRows, SessionsAssumption DEF SessionsInv
<1>4. /\ session' = [t \in Tokens |-> IF t \in gone THEN [session[t] EXCEPT !.revoked = TRUE]
                                     ELSE session[t]]
      /\ ended' = ended \cup {session[t].login : t \in gone}
      /\ UNCHANGED <<account, handed>>
  BY <1>1 DEF RevokeAll
<1>5. \A s \in gone, t \in Tokens : session[t].user = session[s].user => t \in gone
  BY <1>1
<1>6. CASE request[r].at = "revokeAndSuspend" /\ Go(r, "suspend")
  <2>1. PICK q : q = [request[r] EXCEPT !.at = "suspend"]
    OBVIOUS
  <2>2. q \in SessionRequest /\ q.at = "suspend"
    <3>1. request[r] \in SessionRequest \ {Idle}
      BY <1>6, SessionRequests DEF Idle
    <3>2. QED
      BY <2>1, <3>1 DEF SessionRequest
  <2>3. /\ request' \in [Requests -> SessionRequest]
        /\ \A s \in Requests : request'[s] = request[s] \/ request'[s].at \in {"idle", "suspend"}
    BY <1>6, <2>1, <2>2 DEF Go, SessionsInv
  <2>4. QED
    BY <1>1, <1>3, <1>4, <1>5, <2>3, RevokeStep
<1>7. CASE Stop(r)
  <2>1. /\ request' \in [Requests -> SessionRequest]
        /\ \A s \in Requests : request'[s] = request[s] \/ request'[s].at \in {"idle", "suspend"}
    BY <1>7, SessionRequests DEF Stop, SessionsInv
  <2>2. QED
    BY <1>1, <1>3, <1>4, <1>5, <2>1, RevokeStep
<1>8. QED
  BY <1>6, <1>7 DEF RevokeAll

LEMMA LogoutStep ==
  ASSUME SessionsInv, NEW t \in Tokens, Logout(t)
  PROVE  SessionsInv'
<1>1. PICK gone : gone = {t}
  OBVIOUS
<1>2. gone \in SUBSET Tokens /\ \A x \in gone : session[x].login # None
  BY <1>1 DEF Logout, SessionsInv, RowsAreOfLogins
<1>3. session' = [x \in Tokens |-> IF x \in gone THEN [session[x] EXCEPT !.revoked = TRUE]
                                   ELSE session[x]]
  BY <1>1 DEF Logout, SessionsInv, SessionsTypeOK
<1>4. UNCHANGED <<account, handed, ended, request>>
  BY DEF Logout
<1>5. request' \in [Requests -> SessionRequest]
  BY <1>4 DEF SessionsInv
<1>6. QED
  BY <1>2, <1>3, <1>4, <1>5, RevokeStep

LEMMA SessionsNextInv == SessionsInv /\ SessionsStep => SessionsInv'
<1> SUFFICES ASSUME SessionsInv, SessionsStep PROVE SessionsInv'
  OBVIOUS
<1>1. ASSUME NEW r \in Requests, NEW u \in Users,
             \/ Login(r, u) \/ ChangeForcedPassword(r, u) \/ ResetPassword(r, u)
             \/ ResetMfa(r, u) \/ Suspend(r, u)
      PROVE  SessionsInv'
  BY <1>1, BeginSessionStep
  DEF Login, ChangeForcedPassword, ResetPassword, ResetMfa, Suspend
<1>2. ASSUME NEW r \in Requests, FailSessionRequest(r) PROVE SessionsInv'
  BY <1>2, StopSessionStep
  DEF FailSessionRequest, Abandon, sessionVars, SessionsInv, SessionsTypeOK
<1>3. ASSUME UNCHANGED <<session, handed, ended, request>>,
             account' \in [Users -> [status : {"ACTIVE", "SUSPENDED"},
                                     mustChangePassword : BOOLEAN]]
      PROVE  SessionsInv'
  BY <1>3
  DEF SessionsInv, SessionsTypeOK, SessionPromises, SessionPromise, ChildrenAreOwned,
      RowsAreOfLogins, GoodTokens, Good
<1>4. ASSUME NEW u \in Users, Reactivate(u) PROVE SessionsInv'
  BY <1>3, <1>4 DEF Reactivate, SessionsInv, SessionsTypeOK
<1>5. CASE UNCHANGED <<sessionVars, request>>
  BY <1>3, <1>5 DEF sessionVars, SessionsInv, SessionsTypeOK
<1>6. QED
  BY <1>1, <1>2, <1>4, <1>5, RotateStep, IssueSessionStep, CreateChildStep, MarkRotatedStep,
     AnswerRotatedStep, DeleteChildStep, RevokeAllStep, SetPasswordStep, SetSuspendedStep,
     LogoutStep DEF SessionsStep, SessionsNext

LEMMA SessionsInvMeans == SessionsInv => LoginsAreChains
BY DEF SessionsInv, SessionsTypeOK, GoodTokens, Good, LoginsAreChains, OneLiveTokenPerLogin,
       EndedLoginsStayEnded, Live

LEMMA SessionsInductive == SessionsSpec => []SessionsInv
<1>1. SessionsInit /\ HandlersInit => SessionsInv
  BY SessionsInitInv
<1>2. SessionsInv /\ [SessionsNext]_<<sessionVars, request>> => SessionsInv'
  BY SessionsNextInv DEF SessionsStep
<1>3. QED
  BY <1>1, <1>2, PTL DEF SessionsSpec

\* TokenService: however the tokens of a login are presented at the same time,
\* and wherever a rotation ends, one of them at most is live; and once the
\* sessions of a user were revoked none of the logins before that is live again.
THEOREM SessionsAreChains == SessionsSpec => []LoginsAreChains
BY SessionsInductive, SessionsInvMeans, PTL

\* The sessions rows are well formed: a rotated session is revoked, in favour of
\* one of its own login.
THEOREM SessionsTypeCorrect == SessionsSpec => []SessionsTypeOK
BY SessionsInductive, PTL DEF SessionsInv

-----------------------------------------------------------------------------
(* Web client.  Its steps are steps of the sessions.                       *)

\* The inductive invariant of ClientSpec, besides the one of the sessions: the
\* dialogue cannot be left while a code is verified, so the code typed is one
\* of the challenge that is open.
ClientInv ==
  /\ ClientTypeOK
  /\ typed # None => challenge = typed
  /\ ClientAsksOnce

ClientStep == [ClientNext]_<<sessionVars, clientVars, request>>

LEMMA ClientStepIsSessionsStep ==
  ASSUME SessionsInv, ClientStep
  PROVE  SessionsStep
<1> USE DEF SessionsInv
<1>1. ASSUME NEW r \in Requests, SignIn(r) PROVE SessionsNext
  BY <1>1, WebClientAssumption DEF SignIn, SessionsNext
<1>2. ASSUME NEW r \in Requests, SignedIn(r) PROVE SessionsNext
  BY <1>2 DEF SignedIn, SessionsNext
<1>3. ASSUME NEW r \in Requests, Unauthorized(r) PROVE SessionsNext
  <2>1. cookie \in Tokens /\ Rotate(r, cookie)
    BY <1>3 DEF Unauthorized, Rotate, SessionsTypeOK
  <2>2. QED
    BY <2>1 DEF SessionsNext
<1>4. ASSUME NEW r \in Requests, Refreshing(r) PROVE SessionsNext
  BY <1>4 DEF Refreshing, SessionsNext
<1>5. ASSUME NEW r \in Requests, Refreshed(r) PROVE SessionsNext
  BY <1>5 DEF Refreshed, SessionsNext
<1>6. ASSUME NEW r \in Requests, RefreshRefused(r) PROVE SessionsNext
  BY <1>6 DEF RefreshRefused, SessionsNext
<1>7. ASSUME NEW r \in Requests, Send(r) \/ Answered(r) PROVE UNCHANGED <<sessionVars, request>>
  BY <1>7 DEF Send, Answered
<1>8. ASSUME NEW c \in Challenges, OpenChallenge(c) PROVE UNCHANGED <<sessionVars, request>>
  BY <1>8 DEF OpenChallenge
<1>9. ASSUME AccessExpires \/ SubmitCode \/ CodeAnswered \/ CancelChallenge
      PROVE  UNCHANGED <<sessionVars, request>>
  BY <1>9 DEF AccessExpires, SubmitCode, CodeAnswered, CancelChallenge, MayCancel
<1>10. QED
  BY <1>1, <1>2, <1>3, <1>4, <1>5, <1>6, <1>7, <1>8, <1>9 DEF ClientStep, ClientNext, SessionsStep

LEMMA ClientInitInv == ClientInit => ClientInv
BY DEF ClientInit, ClientInv, ClientTypeOK, NoCall, ClientAsksOnce,
       ChallengesResolvedByTheirCode, RefreshedAtMostOnce

\* A step of one call, to a place where it may be.
LEMMA CallStep ==
  ASSUME ClientInv, UNCHANGED stepUpVars,
         cookie' \in Tokens \cup {None}, access' \in {"none", "valid", "expired"},
         NEW r \in Requests,
         NEW c \in [at : {"idle", "signIn", "answer", "refresh"},
                    sent : 0 .. 2, carried : {"none", "valid", "expired"}],
         call' = [call EXCEPT ![r] = c],
         c.at = "refresh" => c.sent = 1
  PROVE  ClientInv'
<1> USE DEF ClientInv, stepUpVars
<1>1. ClientTypeOK'
  BY DEF ClientTypeOK
<1>2. (typed # None => challenge = typed)'
  OBVIOUS
<1>3. ChallengesResolvedByTheirCode'
  BY DEF ClientAsksOnce, ChallengesResolvedByTheirCode
<1>4. RefreshedAtMostOnce'
  BY DEF ClientAsksOnce, RefreshedAtMostOnce, ClientTypeOK
<1>5. QED
  BY <1>1, <1>2, <1>3, <1>4 DEF ClientAsksOnce

\* A step of the dialogue.
LEMMA DialogueStep ==
  ASSUME ClientInv, UNCHANGED <<cookie, access, call>>,
         challenge' \in Challenges \cup {None}, typed' \in Challenges \cup {None},
         resolved' \in [Challenges -> Challenges \cup {None}],
         typed' # None => challenge' = typed',
         \A c \in Challenges : resolved'[c] \in {None, c}
  PROVE  ClientInv'
BY DEF ClientInv, ClientTypeOK, ClientAsksOnce, ChallengesResolvedByTheirCode, RefreshedAtMostOnce

LEMMA ClientNextInv ==
  ASSUME SessionsInv, ClientInv, ClientStep
  PROVE  ClientInv'
<1> USE DEF ClientInv
<1> DEFINE CallRecords == [at : {"idle", "signIn", "answer", "refresh"},
                     sent : 0 .. 2, carried : {"none", "valid", "expired"}]
<1>1. call \in [Requests -> CallRecords] /\ NoCall \in CallRecords /\ NoCall.at = "idle" /\ NoCall.sent = 0
  BY DEF ClientTypeOK, NoCall
<1>2. cookie \in Tokens \cup {None} /\ access \in {"none", "valid", "expired"}
  BY DEF ClientTypeOK
<1>3. ASSUME NEW r \in Requests, SignIn(r) PROVE ClientInv'
  <2>1. PICK c : c = [call[r] EXCEPT !.at = "signIn"]
    OBVIOUS
  <2>2. c \in CallRecords /\ c.at = "signIn"
    BY <1>1, <2>1
  <2>3. QED
    BY <1>2, <1>3, <2>1, <2>2, CallStep DEF SignIn
<1>4. ASSUME NEW r \in Requests, SignedIn(r) PROVE ClientInv'
  <2>1. cookie' \in Tokens \cup {None}
    BY <1>4, FreshIsUnused DEF SignedIn, IssueSession, SessionsInv, SessionsTypeOK
  <2>2. QED
    BY <1>1, <1>4, <2>1, CallStep DEF SignedIn
<1>5. ASSUME NEW r \in Requests, Send(r) PROVE ClientInv'
  <2>1. PICK c : c = [at |-> "answer", sent |-> 1, carried |-> access]
    OBVIOUS
  <2>2. c \in CallRecords /\ c.at = "answer"
    BY <1>2, <2>1
  <2>3. call' = [call EXCEPT ![r] = c]
    BY <1>1, <1>5, <2>1 DEF Send, Attempt, NoCall
  <2>4. QED
    BY <1>2, <1>5, <2>2, <2>3, CallStep DEF Send
<1>6. ASSUME NEW r \in Requests, Answered(r) PROVE ClientInv'
  BY <1>1, <1>2, <1>6, CallStep DEF Answered
<1>7. ASSUME NEW r \in Requests, Unauthorized(r) PROVE ClientInv'
  <2>1. PICK c : c = [call[r] EXCEPT !.at = "refresh"]
    OBVIOUS
  <2>2. c \in CallRecords /\ c.sent = 1
    BY <1>1, <1>7, <2>1 DEF Unauthorized
  <2>3. QED
    BY <1>2, <1>7, <2>1, <2>2, CallStep DEF Unauthorized
<1>8. ASSUME NEW r \in Requests, Refreshing(r) PROVE ClientInv'
  BY <1>2, <1>8, DialogueStep
  DEF Refreshing, clientVars, ClientTypeOK, ClientAsksOnce, ChallengesResolvedByTheirCode
<1>9. ASSUME NEW r \in Requests, Refreshed(r) PROVE ClientInv'
  <2>1. PICK c : c = [at |-> "answer", sent |-> 2, carried |-> "valid"]
    OBVIOUS
  <2>2. c \in CallRecords /\ c.at = "answer"
    BY <2>1
  <2>3. call[r].sent = 1
    BY <1>9 DEF Refreshed, ClientAsksOnce, RefreshedAtMostOnce
  <2>4. call' = [call EXCEPT ![r] = c]
    BY <1>1, <1>9, <2>1, <2>3 DEF Refreshed, Attempt
  <2>5. cookie' \in Tokens \cup {None}
    BY <1>9, SessionRequests DEF Refreshed, AnswerRotated
  <2>6. QED
    BY <1>9, <2>2, <2>4, <2>5, CallStep DEF Refreshed
<1>10. ASSUME NEW r \in Requests, RefreshRefused(r) PROVE ClientInv'
  BY <1>1, <1>2, <1>10, CallStep DEF RefreshRefused
<1>11. ASSUME AccessExpires PROVE ClientInv'
  <2>1. ASSUME NEW r \in Requests
        PROVE  call'[r] \in CallRecords /\ call'[r].at = call[r].at /\ call'[r].sent = call[r].sent
    BY <1>1, <1>11 DEF AccessExpires, Expired
  <2>2. call' \in [Requests -> CallRecords]
    BY <1>11, <2>1 DEF AccessExpires
  <2>3. UNCHANGED <<cookie, challenge, typed, resolved>> /\ access' = "expired"
    BY <1>11 DEF AccessExpires, stepUpVars
  <2>4. QED
    BY <2>1, <2>2, <2>3
    DEF ClientTypeOK, ClientAsksOnce, ChallengesResolvedByTheirCode, RefreshedAtMostOnce
<1>12. ASSUME NEW c \in Challenges, OpenChallenge(c) PROVE ClientInv'
  BY <1>12, DialogueStep
  DEF OpenChallenge, ClientTypeOK, ClientAsksOnce, ChallengesResolvedByTheirCode
<1>13. ASSUME SubmitCode PROVE ClientInv'
  BY <1>13, DialogueStep
  DEF SubmitCode, ClientTypeOK, ClientAsksOnce, ChallengesResolvedByTheirCode
<1>14. ASSUME CodeAnswered PROVE ClientInv'
  BY <1>14, DialogueStep
  DEF CodeAnswered, ClientTypeOK, ClientAsksOnce, ChallengesResolvedByTheirCode
<1>15. ASSUME CancelChallenge PROVE ClientInv'
  BY <1>15, DialogueStep
  DEF CancelChallenge, MayCancel, ClientTypeOK, ClientAsksOnce, ChallengesResolvedByTheirCode
<1>16. CASE UNCHANGED clientVars
  BY <1>16, DialogueStep
  DEF clientVars, ClientTypeOK, ClientAsksOnce, ChallengesResolvedByTheirCode
<1>17. QED
  BY <1>3, <1>4, <1>5, <1>6, <1>7, <1>8, <1>9, <1>10, <1>11, <1>12, <1>13, <1>14, <1>15, <1>16
  DEF ClientStep, ClientNext

LEMMA ClientInductive == ClientSpec => [](SessionsInv /\ ClientInv) /\ SessionsSpec
<1>1. SessionsInit /\ ClientInit /\ HandlersInit => SessionsInv /\ ClientInv
  BY SessionsInitInv, ClientInitInv
<1>2. SessionsInv /\ [ClientNext]_<<sessionVars, clientVars, request>>
        => [SessionsNext]_<<sessionVars, request>>
  BY ClientStepIsSessionsStep DEF ClientStep, SessionsStep
<1>3. SessionsInv /\ ClientInv /\ [ClientNext]_<<sessionVars, clientVars, request>>
        => SessionsInv' /\ ClientInv'
  BY <1>2, SessionsNextInv, ClientNextInv DEF ClientStep, SessionsStep
<1>4. QED
  BY <1>1, <1>2, <1>3, PTL DEF ClientSpec, SessionsSpec

\* What a browser does with its refreshes is what TokenService allows any client
\* to do: the client implements the sessions, and has their properties.
THEOREM ClientImplementsSessions == ClientSpec => SessionsSpec
BY ClientInductive, PTL

\* api/client.ts and lib/stepUp.ts: a call refreshes once at most, and a step-up
\* token goes to the action its code was typed for.
THEOREM ClientIsPolite == ClientSpec => []ClientAsksOnce
BY ClientInductive, PTL DEF ClientInv

-----------------------------------------------------------------------------
(* Authenticators.                                                         *)

\* The inductive invariant of AuthenticatorsSpec.
AuthenticatorsInv ==
  /\ AuthenticatorsTypeOK
  /\ request \in [Requests -> AuthenticatorRequest]
  /\ AuthenticatorComesWithCodes

LEMMA AuthenticatorsInitInv == AuthenticatorsInit /\ HandlersInit => AuthenticatorsInv
BY AuthenticatorsAssumption
DEF AuthenticatorsInit, HandlersInit, AuthenticatorsInv, AuthenticatorsTypeOK, NoTotp, NoBackup,
    AuthenticatorRequest, AuthenticatorComesWithCodes

\* A step that moves one request, and leaves the rows as they are or well formed.
LEMMA AuthenticatorStep ==
  ASSUME AuthenticatorsInv, AuthenticatorsTypeOK', AuthenticatorComesWithCodes',
         NEW r \in Requests, NEW q \in AuthenticatorRequest,
         request' = [request EXCEPT ![r] = q]
  PROVE  AuthenticatorsInv'
BY DEF AuthenticatorsInv

LEMMA AuthenticatorRows ==
  ASSUME AuthenticatorsTypeOK
  PROVE  /\ totp \in [secret : Secrets \cup {None}, enabled : BOOLEAN, consumed : -1 .. LastStep]
         /\ totp.secret = None => ~ totp.enabled
         /\ backup.enabled => backup \in [enabled : {TRUE}, codes : SUBSET Codes]
         /\ ~ backup.enabled => backup = NoBackup
<1>1. totp.secret = None => ~ totp.enabled
  BY DEF AuthenticatorsTypeOK, NoTotp
<1>2. CASE backup = NoBackup
  BY <1>1, <1>2 DEF AuthenticatorsTypeOK, NoBackup
<1>3. CASE backup \in [enabled : {TRUE}, codes : SUBSET Codes]
  BY <1>1, <1>3 DEF AuthenticatorsTypeOK
<1>4. QED
  BY <1>2, <1>3 DEF AuthenticatorsTypeOK

LEMMA AuthenticatorsNextInv ==
  ASSUME AuthenticatorsInv, [AuthenticatorsNext]_<<authenticatorVars, request>>
  PROVE  AuthenticatorsInv'
<1> USE AuthenticatorsAssumption, AuthenticatorRows DEF AuthenticatorsInv
<1>1. Idle \in AuthenticatorRequest /\ \A r \in Requests : request[r] \in AuthenticatorRequest
  BY DEF AuthenticatorRequest
<1>2. ASSUME UNCHANGED authenticatorVars
      PROVE  AuthenticatorsTypeOK' /\ AuthenticatorComesWithCodes'
  BY <1>2 DEF authenticatorVars, AuthenticatorsTypeOK, AuthenticatorComesWithCodes
<1>3. ASSUME NEW r \in Requests, BeginTotpSetup(r) \/ CheckSetupCode(r) PROVE AuthenticatorsInv'
  <2>1. [at |-> "upsertTotp"] \in AuthenticatorRequest /\ [at |-> "enableTotp"] \in AuthenticatorRequest
    BY DEF AuthenticatorRequest
  <2>2. QED
    BY <1>2, <1>3, <2>1, AuthenticatorStep DEF BeginTotpSetup, CheckSetupCode, Start
<1>4. ASSUME NEW r \in Requests, UpsertTotp(r) PROVE AuthenticatorsInv'
  <2>1. PICK secret \in Secrets : totp' = [totp EXCEPT !.secret = secret, !.enabled = FALSE]
    BY <1>4 DEF UpsertTotp
  <2>2. totp' \in [secret : Secrets \cup {None}, enabled : BOOLEAN, consumed : -1 .. LastStep]
        /\ totp'.secret # None /\ ~ totp'.enabled
    BY <2>1
  <2>3. AuthenticatorsTypeOK' /\ AuthenticatorComesWithCodes'
    BY <1>4, <2>2 DEF UpsertTotp, AuthenticatorsTypeOK, AuthenticatorComesWithCodes
  <2>4. QED
    BY <1>1, <1>4, <2>3, AuthenticatorStep DEF UpsertTotp, Stop
<1>5. ASSUME NEW r \in Requests, EnableTotp(r) PROVE AuthenticatorsInv'
  <2>1. CASE totp.secret = None
    BY <1>1, <1>2, <1>5, <2>1, AuthenticatorStep DEF EnableTotp, Stop, authenticatorVars
  <2>2. CASE totp.secret # None
    <3>1. /\ totp' \in [secret : Secrets \cup {None}, enabled : BOOLEAN, consumed : -1 .. LastStep]
          /\ totp'.secret # None
          /\ backup' = [enabled |-> TRUE, codes |-> Codes] /\ spent' = {} /\ UNCHANGED step
      BY <1>5, <2>2 DEF EnableTotp
    <3>2. AuthenticatorsTypeOK' /\ AuthenticatorComesWithCodes'
      BY <3>1 DEF AuthenticatorsTypeOK, AuthenticatorComesWithCodes
    <3>3. QED
      BY <1>1, <1>5, <3>2, AuthenticatorStep DEF EnableTotp, Stop
  <2>3. QED
    BY <2>1, <2>2
<1>6. ASSUME NEW r \in Requests, VerifyTotp(r) PROVE AuthenticatorsInv'
  <2>1. [at |-> "consumeStep", step |-> step] \in AuthenticatorRequest
    BY DEF AuthenticatorRequest, AuthenticatorsTypeOK
  <2>2. QED
    BY <1>2, <1>6, <2>1, AuthenticatorStep DEF VerifyTotp, Start
<1>7. ASSUME NEW r \in Requests, ConsumeStep(r) PROVE AuthenticatorsInv'
  <2>1. request[r].step \in 0 .. LastStep
    BY <1>1, <1>7 DEF ConsumeStep, AuthenticatorRequest, Idle
  <2>2. /\ totp' \in [secret : Secrets \cup {None}, enabled : BOOLEAN, consumed : -1 .. LastStep]
        /\ totp'.enabled = totp.enabled /\ totp'.secret = totp.secret
        /\ totp.secret = None => totp' = totp
    BY <1>7, <2>1 DEF ConsumeStep
  <2>3. AuthenticatorsTypeOK' /\ AuthenticatorComesWithCodes'
    BY <1>7, <2>2 DEF ConsumeStep, AuthenticatorsTypeOK, AuthenticatorComesWithCodes
  <2>4. QED
    BY <1>1, <1>7, <2>3, AuthenticatorStep DEF ConsumeStep, Stop
<1>8. ASSUME NEW r \in Requests, NEW code \in Codes, FindBackupCode(r, code)
      PROVE  AuthenticatorsInv'
  <2>1. [at |-> "removeCode", code |-> code, remaining |-> backup.codes \ {code}]
          \in AuthenticatorRequest
    BY <1>8 DEF FindBackupCode, AuthenticatorRequest
  <2>2. QED
    BY <1>2, <1>8, <2>1, AuthenticatorStep DEF FindBackupCode, Start
<1>9. ASSUME NEW r \in Requests, RemoveBackupCode(r) PROVE AuthenticatorsInv'
  <2>1. request[r].code \in Codes /\ request[r].remaining \in SUBSET Codes
    BY <1>1, <1>9 DEF RemoveBackupCode, AuthenticatorRequest, Idle
  <2>2. CASE backup.enabled
    <3>1. /\ backup' \in [enabled : {TRUE}, codes : SUBSET Codes]
          /\ spent' = spent \cup {request[r].code} /\ UNCHANGED <<totp, step>>
      BY <1>9, <2>1, <2>2 DEF RemoveBackupCode
    <3>2. AuthenticatorsTypeOK' /\ AuthenticatorComesWithCodes'
      BY <2>1, <3>1 DEF AuthenticatorsTypeOK, AuthenticatorComesWithCodes
    <3>3. QED
      BY <1>1, <1>9, <3>2, AuthenticatorStep DEF RemoveBackupCode, Stop
  <2>3. CASE ~ backup.enabled
    BY <1>1, <1>2, <1>9, <2>3, AuthenticatorStep DEF RemoveBackupCode, Stop, authenticatorVars
  <2>4. QED
    BY <2>2, <2>3
<1>10. ASSUME NEW r \in Requests, FailAuthenticatorRequest(r) PROVE AuthenticatorsInv'
  BY <1>1, <1>2, <1>10, AuthenticatorStep DEF FailAuthenticatorRequest, Abandon, Stop
<1>11. CASE ResetAuthenticator
  BY <1>11
  DEF ResetAuthenticator, AuthenticatorsTypeOK, AuthenticatorComesWithCodes, NoTotp, NoBackup
<1>12. CASE NextTotpStep
  <2>1. step' \in 0 .. LastStep /\ UNCHANGED <<totp, backup, spent, request>>
    BY <1>12 DEF NextTotpStep, AuthenticatorsTypeOK
  <2>2. QED
    BY <2>1 DEF AuthenticatorsTypeOK, AuthenticatorComesWithCodes
<1>13. CASE UNCHANGED <<authenticatorVars, request>>
  BY <1>2, <1>13
<1>14. QED
  BY <1>3, <1>4, <1>5, <1>6, <1>7, <1>8, <1>9, <1>10, <1>11, <1>12, <1>13 DEF AuthenticatorsNext

\* MfaService: whoever has an authenticator has its backup codes, also when an
\* administrator resets it while it is being enabled; and its rows are well
\* formed.
THEOREM AuthenticatorsHaveCodes ==
  AuthenticatorsSpec => [](AuthenticatorComesWithCodes /\ AuthenticatorsTypeOK)
BY AuthenticatorsInitInv, AuthenticatorsNextInv, PTL DEF AuthenticatorsSpec, AuthenticatorsInv

-----------------------------------------------------------------------------
(* Signatures.                                                             *)

\* The inductive invariant of SignaturesSpec: a nonce's row is there if, and
\* only if, a request was let by with it.
SignaturesInv ==
  /\ SignaturesTypeOK
  /\ request \in [Requests -> SignatureRequest]
  /\ \A n \in Nonces : admitted[n] = IF n \in nonce THEN 1 ELSE 0
  /\ EnrolledCanSign

LEMMA SignaturesInitInv == SignaturesInit /\ HandlersInit => SignaturesInv
BY DEF SignaturesInit, HandlersInit, SignaturesInv, SignaturesTypeOK, SignatureRequest,
       EnrolledCanSign

LEMMA SignaturesNextInv ==
  ASSUME SignaturesInv, [SignaturesNext]_<<signatureVars, request>>
  PROVE  SignaturesInv'
<1> USE DEF SignaturesInv
<1>1. Idle \in SignatureRequest /\ \A r \in Requests : request[r] \in SignatureRequest
  BY DEF SignatureRequest
<1>2. ASSUME UNCHANGED signatureVars, request' \in [Requests -> SignatureRequest]
      PROVE  SignaturesInv'
  BY <1>2 DEF signatureVars, SignaturesTypeOK, EnrolledCanSign, ActiveKeys
<1>3. ASSUME NEW r \in Requests, UploadPublicKey(r) PROVE SignaturesInv'
  <2>1. [at |-> "replaceKey", seen |-> ActiveKeys] \in SignatureRequest
    BY DEF SignatureRequest, ActiveKeys
  <2>2. QED
    BY <1>2, <1>3, <2>1 DEF UploadPublicKey, Start
<1>4. ASSUME NEW r \in Requests, ReplaceKey(r) PROVE SignaturesInv'
  <2>1. PICK k \in Keys : key' = [Revoked(request[r].seen) EXCEPT ![k] = "active"]
    BY <1>4 DEF ReplaceKey
  <2>2. key' \in [Keys -> {"none", "active", "revoked"}] /\ key'[k] = "active"
    BY <2>1 DEF Revoked, SignaturesTypeOK
  <2>3. EnrolledCanSign'
    BY <2>2 DEF EnrolledCanSign, ActiveKeys
  <2>4. request' \in [Requests -> SignatureRequest] /\ UNCHANGED <<nonce, admitted>>
    BY <1>1, <1>4 DEF ReplaceKey, Stop
  <2>5. QED
    BY <2>2, <2>3, <2>4 DEF SignaturesTypeOK
<1>5. ASSUME NEW r \in Requests, NEW n \in Nonces, VerifySignature(r, n) PROVE SignaturesInv'
  <2>1. [at |-> "consumeNonce", nonce |-> n] \in SignatureRequest
    BY DEF SignatureRequest
  <2>2. QED
    BY <1>2, <1>5, <2>1 DEF VerifySignature, Start
<1>6. ASSUME NEW r \in Requests, ConsumeNonce(r) PROVE SignaturesInv'
  <2>1. request' \in [Requests -> SignatureRequest] /\ UNCHANGED key
    BY <1>1, <1>6 DEF ConsumeNonce, Stop
  <2>2. PICK n : n = request[r].nonce
    OBVIOUS
  <2>3. n \in Nonces
    BY <1>1, <1>6, <2>2 DEF ConsumeNonce, SignatureRequest, Idle
  <2>4. CASE n \in nonce /\ UNCHANGED <<nonce, admitted>>
    BY <1>2, <2>1, <2>4 DEF signatureVars
  <2>5. CASE /\ n \notin nonce
             /\ nonce' = nonce \cup {n} /\ admitted' = [admitted EXCEPT ![n] = @ + 1]
    <3>1. admitted' \in [Nonces -> Nat] /\ nonce' \subseteq Nonces
      BY <2>3, <2>5 DEF SignaturesTypeOK
    <3>2. \A m \in Nonces : admitted'[m] = IF m \in nonce' THEN 1 ELSE 0
      BY <2>3, <2>5 DEF SignaturesTypeOK
    <3>3. EnrolledCanSign'
      BY <2>1 DEF EnrolledCanSign, ActiveKeys
    <3>4. QED
      BY <2>1, <3>1, <3>2, <3>3 DEF SignaturesTypeOK
  <2>6. QED
    BY <1>6, <2>2, <2>4, <2>5 DEF ConsumeNonce, Admit
<1>7. ASSUME NEW r \in Requests, FailSignatureRequest(r) PROVE SignaturesInv'
  BY <1>1, <1>2, <1>7 DEF FailSignatureRequest, Abandon, Stop
<1>8. CASE UNCHANGED <<signatureVars, request>>
  BY <1>2, <1>8
<1>9. QED
  BY <1>3, <1>4, <1>5, <1>6, <1>7, <1>8 DEF SignaturesNext

\* IdentityService: a signature authorizes one request, however many present it
\* together, and an official who enrolled a key can sign, however many keys are
\* uploaded at the same time.
THEOREM SignaturesAreSound == SignaturesSpec => [](SigningIsSound /\ SignaturesTypeOK)
<1>1. SignaturesInv => SigningIsSound /\ SignaturesTypeOK
  BY DEF SignaturesInv, SigningIsSound, SignaturesAuthorizeOnce
<1>2. QED
  BY <1>1, SignaturesInitInv, SignaturesNextInv, PTL DEF SignaturesSpec

-----------------------------------------------------------------------------
(* Accounts.                                                               *)

\* The inductive invariant of AccountsSpec.
AccountsInv ==
  /\ AccountsTypeOK
  /\ request \in [Requests -> AccountRequest]
  /\ LockoutHolds

Lockout == [status : Statuses, lock : {"none", "running", "over"}, failed : 0 .. MaxFailed]

\* The request that has to lock the account.
Locking(r) == request[r].at = "lock"

LEMMA AccountsInitInv == AccountsInit /\ HandlersInit => AccountsInv
<1> SUFFICES ASSUME AccountsInit, HandlersInit PROVE AccountsInv
  OBVIOUS
<1>1. lockout \in Lockout /\ lockout.failed = 0
  BY AccountsAssumption DEF AccountsInit, Lockout, Statuses
<1>2. request \in [Requests -> AccountRequest]
  BY DEF HandlersInit, AccountRequest
<1>3. LockoutHolds
  BY <1>1, AccountsAssumption DEF LockoutHolds
<1>4. AccountsTypeOK
  BY <1>1 DEF AccountsInit, AccountsTypeOK, Lockout
<1>5. QED
  BY <1>2, <1>3, <1>4 DEF AccountsInv

\* A step that neither counts a failure nor clears a lock, and after which
\* whoever has to lock the account still has to, or failed.
LEMMA AccountStep ==
  ASSUME AccountsInv,
         lockout' \in Lockout, uncounted' \in BOOLEAN,
         existing' \subseteq Roles, assigned' \subseteq existing',
         request' \in [Requests -> AccountRequest],
         lockout'.failed >= Threshold =>
           /\ lockout.failed >= Threshold
           /\ lockout.lock # "none" => lockout'.lock # "none"
           /\ uncounted => uncounted' \/ lockout'.lock # "none"
           /\ \A r \in Requests :
                Locking(r) => request'[r].at = "lock" \/ uncounted' \/ lockout'.lock # "none"
  PROVE  AccountsInv'
BY DEF AccountsInv, AccountsTypeOK, LockoutHolds, Lockout, Locking

\* A step of one request, that has nothing to lock, which leaves the row alone.
LEMMA AccountRequestStep ==
  ASSUME AccountsInv, UNCHANGED <<lockout, uncounted>>,
         existing' \subseteq Roles, assigned' \subseteq existing',
         NEW r \in Requests, ~ Locking(r),
         NEW q \in AccountRequest, request' = [request EXCEPT ![r] = q]
  PROVE  AccountsInv'
<1>1. \A s \in Requests : Locking(s) => request'[s].at = "lock"
  BY DEF Locking, AccountsInv
<1>2. lockout' \in Lockout /\ uncounted' \in BOOLEAN /\ request' \in [Requests -> AccountRequest]
  BY DEF AccountsInv, AccountsTypeOK, Lockout
<1>3. QED
  BY <1>1, <1>2, AccountStep

\* A step after which the account has no failures.
LEMMA ForgivenStep ==
  ASSUME AccountsInv, lockout' \in Lockout, lockout'.failed = 0 \/ lockout'.lock # "none",
         uncounted' \in BOOLEAN, UNCHANGED <<existing, assigned>>,
         request' \in [Requests -> AccountRequest]
  PROVE  AccountsInv'
BY AccountsAssumption DEF AccountsInv, AccountsTypeOK, LockoutHolds, Lockout

LEMMA LocalRequests ==
  ASSUME NEW at \in {"countFailure", "lock", "clearLock", "setPassword", "suspend", "deleteRole"},
         NEW role \in Roles \cup {None}
  PROVE  Local(at, role) \in AccountRequest
BY DEF Local, AccountRequest

LEMMA AccountsNextInv ==
  ASSUME AccountsInv, [AccountsNext]_<<accountVars, request>>
  PROVE  AccountsInv'
<1>1. /\ lockout \in Lockout /\ uncounted \in BOOLEAN
      /\ existing \subseteq Roles /\ assigned \subseteq existing
      /\ request \in [Requests -> AccountRequest] /\ Idle \in AccountRequest
      /\ Idle.at = "idle"
  BY DEF AccountsInv, AccountsTypeOK, Lockout, AccountRequest, Idle
<1>2. \A r \in Requests : request[r] = Idle => ~ Locking(r)
  BY DEF Locking, Idle
<1>3. ASSUME NEW r \in Requests, CheckPassword(r) PROVE AccountsInv'
  <2>1. PICK at \in {"countFailure", "clearLock"} : Start(r, Local(at, None))
    BY <1>3 DEF CheckPassword
  <2>2. Local(at, None) \in AccountRequest
    BY LocalRequests
  <2>3. QED
    BY <1>1, <1>2, <1>3, <2>1, <2>2, AccountRequestStep DEF CheckPassword, Start, accountVars
<1>4. ASSUME NEW r \in Requests, CountFailure(r) PROVE AccountsInv'
  <2>1. /\ lockout' \in Lockout /\ lockout'.failed = lockout.failed + 1
        /\ lockout'.lock = lockout.lock
        /\ UNCHANGED <<uncounted, existing, assigned>>
    BY <1>1, <1>4, AccountsAssumption DEF CountFailure, Lockout
  <2>2. CASE lockout'.failed >= Threshold /\ Go(r, "lock")
    <3>1. PICK q : q = [request[r] EXCEPT !.at = "lock"]
      OBVIOUS
    <3>2. q \in AccountRequest /\ q.at = "lock"
      <4>1. request[r] \in [at : {"countFailure", "lock", "clearLock", "setPassword", "suspend",
                                  "deleteRole"}, role : Roles \cup {None}]
        BY <1>1, <1>4 DEF CountFailure, AccountRequest, Idle
      <4>2. QED
        BY <3>1, <4>1 DEF AccountRequest
    <3>3. request' \in [Requests -> AccountRequest] /\ request'[r].at = "lock"
      BY <1>1, <2>2, <3>1, <3>2 DEF Go
    <3>4. QED
      BY <1>1, <2>1, <3>3 DEF AccountsInv, AccountsTypeOK, LockoutHolds, Lockout
  <2>3. CASE ~ (lockout'.failed >= Threshold) /\ Stop(r)
    <3>1. request' \in [Requests -> AccountRequest]
      BY <1>1, <2>3 DEF Stop
    <3>2. QED
      BY <1>1, <2>1, <2>3, <3>1 DEF AccountsInv, AccountsTypeOK, LockoutHolds, Lockout
  <2>4. QED
    BY <1>4, <2>2, <2>3 DEF CountFailure
<1>5. ASSUME NEW r \in Requests, Lock(r) PROVE AccountsInv'
  <2>1. lockout' \in Lockout /\ lockout'.lock = "running"
    BY <1>1, <1>5 DEF Lock, Lockout, Statuses
  <2>2. QED
    BY <1>1, <1>5, <2>1, ForgivenStep DEF Lock, Stop
<1>6. ASSUME NEW r \in Requests, ClearLockIfExpired(r) PROVE AccountsInv'
  <2>1. PICK q : q = [at |-> "recordSuccess",
                      over |-> lockout.status = "LOCKED" /\ lockout.lock = "over"]
    OBVIOUS
  <2>2. q \in AccountRequest
    BY <2>1 DEF AccountRequest
  <2>3. QED
    BY <1>1, <1>6, <2>1, <2>2, AccountRequestStep DEF ClearLockIfExpired, accountVars, Locking
<1>7. ASSUME NEW r \in Requests, RecordSuccess(r) PROVE AccountsInv'
  <2>1. lockout' \in Lockout /\ lockout'.failed = 0
    BY <1>1, <1>7, AccountsAssumption DEF RecordSuccess, Lockout, Statuses
  <2>2. QED
    BY <1>1, <1>7, <2>1, ForgivenStep DEF RecordSuccess, Stop
<1>8. CASE LockExpires
  <2>1. lockout' \in Lockout /\ lockout'.lock = "over"
    BY <1>1, <1>8 DEF LockExpires, Lockout
  <2>2. QED
    BY <1>1, <1>8, <2>1, ForgivenStep DEF LockExpires
<1>9. ASSUME NEW r \in Requests, ResetAccount(r) PROVE AccountsInv'
  <2>1. Local("setPassword", None) \in AccountRequest
    BY LocalRequests
  <2>2. QED
    BY <1>1, <1>2, <1>9, <2>1, AccountRequestStep DEF ResetAccount, Start, accountVars
<1>10. ASSUME NEW r \in Requests, SetAccountPassword(r) PROVE AccountsInv'
  <2>1. lockout' \in Lockout /\ lockout'.failed = 0
    <3>1. 0 \in 0 .. MaxFailed
      BY AccountsAssumption
    <3>2. lockout' = [lockout EXCEPT !.failed = 0, !.lock = "none"]
      BY <1>10 DEF SetAccountPassword
    <3>3. QED
      BY <1>1, <3>1, <3>2 DEF Lockout
  <2>2. QED
    BY <1>1, <1>10, <2>1, ForgivenStep DEF SetAccountPassword, Stop
<1>11. ASSUME NEW r \in Requests, NEW status \in Statuses, SetStatus(r, status)
       PROVE  AccountsInv'
  <2>1. CASE Start(r, Local("suspend", None)) /\ UNCHANGED lockout
    <3>1. Local("suspend", None) \in AccountRequest
      BY LocalRequests
    <3>2. QED
      BY <1>1, <1>2, <1>11, <2>1, <3>1, AccountRequestStep DEF SetStatus, Start
  <2>2. CASE lockout' = [lockout EXCEPT !.status = status] /\ UNCHANGED request
    <3>1. lockout' \in Lockout /\ lockout'.failed = lockout.failed /\ lockout'.lock = lockout.lock
      BY <1>1, <2>2 DEF Lockout
    <3>2. QED
      BY <1>1, <1>11, <2>2, <3>1, AccountStep DEF SetStatus, Locking
  <2>3. QED
    BY <1>11, <2>1, <2>2 DEF SetStatus
<1>12. ASSUME NEW r \in Requests, SuspendAccount(r) PROVE AccountsInv'
  <2>1. lockout' \in Lockout /\ lockout'.failed = lockout.failed /\ lockout'.lock = lockout.lock
    BY <1>1, <1>12 DEF SuspendAccount, Lockout, Statuses
  <2>2. request' \in [Requests -> AccountRequest] /\ \A s \in Requests \ {r} : request'[s] = request[s]
    BY <1>1, <1>12 DEF SuspendAccount, Stop
  <2>3. UNCHANGED <<uncounted, existing, assigned>> /\ ~ Locking(r)
    BY <1>12 DEF SuspendAccount, Locking
  <2>4. QED
    BY <1>1, <2>1, <2>2, <2>3, AccountStep DEF Locking
<1>13. ASSUME NEW r \in Requests, NEW roleIds \in SUBSET Roles, UpdateRoles(r, roleIds)
       PROVE  AccountsInv'
  <2>1. [at |-> "replaceRoles", seen |-> assigned, roleIds |-> roleIds] \in AccountRequest
    BY <1>1 DEF AccountRequest
  <2>2. QED
    BY <1>1, <1>2, <1>13, <2>1, AccountRequestStep DEF UpdateRoles, Start, accountVars
<1>14. ASSUME NEW r \in Requests, ReplaceRoles(r) PROVE AccountsInv'
  <2>1. assigned' \subseteq existing /\ UNCHANGED <<lockout, uncounted, existing>>
    BY <1>1, <1>14 DEF ReplaceRoles, Added
  <2>2. ~ Locking(r)
    BY <1>14 DEF ReplaceRoles, Locking
  <2>3. QED
    BY <1>1, <1>14, <2>1, <2>2, AccountRequestStep DEF ReplaceRoles, Stop
<1>15. ASSUME NEW r \in Requests, NEW role \in Roles, RemoveRole(r, role) PROVE AccountsInv'
  <2>1. Local("deleteRole", role) \in AccountRequest
    BY LocalRequests
  <2>2. QED
    BY <1>1, <1>2, <1>15, <2>1, AccountRequestStep DEF RemoveRole, Start, accountVars
<1>16. ASSUME NEW r \in Requests, DeleteRole(r) PROVE AccountsInv'
  <2>1. /\ existing' \subseteq Roles /\ assigned' \subseteq existing'
        /\ UNCHANGED <<lockout, uncounted>> /\ ~ Locking(r)
    BY <1>1, <1>16 DEF DeleteRole, Locking
  <2>2. QED
    BY <1>1, <1>16, <2>1, AccountRequestStep DEF DeleteRole, Stop
<1>17. ASSUME NEW role \in Roles, CreateRole(role) PROVE AccountsInv'
  <2>1. /\ existing' \subseteq Roles /\ assigned' \subseteq existing'
        /\ UNCHANGED <<lockout, uncounted, request>>
    BY <1>1, <1>17 DEF CreateRole
  <2>2. QED
    BY <1>1, <2>1, AccountStep DEF Locking
<1>18. ASSUME NEW r \in Requests, FailAccountRequest(r) PROVE AccountsInv'
  <2>1. /\ request' \in [Requests -> AccountRequest]
        /\ \A s \in Requests \ {r} : request'[s] = request[s]
        /\ UNCHANGED <<lockout, existing, assigned>>
        /\ uncounted' = (uncounted \/ Locking(r))
    BY <1>1, <1>18 DEF FailAccountRequest, Abandon, Stop, Locking
  <2>2. QED
    BY <1>1, <2>1, AccountStep DEF Locking
<1>19. CASE UNCHANGED <<accountVars, request>>
  BY <1>1, <1>19, AccountStep DEF accountVars, Locking
<1>20. QED
  BY <1>3, <1>4, <1>5, <1>6, <1>7, <1>8, <1>9, <1>10, <1>11, <1>12, <1>13, <1>14, <1>15, <1>16,
     <1>17, <1>18, <1>19 DEF AccountsNext

\* A request ends by a step of its own only, and an update of the roles by one
\* that makes all of them.
LEMMA RolesStep ==
  ASSUME AccountsInv, [AccountsNext]_<<accountVars, request>>,
         NEW r \in Requests, request[r].at = "replaceRoles", assigned' # assigned,
         request'[r] = Idle, existing' = existing
  PROVE  request[r].roleIds \subseteq assigned'
<1>1. request[r] # Idle /\ request \in [Requests -> AccountRequest]
  BY DEF Idle, AccountsInv
<1>2. ASSUME NEW s \in Requests, ReplaceRoles(s) PROVE request[r].roleIds \subseteq assigned'
  <2>1. s = r
    BY <1>1, <1>2 DEF ReplaceRoles, Stop
  <2>2. QED
    BY <1>2, <2>1 DEF ReplaceRoles
<1>3. ASSUME NEW s \in Requests, DeleteRole(s) PROVE FALSE
  BY <1>1, <1>3 DEF DeleteRole, Stop
<1>4. ASSUME NEW s \in Requests, NEW status \in Statuses, SetStatus(s, status) PROVE FALSE
  BY <1>4 DEF SetStatus
<1>5. ASSUME NEW s \in Requests,
             \/ CheckPassword(s) \/ CountFailure(s) \/ Lock(s) \/ ClearLockIfExpired(s)
             \/ RecordSuccess(s) \/ ResetAccount(s) \/ SetAccountPassword(s)
             \/ SuspendAccount(s) \/ FailAccountRequest(s)
      PROVE  FALSE
  BY <1>5
  DEF CheckPassword, CountFailure, Lock, ClearLockIfExpired, RecordSuccess, ResetAccount,
      SetAccountPassword, SuspendAccount, FailAccountRequest, accountVars
<1>6. ASSUME NEW s \in Requests,
             \/ \E roleIds \in SUBSET Roles : UpdateRoles(s, roleIds)
             \/ \E role \in Roles : RemoveRole(s, role)
      PROVE  FALSE
  BY <1>6 DEF UpdateRoles, RemoveRole, accountVars
<1>7. QED
  BY <1>2, <1>3, <1>4, <1>5, <1>6 DEF AccountsNext, LockExpires, CreateRole, accountVars

LEMMA AccountsInductive == AccountsSpec => []AccountsInv
BY AccountsInitInv, AccountsNextInv, PTL DEF AccountsSpec

\* UsersService and AuthService: as many failures as the threshold lead to a
\* lock in whatever order the attempts, the successes and the resets write, and
\* a change of the roles is made whole or not at all.
THEOREM AccountsKept == AccountsSpec => AccountsAreKept
<1> DEFINE Whole == \A r \in Requests :
             request[r].at = "replaceRoles" /\ assigned' # assigned /\ request'[r] = Idle /\
             existing' = existing
               => request[r].roleIds \subseteq assigned'
<1>1. AccountsInv /\ [AccountsNext]_<<accountVars, request>> => [Whole]_<<accountVars, request>>
  BY RolesStep
<1>2. AccountsInv => LockoutHolds
  BY DEF AccountsInv
<1>3. RolesChangeWhole <=> [][Whole]_<<accountVars, request>>
  BY DEF RolesChangeWhole
<1> HIDE DEF Whole
<1>4. QED
  BY <1>1, <1>2, <1>3, AccountsInductive, PTL DEF AccountsSpec, AccountsAreKept

-----------------------------------------------------------------------------
(* Selections.                                                             *)

\* The inductive invariant of SelectionsSpec: a dialogue is about the project
\* that is selected while it is open, and nothing is unselected again.
SelectionsInv ==
  /\ SelectionsTypeOK
  /\ dialogue # NoSelection => selected = dialogue
  /\ reading # NoSelection => selected # NoSelection
  /\ (stored["report"] # NoSelection \/ \E w \in Selectable : <<"report", w>> \in fetching)
       => opened # NoSelection
  /\ MilestonesAreOfTheirProject

LEMMA SelectionsInitInv == SelectionsInit => SelectionsInv
BY DEF SelectionsInit, SelectionsInv, SelectionsTypeOK, Lists, MilestonesAreOfTheirProject, AsMeant

LEMMA SelectionsNextInv ==
  ASSUME SelectionsInv, [SelectionsNext]_selectionVars
  PROVE  SelectionsInv'
<1> USE SelectionsAssumption
    DEF SelectionsInv, SelectionsTypeOK, MilestonesAreOfTheirProject, AsMeant, Lists
<1>1. ASSUME NEW p \in Selectable, SelectProject(p) PROVE SelectionsInv'
  <2>1. /\ fetching' \subseteq Lists \X Selectable
        /\ \A w \in Selectable : <<"report", w>> \in fetching' => <<"report", w>> \in fetching
    BY <1>1 DEF SelectProject
  <2>2. QED
    BY <1>1, <2>1 DEF SelectProject
<1>2. ASSUME NEW w \in Selectable, OpenReport(w) PROVE SelectionsInv'
  BY <1>2 DEF OpenReport
<1>3. ASSUME NEW f \in fetching, Fetched(f) PROVE SelectionsInv'
  BY <1>3 DEF Fetched
<1>4. ASSUME AskCompleteMilestone PROVE SelectionsInv'
  BY <1>4 DEF AskCompleteMilestone, MilestonesForSelected
<1>5. ASSUME ConfirmComplete PROVE SelectionsInv'
  BY <1>5 DEF ConfirmComplete, Act, Actions
<1>6. ASSUME CloseDialogue PROVE SelectionsInv'
  BY <1>6 DEF CloseDialogue
<1>7. ASSUME ReadFile PROVE SelectionsInv'
  BY <1>7 DEF ReadFile
<1>8. ASSUME UploadEvidence PROVE SelectionsInv'
  <2>1. /\ fetching' \subseteq Lists \X Selectable
        /\ \A w \in Selectable : <<"report", w>> \in fetching' => <<"report", w>> \in fetching
    BY <1>8 DEF UploadEvidence
  <2>2. acted' = [action |-> "upload", meant |-> reading, to |-> selected]
    BY <1>8 DEF UploadEvidence, Act
  <2>3. acted' \in [action : Actions, meant : Selectable, to : Selectable \cup {NoSelection}]
    BY <1>8, <2>2 DEF UploadEvidence, Actions
  <2>4. QED
    BY <1>8, <2>1, <2>2, <2>3 DEF UploadEvidence
<1>9. ASSUME ActOnReport PROVE SelectionsInv'
  BY <1>9 DEF ActOnReport, Act, Actions
<1>10. CASE UNCHANGED selectionVars
  BY <1>10 DEF selectionVars
<1>11. QED
  BY <1>1, <1>2, <1>3, <1>4, <1>5, <1>6, <1>7, <1>8, <1>9, <1>10 DEF SelectionsNext

\* ProjectsView: a milestone is completed within the project that is selected,
\* whichever order the answers to its and to earlier selections come in.
THEOREM MilestonesAreKept == SelectionsSpec => []MilestonesAreOfTheirProject
BY SelectionsInitInv, SelectionsNextInv, PTL DEF SelectionsSpec, SelectionsInv

-----------------------------------------------------------------------------
(* The web console                                                         *)

\* What becomes of a call that a page sends for a user of these roles: it is
\* granted, or is one of the exceptions that OfferedIsAllowed and SeededRolesFit name.
Granted(roles, p, by, sent) ==
  \/ Entitled(PermissionsOf(roles), sent)
  \/ /\ <<p, sent>> \in Uncovered
     /\ roles \subseteq SeededRoles =>
          \/ by = "page" /\ p \in PartlyLoaded
          \/ sent = fetchPaymentRequests /\ "Engineer" \in roles /\ roles # {"Engineer"}

MaySend(roles, p, by, calls) == roles # Nobody => \A i \in DOMAIN calls : Granted(roles, p, by, calls[i])

\* The inductive invariant of ConsoleSpec: the page that is open is one the user
\* may open, and what is under way was offered to the roles that the console shows.
ConsoleInv ==
  /\ ConsoleTypeOK
  /\ shown # Nobody => page # "login"
  /\ shown = Nobody => token = Nobody
  /\ page # "login" => Opens(page, shown)
  /\ \A c \in pending : CallsReach(c.calls) /\ MaySend(shown, page, c.by, c.calls)
  /\ ConsoleAgreesWithApi

LEMMA ConsoleInitInv == ConsoleInit => ConsoleInv
BY ConsoleAssumption
DEF ConsoleInit, ConsoleInv, ConsoleTypeOK, ConsoleAgreesWithApi, OfferedIsAllowed, SeededRolesFit,
    CallsAreUnderstood, NavigationLeads, NoLink

\* The API refuses a call that reaches it only to who is not entitled to it.
LEMMA RefusedIsNotEntitled ==
  ASSUME NEW path \in DOMAIN EndpointOf, NEW roles, NEW high \in BOOLEAN,
         ProofGuards(EndpointOf[path], Carries(path))
  PROVE  /\ Answer(path, roles, high) \in {"unauthenticated", "denied", "unproven", "served"}
         /\ Answer(path, roles, high) = "denied" => roles # Nobody /\ ~ Entitled(PermissionsOf(roles), path)
         /\ Answer(path, roles, high) = "unproven" => path \in PolicyStepUps
<1> DEFINE endpoint == EndpointOf[path]
<1>1. Answer(path, roles, high) =
        IF ~ JwtAuthGuard(endpoint, roles) THEN "unauthenticated"
        ELSE IF ~ PermissionsGuard(endpoint, roles) THEN "denied"
        ELSE IF ~ highValueApprovalRule(path, high) THEN "unproven" ELSE "served"
  BY DEF Answer
<1>2. PermissionsGuard(endpoint, roles) <=> Entitled(PermissionsOf(roles), path)
  BY DEF PermissionsGuard, Entitled
<1>3. ~ JwtAuthGuard(endpoint, Nobody) \/ PermissionsGuard(endpoint, Nobody)
  BY DEF JwtAuthGuard, PermissionsGuard
<1>4. QED
  BY <1>1, <1>2, <1>3 DEF highValueApprovalRule

LEMMA OffersReach ==
  ASSUME NEW p \in Pages, NEW o \in Loads[p] \cup Controls[p]
  PROVE  CallsReach(o.calls)
BY ConsoleTablesAgree DEF TablesAgree

\* What the roles of a user grant, one by one.
LEMMA RolesGrant ==
  ASSUME NEW roles \in Assignments, roles \subseteq SeededRoles
  PROVE  \A right : right \in PermissionsOf(roles) <=> \E role \in roles : right \in RolePermissions[role]
<1>1. \A role \in roles : GrantsOf(role) = RolePermissions[role]
  BY ConsoleAssumption DEF GrantsOf
<1>2. roles # Nobody
  BY DEF Nobody, SeededRoles, RolePermissions
<1>3. QED
  BY <1>1, <1>2 DEF PermissionsOf

\* Of the seeded roles, the Engineer and the Super Administrator verify invoices;
\* the Engineer alone cannot open the contracts.
LEMMA Verifiers ==
  /\ \A role \in SeededRoles :
       "invoice:verify" \in RolePermissions[role] => role \in {"Engineer", "SuperAdministrator"}
  /\ "contract:read" \notin RolePermissions["Engineer"]
  /\ RolePermissions["SuperAdministrator"] = AllPermissions
BY DEF SeededRoles, RolePermissions, AuditorGrants, TreasuryGrants, FinanceGrants, ProcurementGrants,
       AccountingGrants, SupplierGrants, ProjectManagerGrants, EngineerGrants, ApprovingGrants,
       OversightGrants, OfficeReads

LEMMA OffersMaySend ==
  ASSUME NEW roles \in Assignments \cup {Nobody}, NEW p \in Pages, Opens(p, roles),
         NEW o \in Loads[p] \cup Controls[p], Holds(roles, o.shown),
         NEW by, o \in Controls[p] \/ by = "page"
  PROVE  MaySend(roles, p, by, o.calls)
<1> SUFFICES ASSUME roles # Nobody, NEW i \in DOMAIN o.calls
             PROVE  Granted(roles, p, by, o.calls[i])
  BY DEF MaySend
<1> DEFINE sent == o.calls[i]
           needs == EndpointOf[sent].needs
<1>1. roles \in Assignments
  OBVIOUS
<1>2. Brought(o, p) \subseteq PermissionsOf(roles)
  BY DEF Brought, Opens, Holds
<1>3. /\ Entitled(Brought(o, p), sent) \/ <<p, sent>> \in Uncovered
      /\ \/ CoveredBySeed(Brought(o, p), sent)
         \/ o \notin Controls[p] /\ p \in PartlyLoaded
         \/ /\ p = "contracts" /\ "invoice:verify" \in o.shown
            /\ sent = fetchPaymentRequests /\ needs = "payment:read"
  BY ConsoleTablesAgree DEF TablesAgree
<1>4. Entitled(PermissionsOf(roles), sent) \/ <<p, sent>> \in Uncovered
  BY <1>2, <1>3 DEF Entitled
<1> SUFFICES ASSUME roles \subseteq SeededRoles
             PROVE  \/ Entitled(PermissionsOf(roles), sent)
                    \/ by = "page" /\ p \in PartlyLoaded
                    \/ sent = fetchPaymentRequests /\ "Engineer" \in roles /\ roles # {"Engineer"}
  BY <1>4 DEF Granted
<1>5. \A right : right \in PermissionsOf(roles) <=> \E role \in roles : right \in RolePermissions[role]
  BY <1>1, RolesGrant
<1>6. CASE CoveredBySeed(Brought(o, p), sent)
  <2>1. ASSUME NEW right \in Brought(o, p),
               \A role \in SeededRoles : right \in RolePermissions[role] => needs \in RolePermissions[role]
        PROVE  needs \in PermissionsOf(roles)
    <3>1. right \in PermissionsOf(roles)
      BY <1>2, <2>1
    <3>2. PICK role \in roles : right \in RolePermissions[role]
      BY <1>5, <3>1
    <3>3. needs \in RolePermissions[role]
      BY <2>1, <3>2
    <3>4. QED
      BY <1>5, <3>2, <3>3
  <2>2. QED
    BY <1>6, <2>1 DEF CoveredBySeed, Entitled
<1>7. CASE o \notin Controls[p] /\ p \in PartlyLoaded
  BY <1>7
<1>8. CASE /\ p = "contracts" /\ "invoice:verify" \in o.shown
           /\ sent = fetchPaymentRequests /\ needs = "payment:read"
  <2>1. PICK role \in roles : "invoice:verify" \in RolePermissions[role]
    BY <1>5, <1>8 DEF Holds
  <2>2. PICK other \in roles : "contract:read" \in RolePermissions[other]
    <3>1. "contract:read" \in PermissionsOf(roles)
      BY <1>8 DEF Opens, Holds, RouteNeeds
    <3>2. QED
      BY <1>5, <3>1
  <2>3. other # "Engineer" /\ role \in {"Engineer", "SuperAdministrator"}
    BY <2>1, <2>2, Verifiers
  <2>4. CASE role = "SuperAdministrator"
    <3>1. needs \in RolePermissions[role]
      BY <1>8, <2>4, Verifiers DEF AllPermissions
    <3>2. QED
      BY <1>5, <3>1 DEF Entitled
  <2>5. QED
    BY <1>8, <2>2, <2>3, <2>4
<1>9. QED
  BY <1>3, <1>6, <1>7, <1>8

\* What a page loads.
LEMMA SentIsOffered ==
  ASSUME NEW roles \in Assignments \cup {Nobody}, NEW p \in Pages, Opens(p, roles),
         NEW c \in Sent(Loads[p], roles, "page")
  PROVE  CallsReach(c.calls) /\ MaySend(roles, p, c.by, c.calls)
<1>1. PICK o \in Loads[p] : Holds(roles, o.shown) /\ c = [calls |-> o.calls, by |-> "page"]
  BY DEF Sent
<1>2. c.by = "page" /\ c.calls = o.calls
  BY <1>1
<1>3. QED
  BY <1>1, <1>2, OffersReach, OffersMaySend

\* The router opens a page that these roles may open.
LEMMA GuardedOpens ==
  ASSUME NEW p \in Pages, NEW roles
  PROVE  Guarded(p, roles) \in Pages /\ Opens(Guarded(p, roles), roles)
<1>1. "dashboard" \in Pages /\ RouteNeeds["dashboard"] = {}
  BY DEF Pages, RouteNeeds
<1>2. Opens("dashboard", roles)
  BY <1>1 DEF Opens, Holds
<1>3. QED
  BY <1>1, <1>2 DEF Guarded

\* A page that the roles may open is shown to them.
LEMMA ShowStep ==
  ASSUME ConsoleInv, granted' \in Assignments, token' \in Assignments \cup {Nobody},
         shown' \in Assignments \cup {Nobody}, shown' = Nobody => token' = Nobody,
         NEW p \in Pages, Opens(p, shown'), Show(p, shown'),
         followed' \in {NoLink} \cup [from : {"navigation", "attention"}, to : Pages],
         followed'.from = "navigation" => p = followed'.to,
         reassigned' \in 0 .. MaxAssigned
  PROVE  ConsoleInv'
<1>1. page' = p /\ pending' = Sent(Loads[p], shown', "page") /\ refused' = {}
  BY DEF Show
<1>2. ConsoleTypeOK'
  <2>1. \A c \in pending' : c \in [calls : Calls, by : {"page", "control"}]
    BY <1>1, OffersReach DEF Sent, CallsReach
  <2>2. QED
    BY <1>1, <2>1 DEF ConsoleTypeOK
<1>3. \A c \in pending' : CallsReach(c.calls) /\ MaySend(shown', p, c.by, c.calls)
  BY <1>1, SentIsOffered
<1>4. p # "login"
  BY DEF Pages, RouteNeeds
<1>5. ConsoleAgreesWithApi'
  BY <1>1 DEF ConsoleAgreesWithApi, OfferedIsAllowed, SeededRolesFit, CallsAreUnderstood, NavigationLeads
<1>6. QED
  BY <1>1, <1>2, <1>3, <1>4, <1>5 DEF ConsoleInv

\* Nobody is signed in any more.
LEMMA SignOutStep ==
  ASSUME ConsoleInv, token' = Nobody, shown' = Nobody, page' = "login", refused' = {},
         followed' = NoLink, pending = {}, UNCHANGED <<granted, pending, reassigned>>
  PROVE  ConsoleInv'
BY DEF ConsoleInv, ConsoleTypeOK, ConsoleAgreesWithApi, OfferedIsAllowed, SeededRolesFit,
       CallsAreUnderstood, NavigationLeads, NoLink

\* A link opens the page it names to whoever is shown it.
LinkLeads(link) ==
  /\ link.to \in Pages
  /\ \A roles \in Assignments : Holds(roles, link.shown) => Opens(link.to, roles)

\* Who is shown an entry of the navigation may open the page it names.
LEMMA NavigationOpens ==
  ASSUME NEW link \in NavigationLinks \cup {SupplierLink}
  PROVE  LinkLeads(link)
BY DEF NavigationLinks, SupplierLink, LinkLeads, Opens, Holds, Pages, RouteNeeds

LEMMA AttentionIsOfPages ==
  ASSUME NEW link \in AttentionLinks
  PROVE  link.to \in Pages
BY DEF AttentionLinks, Pages, RouteNeeds

LEMMA FollowStep ==
  ASSUME ConsoleInv, NEW link, NEW from \in {"navigation", "attention"}, Follow(link, from),
         link.to \in Pages,
         from = "navigation" => LinkLeads(link)
  PROVE  ConsoleInv'
<1>1. /\ shown # Nobody /\ Holds(shown, link.shown)
      /\ Show(Guarded(link.to, shown), shown)
      /\ followed' = [from |-> from, to |-> link.to]
      /\ UNCHANGED <<granted, token, shown, reassigned>>
  BY DEF Follow
<1>2. shown \in Assignments
  BY <1>1 DEF ConsoleInv, ConsoleTypeOK
<1>3. from = "navigation" => Guarded(link.to, shown) = link.to
  BY <1>1, <1>2 DEF LinkLeads, Guarded
<1>4. Guarded(link.to, shown) \in Pages /\ Opens(Guarded(link.to, shown), shown)
  BY GuardedOpens
<1>5. QED
  BY <1>1, <1>3, <1>4, ShowStep DEF ConsoleInv, ConsoleTypeOK

LEMMA UseStep ==
  ASSUME ConsoleInv, NEW offer \in Controls[page], page # "login", Use(offer)
  PROVE  ConsoleInv'
<1>1. /\ pending' = {[calls |-> offer.calls, by |-> "control"]}
      /\ refused' = {} /\ Holds(shown, offer.shown)
      /\ UNCHANGED <<granted, token, shown, page, followed, reassigned>>
  BY DEF Use
<1>2. page \in Pages /\ shown \in Assignments \cup {Nobody} /\ Opens(page, shown)
  BY DEF ConsoleInv, ConsoleTypeOK
<1>3. CallsReach(offer.calls) /\ MaySend(shown, page, "control", offer.calls)
  BY <1>1, <1>2, OffersReach, OffersMaySend
<1>4. offer.calls \in Calls
  BY <1>3 DEF CallsReach
<1>5. QED
  BY <1>1, <1>3, <1>4
  DEF ConsoleInv, ConsoleTypeOK, ConsoleAgreesWithApi, OfferedIsAllowed, SeededRolesFit,
      CallsAreUnderstood, NavigationLeads

\* The calls are answered; those that follow one that was served are sent next.
\* A call that is answered.
LEMMA AnswersFit ==
  ASSUME NEW c, c.calls \in Seq(DOMAIN EndpointOf) \ {<<>>}, NEW high \in BOOLEAN, NEW answer,
         answer = Answer(Head(c.calls), token, high),
         CallsReach(c.calls), shown = Nobody => token = Nobody, MaySend(shown, page, c.by, c.calls)
  PROVE  /\ answer \in {"unauthenticated", "denied", "unproven", "served"}
         /\ answer = "unproven" => Head(c.calls) \in PolicyStepUps
         /\ answer = "denied" /\ PermissionsOf(shown) = PermissionsOf(token) =>
              /\ <<page, Head(c.calls)>> \in Uncovered
              /\ shown \subseteq SeededRoles =>
                   \/ c.by = "page" /\ page \in PartlyLoaded
                   \/ Head(c.calls) = fetchPaymentRequests /\ "Engineer" \in shown /\ shown # {"Engineer"}
<1> DEFINE path == Head(c.calls)
<1>1. 1 \in DOMAIN c.calls /\ path = c.calls[1] /\ path \in DOMAIN EndpointOf
  OBVIOUS
<1>2. ProofGuards(EndpointOf[path], Carries(path))
  BY <1>1 DEF CallsReach
<1>3. /\ answer \in {"unauthenticated", "denied", "unproven", "served"}
      /\ answer = "denied" => token # Nobody /\ ~ Entitled(PermissionsOf(token), path)
      /\ answer = "unproven" => path \in PolicyStepUps
  BY <1>1, <1>2, RefusedIsNotEntitled
<1>4. shown # Nobody => Granted(shown, page, c.by, path)
  BY <1>1 DEF MaySend
<1>5. QED
  BY <1>3, <1>4 DEF Granted

LEMMA RestOfCalls ==
  ASSUME NEW S, NEW calls \in Seq(S), Len(calls) > 1
  PROVE  /\ Tail(calls) \in Seq(S) /\ Tail(calls) # <<>>
         /\ \A i \in DOMAIN Tail(calls) : i + 1 \in DOMAIN calls /\ Tail(calls)[i] = calls[i + 1]
<1>1. Len(calls) \in Nat /\ calls # <<>>
  OBVIOUS
<1>2. Tail(calls) \in Seq(S) /\ Len(Tail(calls)) = Len(calls) - 1
  BY <1>1
<1>3. Tail(calls) # <<>>
  <2>1. Len(Tail(calls)) # 0
    BY <1>1, <1>2
  <2>2. \A s : s = <<>> => Len(s) = 0
    OBVIOUS
  <2>3. QED
    BY <2>1, <2>2
<1>4. ASSUME NEW i \in 1 .. Len(calls) - 1
      PROVE  i + 1 \in DOMAIN calls /\ Tail(calls)[i] = calls[i + 1]
  BY <1>1, <1>4
<1>5. QED
  BY <1>1, <1>2, <1>3, <1>4

\* The calls are answered; those that follow one that was served are sent next.
LEMMA ServeStep ==
  ASSUME ConsoleInv, Serve
  PROVE  ConsoleInv'
<1>1. PICK high \in BOOLEAN :
        /\ pending' = {[c EXCEPT !.calls = Tail(@)] :
             c \in {d \in pending : Answer(Head(d.calls), token, high) = "served" /\ Len(d.calls) > 1}}
        /\ refused' = refused \cup
             {[path |-> Head(c.calls), by |-> c.by, answer |-> Answer(Head(c.calls), token, high),
               stale |-> PermissionsOf(shown) # PermissionsOf(token)] :
               c \in {d \in pending : Answer(Head(d.calls), token, high) # "served"}}
        /\ UNCHANGED <<granted, token, shown, page, followed, reassigned>>
  BY DEF Serve
<1> DEFINE AnswerTo(c) == Answer(Head(c.calls), token, high)
           Stale == PermissionsOf(shown) # PermissionsOf(token)
           Failure(c) == [path |-> Head(c.calls), by |-> c.by, answer |-> AnswerTo(c), stale |-> Stale]
           Rest(c) == [c EXCEPT !.calls = Tail(@)]
<1>2. /\ \A d \in pending' : \E c \in pending : Len(c.calls) > 1 /\ d = Rest(c)
      /\ \A f \in refused' : f \in refused \/ \E c \in pending : AnswerTo(c) # "served" /\ f = Failure(c)
  BY <1>1
<1> HIDE DEF Rest, Failure, AnswerTo, Stale
<1>3. ASSUME NEW c \in pending
      PROVE  /\ c \in [calls : Calls, by : {"page", "control"}]
             /\ c.calls \in Seq(DOMAIN EndpointOf) \ {<<>>}
             /\ CallsReach(c.calls) /\ MaySend(shown, page, c.by, c.calls)
  BY DEF ConsoleInv, ConsoleTypeOK, Calls
<1>4. ASSUME NEW c \in pending
      PROVE  /\ AnswerTo(c) \in {"unauthenticated", "denied", "unproven", "served"}
             /\ AnswerTo(c) = "unproven" => Head(c.calls) \in PolicyStepUps
             /\ AnswerTo(c) = "denied" /\ ~ Stale =>
                  /\ <<page, Head(c.calls)>> \in Uncovered
                  /\ shown \subseteq SeededRoles =>
                       \/ c.by = "page" /\ page \in PartlyLoaded
                       \/ Head(c.calls) = fetchPaymentRequests /\ "Engineer" \in shown /\ shown # {"Engineer"}
  <2>1. shown = Nobody => token = Nobody
    BY DEF ConsoleInv
  <2>2. AnswerTo(c) = Answer(Head(c.calls), token, high)
    BY DEF AnswerTo
  <2>3. ~ Stale => PermissionsOf(shown) = PermissionsOf(token)
    BY DEF Stale
  <2>4. QED
    BY <1>3, <2>1, <2>2, <2>3, AnswersFit
<1>5. ASSUME NEW c \in pending, Len(c.calls) > 1
      PROVE  /\ Rest(c) \in [calls : Calls, by : {"page", "control"}]
             /\ CallsReach(Rest(c).calls) /\ MaySend(shown, page, Rest(c).by, Rest(c).calls)
  <2>1. /\ Tail(c.calls) \in Calls
        /\ \A i \in DOMAIN Tail(c.calls) : i + 1 \in DOMAIN c.calls /\ Tail(c.calls)[i] = c.calls[i + 1]
    <3>1. PICK calls : calls = c.calls
      OBVIOUS
    <3>2. calls \in Seq(DOMAIN EndpointOf) /\ Len(calls) > 1
      BY <1>3, <1>5, <3>1
    <3>3. /\ Tail(calls) \in Seq(DOMAIN EndpointOf) /\ Tail(calls) # <<>>
          /\ \A i \in DOMAIN Tail(calls) : i + 1 \in DOMAIN calls /\ Tail(calls)[i] = calls[i + 1]
      BY <3>2, RestOfCalls
    <3>4. QED
      BY <3>1, <3>3 DEF Calls
  <2>2. Rest(c) \in [calls : Calls, by : {"page", "control"}]
    BY <1>3, <2>1 DEF Rest
  <2>3. Rest(c).by = c.by /\ Rest(c).calls = Tail(c.calls)
    BY <1>3 DEF Rest
  <2>4. QED
    BY <1>3, <2>1, <2>2, <2>3 DEF CallsReach, MaySend
<1>6. ASSUME NEW c \in pending, AnswerTo(c) # "served"
      PROVE  /\ Failure(c).path = Head(c.calls) /\ Failure(c).by = c.by
             /\ Failure(c).answer = AnswerTo(c) /\ Failure(c).stale = Stale
             /\ Failure(c).answer \in {"unauthenticated", "denied", "unproven"}
  BY <1>4, <1>6 DEF Failure
<1>7. ConsoleTypeOK'
  BY <1>1, <1>2, <1>5, <1>6 DEF ConsoleInv, ConsoleTypeOK
<1>8. OfferedIsAllowed' /\ CallsAreUnderstood' /\ NavigationLeads'
  BY <1>1, <1>2, <1>4, <1>6
  DEF ConsoleInv, ConsoleAgreesWithApi, OfferedIsAllowed, CallsAreUnderstood, NavigationLeads
<1>9. SeededRolesFit'
  <2>1. SUFFICES ASSUME shown \subseteq SeededRoles, NEW f \in refused', f.answer = "denied", ~ f.stale
                 PROVE  \/ f.by = "page" /\ page \in PartlyLoaded
                        \/ f.path = fetchPaymentRequests /\ "Engineer" \in shown /\ shown # {"Engineer"}
    BY <1>1 DEF SeededRolesFit
  <2>2. CASE f \in refused
    BY <2>1, <2>2 DEF ConsoleInv, ConsoleAgreesWithApi, SeededRolesFit
  <2>3. CASE \E c \in pending : AnswerTo(c) # "served" /\ f = Failure(c)
    BY <1>4, <1>6, <2>1, <2>3
  <2>4. QED
    BY <1>2, <2>2, <2>3
<1>10. QED
  BY <1>1, <1>2, <1>5, <1>7, <1>8, <1>9 DEF ConsoleInv, ConsoleAgreesWithApi

LEMMA ConsoleNextInv ==
  ASSUME ConsoleInv, [ConsoleNext]_consoleVars
  PROVE  ConsoleInv'
<1>1. ASSUME EnterConsole PROVE ConsoleInv'
  <2>1. "dashboard" \in Pages /\ RouteNeeds["dashboard"] = {}
    BY DEF Pages, RouteNeeds
  <2>2. Opens("dashboard", shown')
    BY <2>1 DEF Opens, Holds
  <2>3. QED
    BY <1>1, <2>1, <2>2, ShowStep DEF EnterConsole, ConsoleInv, ConsoleTypeOK, NoLink
<1>2. ASSUME AssignRole PROVE ConsoleInv'
  BY <1>2, ConsoleAssumption
  DEF AssignRole, ConsoleInv, ConsoleTypeOK, ConsoleAgreesWithApi, OfferedIsAllowed,
      SeededRolesFit, CallsAreUnderstood, NavigationLeads
<1>3. ASSUME RefreshToken PROVE ConsoleInv'
  BY <1>3
  DEF RefreshToken, ConsoleInv, ConsoleTypeOK, ConsoleAgreesWithApi, OfferedIsAllowed,
      SeededRolesFit, CallsAreUnderstood, NavigationLeads
<1>4. ASSUME Reload PROVE ConsoleInv'
  <2>1. shown # Nobody /\ pending = {} /\ page \in Pages
    BY <1>4 DEF Reload, ConsoleInv, ConsoleTypeOK
  <2>2. CASE token' = granted /\ shown' = granted /\ Show(Guarded(page, granted), granted)
    BY <1>4, <2>1, <2>2, GuardedOpens, ShowStep DEF Reload, ConsoleInv, ConsoleTypeOK, NoLink
  <2>3. CASE token' = Nobody /\ shown' = Nobody /\ page' = "login" /\ refused' = {} /\ UNCHANGED pending
    BY <1>4, <2>1, <2>3, SignOutStep DEF Reload
  <2>4. QED
    BY <1>4, <2>2, <2>3 DEF Reload
<1>5. ASSUME LeaveConsole PROVE ConsoleInv'
  BY <1>5, SignOutStep DEF LeaveConsole
<1>6. ASSUME NEW p \in Pages, Open(p) PROVE ConsoleInv'
  BY <1>6, GuardedOpens, ShowStep DEF Open, ConsoleInv, ConsoleTypeOK, NoLink
<1>7. ASSUME FollowNavigation \/ FollowSupplier PROVE ConsoleInv'
  BY <1>7, FollowStep, NavigationOpens DEF FollowNavigation, FollowSupplier, LinkLeads
<1>8. ASSUME FollowAttention PROVE ConsoleInv'
  BY <1>8, FollowStep, AttentionIsOfPages DEF FollowAttention
<1>9. ASSUME page # "login", NEW offer \in Controls[page], Use(offer) PROVE ConsoleInv'
  BY <1>9, UseStep
<1>10. ASSUME Serve PROVE ConsoleInv'
  BY <1>10, ServeStep
<1>11. CASE UNCHANGED consoleVars
  BY <1>11
  DEF consoleVars, ConsoleInv, ConsoleTypeOK, ConsoleAgreesWithApi, OfferedIsAllowed,
      SeededRolesFit, CallsAreUnderstood, NavigationLeads
<1>12. QED
  BY <1>1, <1>2, <1>3, <1>4, <1>5, <1>6, <1>7, <1>8, <1>9, <1>10, <1>11 DEF ConsoleNext

LEMMA ConsoleInductive == ConsoleSpec => []ConsoleInv
BY ConsoleInitInv, ConsoleNextInv, PTL DEF ConsoleSpec

\* The views, the router and the API client: whatever roles a user has, seeded
\* or not, and however often they are changed while pages are open and calls
\* under way, a call is denied only to a console that shows other permissions
\* than those in the token, or as one of the named exceptions, and the
\* navigation leads to the page it names.
THEOREM ConsoleAgrees == ConsoleSpec => []ConsoleAgreesWithApi
BY ConsoleInductive, PTL DEF ConsoleInv

\* The fields of an endpoint, which the prover reads better as operators.
PathOf(endpoint) == endpoint.path
NeedsOf(endpoint) == endpoint.needs

\* Permissions that suffice for an endpoint, if it is one that the seed keeps apart
\* from another.
CoverDuty(path, permissions) ==
  /\ path = "POST payment-requests/:id/approvals" => "payment:approve" \in permissions
  /\ path = "POST payment-requests/:id/execute" => "payment:execute" \in permissions
  /\ path = "POST tenders/:id/publish" => "procurement:publish" \in permissions
  /\ path = "POST bids/:id/evaluate" => "procurement:evaluate" \in permissions
  /\ path = "POST bids/:id/award" => "procurement:award" \in permissions
  /\ path = "POST procurement-requests" => "procurement:create" \in permissions
  /\ path = "POST procurement-requests/:id/approve" => "procurement:approve" \in permissions
  /\ path = "POST risk-alerts/:id/review" => "risk:review" \in permissions
  /\ path = "POST budgets" => "budget:create" \in permissions
  /\ path = "POST budgets/:id/approve" => "budget:approve" \in permissions
  /\ path = "POST purchase-orders/:id/invoices" => "invoice:submit" \in permissions
  /\ path = "POST invoices/:id/verify" => "invoice:verify" \in permissions
  /\ path = "POST milestones/:id/complete" => "project:manage" \in permissions
  /\ path = "POST milestones/:id/inspections" => "project:inspect" \in permissions

GuardsDuties(S) == \A e \in S : CoverDuty(PathOf(e), {NeedsOf(e)})

LEMMA ProvenGuardsDuties ==
  ASSUME NEW needs, NEW proof, NEW routes, \A path \in routes : CoverDuty(path, {needs})
  PROVE  GuardsDuties(Proven(needs, proof, routes))
<1>1. \A e \in Proven(needs, proof, routes) : PathOf(e) \in routes /\ NeedsOf(e) = needs
  BY DEF Proven, PathOf, NeedsOf
<1>2. QED
  BY <1>1 DEF GuardsDuties

LEMMA FinanceEndpointsGuard ==
  \A C \in {ContractsController, PurchaseOrdersController, InvoicesController,
           PaymentRequestsController, PaymentsController, FiscalYearsController,
           BudgetsController, AllocationsController, CommitmentsController, AdjustmentsController} :
    GuardsDuties(C)
<1>1. GuardsDuties(ContractsController)
  <2>1. \A path \in {"GET contracts", "GET contracts/:id"} : CoverDuty(path, {"contract:read"})
    BY DEF CoverDuty
  <2>2. \A path \in {"POST contracts", "POST contracts/:id/activate",
                      "POST contracts/:id/complete", "POST contracts/:id/terminate",
                      "POST contracts/:id/purchase-orders"} :
          CoverDuty(path, {"contract:manage"})
    BY DEF CoverDuty
  <2>3. QED
    BY <2>1, <2>2, ProvenGuardsDuties DEF ContractsController, Routes, GuardsDuties
<1>2. GuardsDuties(PurchaseOrdersController)
  <2>1. \A path \in {"GET purchase-orders", "GET purchase-orders/:id"} :
          CoverDuty(path, {"contract:read"})
    BY DEF CoverDuty
  <2>2. \A path \in {"POST purchase-orders/:id/issue", "POST purchase-orders/:id/cancel"} :
          CoverDuty(path, {"contract:manage"})
    BY DEF CoverDuty
  <2>3. \A path \in {"POST purchase-orders/:id/invoices"} : CoverDuty(path, {"invoice:submit"})
    BY DEF CoverDuty
  <2>4. QED
    BY <2>1, <2>2, <2>3, ProvenGuardsDuties DEF PurchaseOrdersController, Routes, GuardsDuties
<1>3. GuardsDuties(InvoicesController)
  <2>1. \A path \in {"GET invoices", "GET invoices/:id"} : CoverDuty(path, {"invoice:read"})
    BY DEF CoverDuty
  <2>2. \A path \in {"POST invoices/:id/verify", "POST invoices/:id/reject"} :
          CoverDuty(path, {"invoice:verify"})
    BY DEF CoverDuty
  <2>3. QED
    BY <2>1, <2>2, ProvenGuardsDuties DEF InvoicesController, Routes, GuardsDuties
<1>4. GuardsDuties(PaymentRequestsController)
  <2>1. \A path \in {"GET payment-requests", "GET payment-requests/:id"} :
          CoverDuty(path, {"payment:read"})
    BY DEF CoverDuty
  <2>2. \A path \in {"POST payment-requests/:id/approvals"} : CoverDuty(path, {"payment:approve"})
    BY DEF CoverDuty
  <2>3. \A path \in {"POST payment-requests/:id/execute"} : CoverDuty(path, {"payment:execute"})
    BY DEF CoverDuty
  <2>4. QED
    BY <2>1, <2>2, <2>3, ProvenGuardsDuties DEF PaymentRequestsController, Routes, GuardsDuties
<1>5. GuardsDuties(PaymentsController)
  <2>1. \A path \in {"GET payments", "GET payments/:id"} : CoverDuty(path, {"payment:read"})
    BY DEF CoverDuty
  <2>2. \A path \in {"POST payments/:id/reconciliations"} : CoverDuty(path, {"payment:reconcile"})
    BY DEF CoverDuty
  <2>3. QED
    BY <2>1, <2>2, ProvenGuardsDuties DEF PaymentsController, Routes, GuardsDuties
<1>6. GuardsDuties(FiscalYearsController)
  <2>1. \A path \in {"GET fiscal-years"} : CoverDuty(path, {"budget:read"})
    BY DEF CoverDuty
  <2>2. \A path \in {"POST fiscal-years", "POST fiscal-years/:id/activate",
                      "POST fiscal-years/:id/close"} :
          CoverDuty(path, {"budget:manage"})
    BY DEF CoverDuty
  <2>3. QED
    BY <2>1, <2>2, ProvenGuardsDuties DEF FiscalYearsController, Routes, GuardsDuties
<1>7. GuardsDuties(BudgetsController)
  <2>1. \A path \in {"GET budgets", "GET budgets/:id"} : CoverDuty(path, {"budget:read"})
    BY DEF CoverDuty
  <2>2. \A path \in {"POST budgets", "POST budgets/:id/submit"} :
          CoverDuty(path, {"budget:create"})
    BY DEF CoverDuty
  <2>3. \A path \in {"POST budgets/:id/approve"} : CoverDuty(path, {"budget:approve"})
    BY DEF CoverDuty
  <2>4. \A path \in {"POST budgets/:id/reject"} : CoverDuty(path, {"budget:approve"})
    BY DEF CoverDuty
  <2>5. QED
    BY <2>1, <2>2, <2>3, <2>4, ProvenGuardsDuties DEF BudgetsController, Routes, GuardsDuties
<1>8. GuardsDuties(AllocationsController)
  <2>1. \A path \in {"GET allocations", "GET allocations/:id"} : CoverDuty(path, {"budget:read"})
    BY DEF CoverDuty
  <2>2. \A path \in {"POST allocations/:id/commitments"} : CoverDuty(path, {"budget:commit"})
    BY DEF CoverDuty
  <2>3. \A path \in {"POST allocations/:id/adjustments"} : CoverDuty(path, {"budget:adjust"})
    BY DEF CoverDuty
  <2>4. QED
    BY <2>1, <2>2, <2>3, ProvenGuardsDuties DEF AllocationsController, Routes, GuardsDuties
<1>9. GuardsDuties(CommitmentsController)
  <2>1. \A path \in {"POST commitments/:id/release"} : CoverDuty(path, {"budget:commit"})
    BY DEF CoverDuty
  <2>2. \A path \in {"POST commitments/:id/expenditures"} : CoverDuty(path, {"budget:spend"})
    BY DEF CoverDuty
  <2>3. QED
    BY <2>1, <2>2, ProvenGuardsDuties DEF CommitmentsController, Routes, GuardsDuties
<1>10. GuardsDuties(AdjustmentsController)
  <2>1. \A path \in {"POST adjustments/:id/approve", "POST adjustments/:id/reject"} :
          CoverDuty(path, {"budget:approve"})
    BY DEF CoverDuty
  <2>2. QED
    BY <2>1, ProvenGuardsDuties DEF AdjustmentsController, Routes, GuardsDuties
<1>11. QED
  BY <1>1, <1>2, <1>3, <1>4, <1>5, <1>6, <1>7, <1>8, <1>9, <1>10

LEMMA ProcurementEndpointsGuard ==
  \A C \in {ProcurementPlansController, ProcurementRequestsController, TendersController,
           TenderLotsController, BidsController, SuppliersController, SupplierProfileController,
           SupplierOwnersController, SupplierDocumentsController, SupplierRiskController} :
    GuardsDuties(C)
<1>1. GuardsDuties(ProcurementPlansController)
  <2>1. \A path \in {"GET procurement-plans", "GET procurement-plans/:id"} :
          CoverDuty(path, {"procurement:read"})
    BY DEF CoverDuty
  <2>2. \A path \in {"POST procurement-plans"} : CoverDuty(path, {"procurement:manage"})
    BY DEF CoverDuty
  <2>3. \A path \in {"POST procurement-plans/:id/approve"} :
          CoverDuty(path, {"procurement:approve"})
    BY DEF CoverDuty
  <2>4. QED
    BY <2>1, <2>2, <2>3, ProvenGuardsDuties DEF ProcurementPlansController, Routes, GuardsDuties
<1>2. GuardsDuties(ProcurementRequestsController)
  <2>1. \A path \in {"GET procurement-requests", "GET procurement-requests/:id"} :
          CoverDuty(path, {"procurement:read"})
    BY DEF CoverDuty
  <2>2. \A path \in {"POST procurement-requests", "POST procurement-requests/:id/submit",
                      "POST procurement-requests/:id/tenders"} :
          CoverDuty(path, {"procurement:create"})
    BY DEF CoverDuty
  <2>3. \A path \in {"POST procurement-requests/:id/approve",
                      "POST procurement-requests/:id/reject"} :
          CoverDuty(path, {"procurement:approve"})
    BY DEF CoverDuty
  <2>4. QED
    BY <2>1, <2>2, <2>3, ProvenGuardsDuties DEF ProcurementRequestsController, Routes, GuardsDuties
<1>3. GuardsDuties(TendersController)
  <2>1. \A path \in {"GET tenders", "GET tenders/:id"} : CoverDuty(path, {"procurement:read"})
    BY DEF CoverDuty
  <2>2. \A path \in {"POST tenders/:id/publish", "POST tenders/:id/close"} :
          CoverDuty(path, {"procurement:publish"})
    BY DEF CoverDuty
  <2>3. \A path \in {"POST tenders/:id/cancel"} : CoverDuty(path, {"procurement:approve"})
    BY DEF CoverDuty
  <2>4. QED
    BY <2>1, <2>2, <2>3, ProvenGuardsDuties DEF TendersController, Routes, GuardsDuties
<1>4. GuardsDuties(TenderLotsController)
  <2>1. \A path \in {"GET tender-lots/:id/bids"} : CoverDuty(path, {"procurement:read"})
    BY DEF CoverDuty
  <2>2. \A path \in {"POST tender-lots/:id/bids"} : CoverDuty(path, {"procurement:bid"})
    BY DEF CoverDuty
  <2>3. QED
    BY <2>1, <2>2, ProvenGuardsDuties DEF TenderLotsController, Routes, GuardsDuties
<1>5. GuardsDuties(BidsController)
  <2>1. \A path \in {"POST bids/:id/evaluate"} : CoverDuty(path, {"procurement:evaluate"})
    BY DEF CoverDuty
  <2>2. \A path \in {"POST bids/:id/award"} : CoverDuty(path, {"procurement:award"})
    BY DEF CoverDuty
  <2>3. QED
    BY <2>1, <2>2, ProvenGuardsDuties DEF BidsController, Routes, GuardsDuties
<1>6. GuardsDuties(SuppliersController)
  <2>1. \A path \in {"GET suppliers", "GET suppliers/:id"} : CoverDuty(path, {"procurement:read"})
    BY DEF CoverDuty
  <2>2. \A path \in {"POST suppliers"} : CoverDuty(path, {"procurement:manage"})
    BY DEF CoverDuty
  <2>3. QED
    BY <2>1, <2>2, ProvenGuardsDuties DEF SuppliersController, Routes, GuardsDuties
<1>7. GuardsDuties(SupplierProfileController)
  <2>1. \A path \in {"GET suppliers/:id/profile"} : CoverDuty(path, {"supplier:read"})
    BY DEF CoverDuty
  <2>2. \A path \in {"PATCH suppliers/:id", "POST suppliers/:id/suspend",
                      "POST suppliers/:id/reactivate", "POST suppliers/:id/blacklist"} :
          CoverDuty(path, {"supplier:manage"})
    BY DEF CoverDuty
  <2>3. QED
    BY <2>1, <2>2, ProvenGuardsDuties DEF SupplierProfileController, Routes, GuardsDuties
<1>8. GuardsDuties(SupplierOwnersController)
  <2>1. \A path \in {"GET suppliers/:id/owners"} : CoverDuty(path, {"supplier:read_sensitive"})
    BY DEF CoverDuty
  <2>2. \A path \in {"POST suppliers/:id/owners", "POST suppliers/:id/owners/:ownerId/remove"} :
          CoverDuty(path, {"supplier:manage"})
    BY DEF CoverDuty
  <2>3. QED
    BY <2>1, <2>2, ProvenGuardsDuties DEF SupplierOwnersController, Routes, GuardsDuties
<1>9. GuardsDuties(SupplierDocumentsController)
  <2>1. \A path \in {"GET suppliers/:id/documents"} : CoverDuty(path, {"supplier:read_sensitive"})
    BY DEF CoverDuty
  <2>2. \A path \in {"POST suppliers/:id/documents"} : CoverDuty(path, {"supplier:manage"})
    BY DEF CoverDuty
  <2>3. \A path \in {"POST supplier-documents/:id/verify", "POST supplier-documents/:id/reject"} :
          CoverDuty(path, {"supplier:verify"})
    BY DEF CoverDuty
  <2>4. QED
    BY <2>1, <2>2, <2>3, ProvenGuardsDuties DEF SupplierDocumentsController, Routes, GuardsDuties
<1>10. GuardsDuties(SupplierRiskController)
  <2>1. \A path \in {"GET suppliers/:id/risk-profile", "GET suppliers/:id/risk-profile/history"} :
          CoverDuty(path, {"supplier:read_sensitive"})
    BY DEF CoverDuty
  <2>2. \A path \in {"POST suppliers/:id/risk-profile"} : CoverDuty(path, {"supplier:verify"})
    BY DEF CoverDuty
  <2>3. QED
    BY <2>1, <2>2, ProvenGuardsDuties DEF SupplierRiskController, Routes, GuardsDuties
<1>11. QED
  BY <1>1, <1>2, <1>3, <1>4, <1>5, <1>6, <1>7, <1>8, <1>9, <1>10

LEMMA ProjectEndpointsGuard ==
  \A C \in {ProjectsController, MilestonesController, EvidenceController, InspectionsController,
           RiskAlertsController, RiskScansController} :
    GuardsDuties(C)
<1>1. GuardsDuties(ProjectsController)
  <2>1. \A path \in {"GET projects", "GET projects/:id", "GET projects/:id/milestones",
                      "GET projects/:id/evidence"} :
          CoverDuty(path, {"project:read"})
    BY DEF CoverDuty
  <2>2. \A path \in {"POST projects", "POST projects/:id/activate", "POST projects/:id/suspend",
                      "POST projects/:id/resume", "POST projects/:id/cancel",
                      "POST projects/:id/milestones"} :
          CoverDuty(path, {"project:manage"})
    BY DEF CoverDuty
  <2>3. \A path \in {"POST projects/:id/evidence"} : CoverDuty(path, {"evidence:upload"})
    BY DEF CoverDuty
  <2>4. QED
    BY <2>1, <2>2, <2>3, ProvenGuardsDuties DEF ProjectsController, Routes, GuardsDuties
<1>2. GuardsDuties(MilestonesController)
  <2>1. \A path \in {"GET milestones", "GET milestones/:id", "GET milestones/:id/inspections"} :
          CoverDuty(path, {"project:read"})
    BY DEF CoverDuty
  <2>2. \A path \in {"POST milestones/:id/start", "POST milestones/:id/complete"} :
          CoverDuty(path, {"project:manage"})
    BY DEF CoverDuty
  <2>3. \A path \in {"POST milestones/:id/inspections"} : CoverDuty(path, {"project:inspect"})
    BY DEF CoverDuty
  <2>4. QED
    BY <2>1, <2>2, <2>3, ProvenGuardsDuties DEF MilestonesController, Routes, GuardsDuties
<1>3. GuardsDuties(EvidenceController)
  <2>1. \A path \in {"GET evidence/:id", "GET evidence/:id/download"} :
          CoverDuty(path, {"project:read"})
    BY DEF CoverDuty
  <2>2. QED
    BY <2>1, ProvenGuardsDuties DEF EvidenceController, Routes, GuardsDuties
<1>4. GuardsDuties(InspectionsController)
  <2>1. \A path \in {"GET inspections/:id"} : CoverDuty(path, {"project:read"})
    BY DEF CoverDuty
  <2>2. QED
    BY <2>1, ProvenGuardsDuties DEF InspectionsController, Routes, GuardsDuties
<1>5. GuardsDuties(RiskAlertsController)
  <2>1. \A path \in {"GET risk-alerts", "GET risk-alerts/summary", "GET risk-alerts/:id"} :
          CoverDuty(path, {"risk:read"})
    BY DEF CoverDuty
  <2>2. \A path \in {"POST risk-alerts/:id/review"} : CoverDuty(path, {"risk:review"})
    BY DEF CoverDuty
  <2>3. QED
    BY <2>1, <2>2, ProvenGuardsDuties DEF RiskAlertsController, Routes, GuardsDuties
<1>6. GuardsDuties(RiskScansController)
  <2>1. \A path \in {"POST risk-scans/tenders/:id", "POST risk-scans/organizations/:id",
                      "POST risk-scans/suppliers/:id"} :
          CoverDuty(path, {"risk:manage"})
    BY DEF CoverDuty
  <2>2. QED
    BY <2>1, ProvenGuardsDuties DEF RiskScansController, Routes, GuardsDuties
<1>7. QED
  BY <1>1, <1>2, <1>3, <1>4, <1>5, <1>6

LEMMA OtherEndpointsGuard ==
  \A C \in {AuditController, BlockchainController, WhistleblowerController, UsersController,
           RolesController, OrganizationsController, AuthController, TransparencyController,
           AccountabilityController, WhistleblowerPublicController, HealthController,
           ComplianceController} :
    GuardsDuties(C)
<1>1. GuardsDuties(AuditController)
  <2>1. \A path \in {"GET audit/events", "GET audit/reconstruct", "GET audit/verify",
                      "GET audit/events/:id", "GET audit/events/:id/verify"} :
          CoverDuty(path, {"audit:read"})
    BY DEF CoverDuty
  <2>2. QED
    BY <2>1, ProvenGuardsDuties DEF AuditController, Routes, GuardsDuties
<1>2. GuardsDuties(BlockchainController)
  <2>1. \A path \in {"GET blockchain/health", "GET blockchain/transactions/:id",
                      "GET blockchain/transactions/:id/verify", "GET blockchain/blocks/:id"} :
          CoverDuty(path, {"blockchain:read"})
    BY DEF CoverDuty
  <2>2. \A path \in {"POST blockchain/anchor"} : CoverDuty(path, {"blockchain:anchor"})
    BY DEF CoverDuty
  <2>3. QED
    BY <2>1, <2>2, ProvenGuardsDuties DEF BlockchainController, Routes, GuardsDuties
<1>3. GuardsDuties(WhistleblowerController)
  <2>1. \A path \in {"GET whistleblower/reports", "GET whistleblower/reports/:id"} :
          CoverDuty(path, {"whistleblower:read"})
    BY DEF CoverDuty
  <2>2. \A path \in {"POST whistleblower/reports/:id/assign",
                      "POST whistleblower/reports/:id/status",
                      "POST whistleblower/reports/:id/updates"} :
          CoverDuty(path, {"whistleblower:investigate"})
    BY DEF CoverDuty
  <2>3. QED
    BY <2>1, <2>2, ProvenGuardsDuties DEF WhistleblowerController, Routes, GuardsDuties
<1>4. GuardsDuties(UsersController)
  <2>1. \A path \in {"GET users"} : CoverDuty(path, {"users:read"})
    BY DEF CoverDuty
  <2>2. \A path \in {"POST users"} : CoverDuty(path, {"users:create"})
    BY DEF CoverDuty
  <2>3. \A path \in {"PATCH users/:id"} : CoverDuty(path, {"users:update"})
    BY DEF CoverDuty
  <2>4. \A path \in {"POST users/:id/password/reset"} : CoverDuty(path, {"users:reset_password"})
    BY DEF CoverDuty
  <2>5. \A path \in {"POST users/:id/mfa/reset"} : CoverDuty(path, {"users:reset_mfa"})
    BY DEF CoverDuty
  <2>6. \A path \in {"GET users/me", "GET users/me/signing-key", "POST users/me/signing-key",
                      "GET users/me/security", "POST users/me/mfa/totp/setup",
                      "POST users/me/mfa/totp/enable"} :
          CoverDuty(path, {SignedInOnly})
    BY DEF CoverDuty
  <2>7. QED
    BY <2>1, <2>2, <2>3, <2>4, <2>5, <2>6, ProvenGuardsDuties DEF UsersController, Routes, GuardsDuties
<1>5. GuardsDuties(RolesController)
  <2>1. \A path \in {"GET roles", "GET roles/permissions"} : CoverDuty(path, {"roles:read"})
    BY DEF CoverDuty
  <2>2. \A path \in {"POST roles", "PATCH roles/:id", "DELETE roles/:id"} :
          CoverDuty(path, {"roles:manage"})
    BY DEF CoverDuty
  <2>3. QED
    BY <2>1, <2>2, ProvenGuardsDuties DEF RolesController, Routes, GuardsDuties
<1>6. GuardsDuties(OrganizationsController)
  <2>1. \A path \in {"GET organizations"} : CoverDuty(path, {SignedInOnly})
    BY DEF CoverDuty
  <2>2. QED
    BY <2>1, ProvenGuardsDuties DEF OrganizationsController, Routes, GuardsDuties
<1>7. GuardsDuties(AuthController)
  <2>1. \A path \in {"POST auth/login", "POST auth/password/change", "POST auth/mfa/verify",
                      "POST auth/refresh", "POST auth/logout"} :
          CoverDuty(path, {Anyone})
    BY DEF CoverDuty
  <2>2. \A path \in {"POST auth/step-up"} : CoverDuty(path, {SignedInOnly})
    BY DEF CoverDuty
  <2>3. QED
    BY <2>1, <2>2, ProvenGuardsDuties DEF AuthController, Routes, GuardsDuties
<1>8. GuardsDuties(TransparencyController)
  <2>1. \A path \in {"GET public/projects", "GET public/projects/:id", "GET public/tenders",
                      "GET public/tenders/:id", "GET public/suppliers",
                      "GET public/suppliers/:id", "GET public/budgets", "GET public/verify"} :
          CoverDuty(path, {Anyone})
    BY DEF CoverDuty
  <2>2. QED
    BY <2>1, ProvenGuardsDuties DEF TransparencyController, Routes, GuardsDuties
<1>9. GuardsDuties(AccountabilityController)
  <2>1. \A path \in {"GET public/accountability/officials",
                      "GET public/accountability/officials/:id"} :
          CoverDuty(path, {Anyone})
    BY DEF CoverDuty
  <2>2. QED
    BY <2>1, ProvenGuardsDuties DEF AccountabilityController, Routes, GuardsDuties
<1>10. GuardsDuties(WhistleblowerPublicController)
  <2>1. \A path \in {"POST public/whistleblower/reports",
                      "GET public/whistleblower/reports/:code",
                      "POST public/whistleblower/reports/:code/evidence",
                      "POST public/whistleblower/reports/:code/updates"} :
          CoverDuty(path, {Anyone})
    BY DEF CoverDuty
  <2>2. QED
    BY <2>1, ProvenGuardsDuties DEF WhistleblowerPublicController, Routes, GuardsDuties
<1>11. GuardsDuties(HealthController)
  <2>1. \A path \in {"GET health", "GET health/ready"} : CoverDuty(path, {Anyone})
    BY DEF CoverDuty
  <2>2. QED
    BY <2>1, ProvenGuardsDuties DEF HealthController, Routes, GuardsDuties
<1>12. GuardsDuties(ComplianceController)
  <2>1. \A path \in {"GET compliance/rules"} : CoverDuty(path, {Anyone})
    BY DEF CoverDuty
  <2>2. QED
    BY <2>1, ProvenGuardsDuties DEF ComplianceController, Routes, GuardsDuties
<1>13. QED
  BY <1>1, <1>2, <1>3, <1>4, <1>5, <1>6, <1>7, <1>8, <1>9, <1>10, <1>11, <1>12

LEMMA EndpointsGuard == GuardsDuties(Endpoints)
BY FinanceEndpointsGuard, ProcurementEndpointsGuard, ProjectEndpointsGuard, OtherEndpointsGuard
DEF Endpoints, GuardsDuties

\* Whoever is served by such an endpoint holds what it needs.
LEMMA PassingIsGranted ==
  ASSUME NEW path, NEW roles, Passes(path, roles)
  PROVE  CoverDuty(path, PermissionsOf(roles))
<1>1. path \in DOMAIN EndpointOf /\ PermissionsGuard(EndpointOf[path], roles)
  BY DEF Passes, Answer
<1>2. PathOf(EndpointOf[path]) = path /\ EndpointOf[path] \in Endpoints
  BY <1>1 DEF EndpointOf, PathOf
<1>3. PICK needs : needs = NeedsOf(EndpointOf[path])
  OBVIOUS
<1>4. CoverDuty(path, {needs})
  BY <1>2, <1>3, EndpointsGuard DEF GuardsDuties
<1>5. needs \in {Anyone, SignedInOnly} \/ needs \in PermissionsOf(roles)
  BY <1>1, <1>3 DEF PermissionsGuard, NeedsOf
<1>6. QED
  BY <1>4, <1>5 DEF CoverDuty, Anyone, SignedInOnly

\* The seeded roles that are granted a duty, beside the Super Administrator's.
HoldersAre(right, holders) ==
  \A role \in SeededRoles \ {"SuperAdministrator"} : right \in RolePermissions[role] => role \in holders

LEMMA Holders ==
  /\ HoldersAre("payment:approve", {"AccountingOfficer", "ApprovingOfficer"})
  /\ HoldersAre("payment:execute", {"TreasuryOfficer"})
  /\ HoldersAre("procurement:publish", {"ProcurementOfficer"})
  /\ HoldersAre("procurement:evaluate", {"Engineer"})
  /\ HoldersAre("procurement:award", {"ApprovingOfficer"})
  /\ HoldersAre("procurement:create", {"ProcurementOfficer"})
  /\ HoldersAre("procurement:approve", {"ApprovingOfficer"})
  /\ HoldersAre("risk:review", {"Auditor", "ApprovingOfficer"})
  /\ HoldersAre("budget:create", {"TreasuryOfficer", "FinanceOfficer"})
  /\ HoldersAre("budget:approve", {"AccountingOfficer", "ApprovingOfficer"})
  /\ HoldersAre("invoice:submit", {"FinanceOfficer"})
  /\ HoldersAre("invoice:verify", {"Engineer"})
  /\ HoldersAre("project:manage", {"ProjectManager"})
  /\ HoldersAre("project:inspect", {"Engineer"})
BY DEF HoldersAre, SeededRoles, RolePermissions, AuditorGrants, TreasuryGrants, FinanceGrants, ProcurementGrants,
       AccountingGrants, SupplierGrants, ProjectManagerGrants, EngineerGrants, ApprovingGrants,
       OversightGrants, OfficeReads

\* Among roles that may meet, no two permissions are brought together that
\* only roles of MayNotMeet would.
LEMMA MeetingIsApart ==
  ASSUME NEW roles \in Assignments, MayMeet(roles), NEW right, NEW other, NEW H, NEW O,
         HoldersAre(right, H), HoldersAre(other, O),
         \A role \in H, second \in O : {role, second} \in MayNotMeet
  PROVE  right \notin PermissionsOf(roles) \/ other \notin PermissionsOf(roles)
<1> SUFFICES ASSUME right \in PermissionsOf(roles), other \in PermissionsOf(roles)
             PROVE  FALSE
  OBVIOUS
<1>1. roles \subseteq SeededRoles \ {"SuperAdministrator"}
  BY DEF MayMeet
<1>2. PICK role \in roles : right \in RolePermissions[role]
  BY <1>1, RolesGrant
<1>3. PICK second \in roles : other \in RolePermissions[second]
  BY <1>1, RolesGrant
<1>4. role \in H /\ second \in O
  BY <1>1, <1>2, <1>3 DEF HoldersAre
<1>5. {role, second} \in MayNotMeet /\ {role, second} \subseteq roles
  BY <1>4
<1>6. QED
  BY <1>5 DEF MayMeet

LEMMA DutiesAreApart ==
  ASSUME NEW roles \in Assignments, MayMeet(roles), NEW duties \in ConflictingDuties
  PROVE  \E path \in duties : ~ CoverDuty(path, PermissionsOf(roles))
<1>1. PICK grants : grants = PermissionsOf(roles)
  OBVIOUS
<1>2. CASE duties = {"POST payment-requests/:id/approvals", "POST payment-requests/:id/execute"}
  <2>1. "payment:approve" \notin grants \/ "payment:execute" \notin grants
    BY <1>1, Holders, MeetingIsApart DEF MayNotMeet
  <2>2. QED
    BY <1>1, <1>2, <2>1 DEF CoverDuty
<1>3. CASE duties = {"POST tenders/:id/publish", "POST bids/:id/award"}
  <2>1. "procurement:publish" \notin grants \/ "procurement:award" \notin grants
    BY <1>1, Holders, MeetingIsApart DEF MayNotMeet
  <2>2. QED
    BY <1>1, <1>3, <2>1 DEF CoverDuty
<1>4. CASE duties = {"POST tenders/:id/publish", "POST bids/:id/evaluate"}
  <2>1. "procurement:publish" \notin grants \/ "procurement:evaluate" \notin grants
    BY <1>1, Holders, MeetingIsApart DEF MayNotMeet
  <2>2. QED
    BY <1>1, <1>4, <2>1 DEF CoverDuty
<1>5. CASE duties = {"POST procurement-requests", "POST procurement-requests/:id/approve"}
  <2>1. "procurement:create" \notin grants \/ "procurement:approve" \notin grants
    BY <1>1, Holders, MeetingIsApart DEF MayNotMeet
  <2>2. QED
    BY <1>1, <1>5, <2>1 DEF CoverDuty
<1>6. CASE duties = {"POST procurement-requests", "POST risk-alerts/:id/review"}
  <2>1. "procurement:create" \notin grants \/ "risk:review" \notin grants
    BY <1>1, Holders, MeetingIsApart DEF MayNotMeet
  <2>2. QED
    BY <1>1, <1>6, <2>1 DEF CoverDuty
<1>7. CASE duties = {"POST budgets", "POST budgets/:id/approve"}
  <2>1. "budget:create" \notin grants \/ "budget:approve" \notin grants
    BY <1>1, Holders, MeetingIsApart DEF MayNotMeet
  <2>2. QED
    BY <1>1, <1>7, <2>1 DEF CoverDuty
<1>8. CASE duties = {"POST purchase-orders/:id/invoices", "POST invoices/:id/verify"}
  <2>1. "invoice:submit" \notin grants \/ "invoice:verify" \notin grants
    BY <1>1, Holders, MeetingIsApart DEF MayNotMeet
  <2>2. QED
    BY <1>1, <1>8, <2>1 DEF CoverDuty
<1>9. CASE duties = {"POST invoices/:id/verify", "POST payment-requests/:id/approvals"}
  <2>1. "invoice:verify" \notin grants \/ "payment:approve" \notin grants
    BY <1>1, Holders, MeetingIsApart DEF MayNotMeet
  <2>2. QED
    BY <1>1, <1>9, <2>1 DEF CoverDuty
<1>10. CASE duties = {"POST milestones/:id/complete", "POST milestones/:id/inspections"}
  <2>1. "project:manage" \notin grants \/ "project:inspect" \notin grants
    BY <1>1, Holders, MeetingIsApart DEF MayNotMeet
  <2>2. QED
    BY <1>1, <1>10, <2>1 DEF CoverDuty
<1>11. QED
  BY <1>2, <1>3, <1>4, <1>5, <1>6, <1>7, <1>8, <1>9, <1>10 DEF ConflictingDuties

\* Tokens are of roles that users are given, whatever the tables of the console hold.
TokensAreAssigned == granted \in Assignments /\ token \in Assignments \cup {Nobody}

LEMMA TokensInductive == ConsoleSpec => []TokensAreAssigned
<1>1. ConsoleInit => TokensAreAssigned
  BY DEF ConsoleInit, TokensAreAssigned
<1>2. TokensAreAssigned /\ [ConsoleNext]_consoleVars => TokensAreAssigned'
  <2> SUFFICES ASSUME TokensAreAssigned, [ConsoleNext]_consoleVars
               PROVE  /\ granted' = granted \/ granted' \in Assignments
                      /\ token' \in {token, granted, Nobody}
    BY DEF TokensAreAssigned
  <2> QED
    BY DEF ConsoleNext, consoleVars, EnterConsole, AssignRole, RefreshToken, Reload, LeaveConsole, Open,
           FollowNavigation, FollowSupplier, FollowAttention, Follow, Use, Serve
<1>3. QED
  BY <1>1, <1>2, PTL DEF ConsoleSpec

\* The guards of the API and the grants of the seed: whatever sets of roles users
\* are given, a token passes two separate duties only by the Super
\* Administrator's role, a role that administrators defined, or one of the
\* eleven pairs of MayNotMeet.
THEOREM DutiesStaySeparate == ConsoleSpec => []DutiesAreSeparate
<1>1. TokensAreAssigned => DutiesAreSeparate
  <2> SUFFICES ASSUME TokensAreAssigned, MayMeet(token), NEW duties \in ConflictingDuties,
                      \A path \in duties : Passes(path, token)
               PROVE  FALSE
    BY DEF DutiesAreSeparate
  <2>1. \A path \in duties : CoverDuty(path, PermissionsOf(token))
    BY PassingIsGranted
  <2>2. CASE token = Nobody
    <3>1. PermissionsOf(token) = {}
      BY <2>2 DEF PermissionsOf
    <3>2. \E path \in duties : ~ CoverDuty(path, {})
      BY DEF ConflictingDuties, CoverDuty
    <3>3. QED
      BY <2>1, <3>1, <3>2
  <2>3. CASE token # Nobody
    BY <2>1, <2>3, DutiesAreApart DEF TokensAreAssigned
  <2>4. QED
    BY <2>2, <2>3
<1>2. QED
  BY <1>1, TokensInductive, PTL

-----------------------------------------------------------------------------
(* Identity and access together                                            *)

\* The inductive invariant of AccessSpec: the module that runs keeps its own,
\* the rows of the others are as at the beginning.
AccessInv ==
  /\ part \in Parts
  /\ IF part \in {"sessions", "client"} THEN SessionsInv ELSE SessionsInit
  /\ IF part = "client" THEN ClientInv ELSE ClientInit
  /\ IF part = "accounts" THEN AccountsInv ELSE AccountsInit
  /\ IF part = "authenticators" THEN AuthenticatorsInv ELSE AuthenticatorsInit
  /\ IF part = "signatures" THEN SignaturesInv ELSE SignaturesInit
  /\ ConsoleInv
  /\ SelectionsInv
  /\ part \in {"console", "selections"} => HandlersInit

LEMMA AccessBegins == AccessInit => AccessInv
BY SessionsInitInv, ClientInitInv, AccountsInitInv, AuthenticatorsInitInv, SignaturesInitInv,
   ConsoleInitInv, SelectionsInitInv
DEF AccessInit, AccessInv

\* The rows at the beginning are of their types.
LEMMA AccessBeginsTyped ==
  /\ SessionsInit => SessionsTypeOK
  /\ ClientInit => ClientTypeOK
  /\ AccountsInit => AccountsTypeOK
  /\ AuthenticatorsInit => AuthenticatorsTypeOK
  /\ SignaturesInit => SignaturesTypeOK
<1>1. SessionsInit => SessionsTypeOK
  <2>1. NoSession \in SessionRow /\ NoSession.rotatedTo = None
    BY DEF SessionRow, NoSession
  <2>2. QED
    BY <2>1 DEF SessionsInit, SessionsTypeOK
<1>2. ClientInit => ClientTypeOK
  BY ClientInitInv DEF ClientInv
<1>3. AccountsInit => AccountsTypeOK
  <2>1. AccountsInit => lockout \in Lockout
    BY AccountsAssumption DEF AccountsInit, Lockout, Statuses
  <2>2. QED
    BY <2>1 DEF AccountsInit, AccountsTypeOK, Lockout
<1>4. AuthenticatorsInit => AuthenticatorsTypeOK
  BY AuthenticatorsAssumption DEF AuthenticatorsInit, AuthenticatorsTypeOK, NoTotp, NoBackup
<1>5. SignaturesInit => SignaturesTypeOK
  BY DEF SignaturesInit, SignaturesTypeOK
<1>6. QED
  BY <1>1, <1>2, <1>3, <1>4, <1>5

LEMMA AccessStep == AccessInv /\ [AccessNext]_accessVars => AccessInv'
<1> SUFFICES ASSUME AccessInv, [AccessNext]_accessVars PROVE AccessInv'
  OBVIOUS
<1>1. part \in Parts /\ part' = part
  BY DEF AccessInv, AccessNext, accessVars
<1>2. UNCHANGED sessionVars /\ SessionsInit => SessionsInit'
  BY DEF SessionsInit, sessionVars
<1>3. UNCHANGED clientVars /\ ClientInit => ClientInit'
  BY DEF ClientInit, clientVars
<1>4. UNCHANGED accountVars /\ AccountsInit => AccountsInit'
  BY DEF AccountsInit, accountVars
<1>5. UNCHANGED authenticatorVars /\ AuthenticatorsInit => AuthenticatorsInit'
  BY DEF AuthenticatorsInit, authenticatorVars
<1>6. UNCHANGED signatureVars /\ SignaturesInit => SignaturesInit'
  BY DEF SignaturesInit, signatureVars
<1>7. UNCHANGED consoleVars => ConsoleInv'
  BY ConsoleNextInv DEF AccessInv
<1>8. UNCHANGED selectionVars => SelectionsInv'
  BY SelectionsNextInv DEF AccessInv
<1>9. HandlersInit /\ UNCHANGED request => HandlersInit'
  BY DEF HandlersInit
<1> USE <1>1, <1>2, <1>3, <1>4, <1>5, <1>6, <1>7, <1>8, <1>9
<1>10. CASE part = "sessions"
  <2>1. SessionsStep
        /\ UNCHANGED <<clientVars, accountVars, authenticatorVars, signatureVars, consoleVars, selectionVars>>
    BY <1>10 DEF AccessNext, accessVars, SessionsStep, StillAccounts, StillFactors, StillConsole
  <2>2. QED
    BY <1>10, <2>1, SessionsNextInv DEF AccessInv
<1>11. CASE part = "client"
  <2>1. ClientStep
        /\ UNCHANGED <<accountVars, authenticatorVars, signatureVars, consoleVars, selectionVars>>
    BY <1>11 DEF AccessNext, accessVars, ClientStep, StillAccounts, StillFactors, StillConsole
  <2>2. SessionsInv' /\ ClientInv'
    BY <1>11, <2>1, ClientStepIsSessionsStep, SessionsNextInv, ClientNextInv DEF AccessInv
  <2>3. QED
    BY <1>11, <2>1, <2>2 DEF AccessInv
<1>12. CASE part = "accounts"
  <2>1. [AccountsNext]_<<accountVars, request>>
        /\ UNCHANGED <<sessionVars, clientVars, authenticatorVars, signatureVars, consoleVars, selectionVars>>
    BY <1>12 DEF AccessNext, accessVars, StillSessions, StillFactors, StillConsole
  <2>2. QED
    BY <1>12, <2>1, AccountsNextInv DEF AccessInv
<1>13. CASE part = "authenticators"
  <2>1. [AuthenticatorsNext]_<<authenticatorVars, request>>
        /\ UNCHANGED <<sessionVars, clientVars, accountVars, signatureVars, consoleVars, selectionVars>>
    BY <1>13 DEF AccessNext, accessVars, StillSessions, StillAccounts, StillConsole
  <2>2. QED
    BY <1>13, <2>1, AuthenticatorsNextInv DEF AccessInv
<1>14. CASE part = "signatures"
  <2>1. [SignaturesNext]_<<signatureVars, request>>
        /\ UNCHANGED <<sessionVars, clientVars, accountVars, authenticatorVars, consoleVars, selectionVars>>
    BY <1>14 DEF AccessNext, accessVars, StillSessions, StillAccounts, StillConsole
  <2>2. QED
    BY <1>14, <2>1, SignaturesNextInv DEF AccessInv
<1>15. CASE part = "console"
  <2>1. [ConsoleNext]_consoleVars
        /\ UNCHANGED <<sessionVars, clientVars, accountVars, authenticatorVars, signatureVars, selectionVars,
                       request>>
    BY <1>15 DEF AccessNext, accessVars, StillSessions, StillAccounts, StillFactors
  <2>2. QED
    BY <1>15, <2>1, ConsoleNextInv DEF AccessInv
<1>16. CASE part = "selections"
  <2>1. [SelectionsNext]_selectionVars
        /\ UNCHANGED <<sessionVars, clientVars, accountVars, authenticatorVars, signatureVars, consoleVars,
                       request>>
    BY <1>16 DEF AccessNext, accessVars, StillSessions, StillAccounts, StillFactors
  <2>2. QED
    BY <1>16, <2>1, SelectionsNextInv DEF AccessInv
<1>17. QED
  BY <1>10, <1>11, <1>12, <1>13, <1>14, <1>15, <1>16 DEF Parts

\* Every account, session, second factor, signing key, and every state of the
\* client, the console and a view, and every request for them, is of its type,
\* whichever of the modules runs.
THEOREM AccessIsTyped == AccessSpec => []AccessTypeOK
<1>1. AccessInv => AccessTypeOK
  <2> SUFFICES ASSUME AccessInv PROVE AccessTypeOK
    OBVIOUS
  <2>1. /\ SessionsTypeOK /\ ClientTypeOK /\ AccountsTypeOK /\ AuthenticatorsTypeOK
        /\ SignaturesTypeOK /\ ConsoleTypeOK /\ SelectionsTypeOK
    BY AccessBeginsTyped
    DEF AccessInv, SessionsInv, ClientInv, AccountsInv, AuthenticatorsInv, SignaturesInv, ConsoleInv,
        SelectionsInv
  <2>2. \/ request \in [Requests -> SessionRequest] \/ request \in [Requests -> AccountRequest]
        \/ request \in [Requests -> AuthenticatorRequest] \/ request \in [Requests -> SignatureRequest]
    <3>1. HandlersInit => request \in [Requests -> SessionRequest]
      BY DEF HandlersInit, SessionRequest
    <3>2. QED
      BY <3>1
      DEF AccessInv, Parts, SessionsInv, AccountsInv, AuthenticatorsInv, SignaturesInv
  <2>3. request \in [Requests -> SessionRequest \cup AccountRequest \cup
                                 AuthenticatorRequest \cup SignatureRequest]
    BY <2>2
  <2>4. QED
    BY <2>1, <2>3 DEF AccessInv, AccessTypeOK
<1>2. QED
  BY <1>1, AccessBegins, AccessStep, PTL DEF AccessSpec
=============================================================================
