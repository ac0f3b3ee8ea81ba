----------------------------- MODULE WebClient -----------------------------
(***************************************************************************)
(* One browser on the sessions of one user: api/client.ts, which answers a *)
(* 401 with a refresh and a second attempt, the handler of stores/auth.ts  *)
(* it refreshes with, and the step-up dialogue of lib/stepUp.ts.           *)
(*                                                                         *)
(* The API's side of a refresh is the one of Sessions; a call has the      *)
(* activation of its own name for it.  The jar's cookie is read when the   *)
(* refresh is sent and replaced when it is answered.                       *)
(***************************************************************************)
EXTENDS Sessions, Integers

CONSTANTS
  Browsing,       \* the user at the browser
  Challenges      \* step-up challenges that views open

ASSUME WebClientAssumption == Browsing \in Users

VARIABLES
  cookie,         \* the refresh token in the jar
  access,         \* the access token in memory
  call,           \* what each call of the page waits for, and how often it was sent
  challenge,      \* the step-up challenge that is pending
  typed,          \* the challenge that the code under verification was typed for
  resolved        \* the challenge each accepted code resolved

clientVars == <<cookie, access, call, challenge, typed, resolved>>

NoCall == [at |-> "idle", sent |-> 0, carried |-> "none"]

ClientTypeOK ==
  /\ cookie \in Tokens \cup {None}
  /\ access \in {"none", "valid", "expired"}
  /\ call \in [Requests -> [at : {"idle", "signIn", "answer", "refresh"},
                            sent : 0 .. 2, carried : {"none", "valid", "expired"}]]
  /\ challenge \in Challenges \cup {None}
  /\ typed \in Challenges \cup {None}
  /\ resolved \in [Challenges -> Challenges \cup {None}]

ClientInit ==
  /\ cookie = None
  /\ access = "none"
  /\ call = [r \in Requests |-> NoCall]
  /\ challenge = None
  /\ typed = None
  /\ resolved = [c \in Challenges |-> None]

stepUpVars == <<challenge, typed, resolved>>

\* The auth store's login, without a second factor.
SignIn(r) ==
  /\ cookie = None /\ call[r] = NoCall
  /\ \A s \in Requests : call[s].at # "signIn"
  /\ Login(r, Browsing)
  /\ call' = [call EXCEPT ![r].at = "signIn"]
  /\ UNCHANGED <<cookie, access, stepUpVars>>

SignedIn(r) ==
  /\ call[r].at = "signIn"
  /\ IssueSession(r)
  /\ \E t \in handed' \ handed : cookie' = t
  /\ access' = "valid"
  /\ call' = [call EXCEPT ![r] = NoCall]
  /\ UNCHANGED stepUpVars

\* The token in memory and those of calls under way are judged by the API.
Expired(token) == IF token = "valid" THEN "expired" ELSE token

AccessExpires ==
  /\ access = "valid"
  /\ access' = "expired"
  /\ call' = [r \in Requests |-> [call[r] EXCEPT !.carried = Expired(@)]]
  /\ UNCHANGED <<sessionVars, cookie, stepUpVars, request>>

Attempt(r, token) == call' = [call EXCEPT ![r] = [at |-> "answer", sent |-> @.sent + 1, carried |-> token]]

\* request(): the access token is read when the call is sent.
Send(r) ==
  /\ call[r] = NoCall /\ access # "none"
  /\ Attempt(r, access)
  /\ UNCHANGED <<sessionVars, cookie, access, stepUpVars, request>>

\* The call is answered; a second 401 is an answer, too.
Answered(r) ==
  /\ call[r].at = "answer"
  /\ call[r].carried = "valid" \/ call[r].sent = 2
  /\ call' = [call EXCEPT ![r] = NoCall]
  /\ UNCHANGED <<sessionVars, cookie, access, stepUpVars, request>>

\* A first 401 refreshes with the cookie as it is.
Unauthorized(r) ==
  /\ call[r].at = "answer" /\ call[r].carried = "expired" /\ call[r].sent = 1
  /\ Rotate(r, cookie)
  /\ call' = [call EXCEPT ![r].at = "refresh"]
  /\ UNCHANGED <<cookie, access, stepUpVars>>

\* The API goes on with a refresh.
Refreshing(r) ==
  /\ CreateChild(r) \/ MarkRotated(r) \/ DeleteChild(r)
  /\ UNCHANGED clientVars

Refreshed(r) ==
  /\ call[r].at = "refresh"
  /\ AnswerRotated(r)
  /\ cookie' = request[r].child
  /\ access' = "valid"
  /\ Attempt(r, "valid")
  /\ UNCHANGED stepUpVars

RefreshRefused(r) ==
  /\ call[r].at = "refresh"
  /\ RevokeAll(r)
  /\ access' = "none"
  /\ call' = [call EXCEPT ![r] = NoCall]
  /\ UNCHANGED <<cookie, stepUpVars>>

-----------------------------------------------------------------------------
(* lib/stepUp.ts and its dialogue                                          *)

\* requestStepUpToken rejects a second challenge while one is open.
OpenChallenge(c) ==
  /\ challenge = None /\ resolved[c] = None
  /\ challenge' = c
  /\ UNCHANGED <<sessionVars, cookie, access, call, typed, resolved, request>>

SubmitCode ==
  /\ challenge # None /\ typed = None
  /\ typed' = challenge
  /\ UNCHANGED <<sessionVars, cookie, access, call, challenge, resolved, request>>

\* An accepted code resolves the challenge that is pending then; a wrong one
\* leaves it open.
CodeAnswered ==
  /\ typed # None
  /\ \/ /\ challenge # None
        /\ resolved' = [resolved EXCEPT ![challenge] = typed]
     \/ UNCHANGED resolved
  /\ challenge' = IF resolved' = resolved THEN challenge ELSE None
  /\ typed' = None
  /\ UNCHANGED <<sessionVars, cookie, access, call, request>>

\* Mutant: the dialogue can be left while a code is verified.
CancelAnyTime ==
  /\ challenge # None
  /\ challenge' = None
  /\ UNCHANGED <<sessionVars, cookie, access, call, typed, resolved, request>>

\* The button is disabled while stepUpState is busy.
MayCancel == challenge # None /\ typed = None

CancelChallenge ==
  /\ MayCancel
  /\ challenge' = None
  /\ UNCHANGED <<sessionVars, cookie, access, call, typed, resolved, request>>

ClientNext ==
  \/ \E r \in Requests :
       \/ SignIn(r)
       \/ SignedIn(r)
       \/ Send(r)
       \/ Answered(r)
       \/ Unauthorized(r)
       \/ Refreshing(r)
       \/ Refreshed(r)
       \/ RefreshRefused(r)
  \/ AccessExpires
  \/ \E c \in Challenges : OpenChallenge(c)
  \/ SubmitCode
  \/ CodeAnswered
  \/ CancelChallenge

ClientSpec ==
  SessionsInit /\ ClientInit /\ HandlersInit /\ [][ClientNext]_<<sessionVars, clientVars, request>>
-----------------------------------------------------------------------------
\* A step-up token goes to the action whose challenge its code was typed for,
\* also when a view opens a challenge while an earlier code is on its way.
ChallengesResolvedByTheirCode ==
  \A c \in Challenges : resolved[c] \in {None, c}

\* A call refreshes once at most, also when its second attempt is answered 401
\* because the new token expired on the way: no page refreshes for ever.
RefreshedAtMostOnce ==
  \A r \in Requests : call[r].at = "refresh" => call[r].sent = 1

\* The page asks no more than once, and for what the user agreed to.
ClientAsksOnce == ChallengesResolvedByTheirCode /\ RefreshedAtMostOnce

\* A silent refresh never signs the user out.  (It does not hold: two calls
\* that are answered 401 together present the same cookie, and the second
\* rotation of it revokes every session.)
RefreshIsSilent == ended = {}
=============================================================================
