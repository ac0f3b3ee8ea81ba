------------------------------- MODULE Access -------------------------------
(***************************************************************************)
(* Identity and access: Sessions, Accounts, Authenticators, Signatures,    *)
(* WebClient (on Sessions), Console and Selections.  A behaviour takes the *)
(* steps of one of them: the rows they keep are disjoint.                  *)
(***************************************************************************)
EXTENDS Accounts, Authenticators, Signatures, WebClient, Console, Selections, TLC

CONSTANT Few        \* the requests that run, beside one that revokes sessions

VARIABLE part       \* which of the modules a behaviour is about

OnlyFew == \A r \in Requests \ Few : request'[r] = Idle

\* In the part of the sessions, the others revoke while the few run.
OthersRevoke ==
  \A r \in Requests \ Few :
    request'[r].at \in {"idle", "revokeAll", "revokeAndSuspend", "suspend"}

Parts == {"sessions", "accounts", "authenticators", "signatures", "client", "console", "selections"}

accessVars ==
  <<sessionVars, clientVars, accountVars, authenticatorVars, signatureVars, consoleVars,
    selectionVars, request, part>>

AccessTypeOK ==
  /\ part \in Parts
  /\ SessionsTypeOK
  /\ ClientTypeOK
  /\ AccountsTypeOK
  /\ AuthenticatorsTypeOK
  /\ SignaturesTypeOK
  /\ ConsoleTypeOK
  /\ SelectionsTypeOK
  /\ request \in [Requests -> SessionRequest \cup AccountRequest \cup
                              AuthenticatorRequest \cup SignatureRequest]

AccessInit ==
  /\ SessionsInit /\ AccountsInit /\ AuthenticatorsInit /\ SignaturesInit
  /\ ClientInit /\ SelectionsInit /\ HandlersInit
  /\ ConsoleInit
  /\ part \in Parts
  /\ part # "console" => granted = CHOOSE roles \in Assignments : TRUE

StillSessions == UNCHANGED <<sessionVars, clientVars>>
StillAccounts == UNCHANGED accountVars
StillFactors == UNCHANGED <<authenticatorVars, signatureVars>>
StillConsole == UNCHANGED <<consoleVars, selectionVars>>

AccessNext ==
  /\ \/ /\ part = "sessions" /\ SessionsNext /\ OthersRevoke
        /\ UNCHANGED clientVars /\ StillAccounts /\ StillFactors /\ StillConsole
     \/ /\ part = "client" /\ ClientNext /\ OnlyFew
        /\ StillAccounts /\ StillFactors /\ StillConsole
     \/ /\ part = "accounts" /\ AccountsNext /\ OnlyFew
        /\ StillSessions /\ StillFactors /\ StillConsole
     \/ /\ part = "authenticators" /\ AuthenticatorsNext /\ OnlyFew
        /\ StillSessions /\ StillAccounts /\ UNCHANGED signatureVars /\ StillConsole
     \/ /\ part = "signatures" /\ SignaturesNext /\ OnlyFew
        /\ StillSessions /\ StillAccounts /\ UNCHANGED authenticatorVars /\ StillConsole
     \/ /\ part = "console" /\ ConsoleNext
        /\ StillSessions /\ StillAccounts /\ StillFactors /\ UNCHANGED <<selectionVars, request>>
     \/ /\ part = "selections" /\ SelectionsNext
        /\ StillSessions /\ StillAccounts /\ StillFactors /\ UNCHANGED <<consoleVars, request>>
  /\ UNCHANGED part

AccessSpec == AccessInit /\ [][AccessNext]_accessVars

-----------------------------------------------------------------------------
(* The values the run gives to the constants                               *)

\* A role that administrators defined: its permissions no seeded role combines.
DefinedRoles == {"InvoiceClerk"}

DefinedGrants == [InvoiceClerk |-> {"contract:read", "invoice:verify"}]

\* Each of the roles, of which the Public Viewer grants nothing, and three
\* combinations: one that the views do not cover, one that unites two duties
\* and one that may meet.
SomeAssignments ==
  {{role} : role \in SeededRoles \cup DefinedRoles} \cup
  { {"Engineer", "ProjectManager"}, {"AccountingOfficer", "TreasuryOfficer"}, {"TreasuryOfficer", "Auditor"} }

\* Which of the few requests is which is of no account.  (Tokens are not
\* interchangeable: Fresh chooses among them.)
Symmetry == Permutations(Few)
=============================================================================
