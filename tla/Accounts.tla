------------------------------ MODULE Accounts ------------------------------
(***************************************************************************)
(* The users row of one account: UsersService and the part of AuthService  *)
(* that counts failed logins, locks, and clears a lock that is over.       *)
(*                                                                         *)
(* A password is right or wrong; Sessions models the sessions a login ends *)
(* in, Authenticators the second factor between the two.                   *)
(***************************************************************************)
EXTENDS Handlers, Integers, FiniteSets

CONSTANTS
  Threshold,      \* ACCOUNT_LOCKOUT_THRESHOLD
  MaxFailed,      \* failed logins in a row that a behaviour has at most
  Roles           \* roles an administrator assigns

ASSUME AccountsAssumption ==
  Threshold \in Nat \ {0} /\ MaxFailed \in Nat /\ Threshold <= MaxFailed

VARIABLES
  lockout,        \* users.status, "lockedUntil" and "failedLoginAttempts"
  uncounted,      \* a request failed between the count and the lock it calls for
  existing,       \* the roles rows
  assigned        \* the user_roles rows of the account

accountVars == <<lockout, uncounted, existing, assigned>>

Statuses == {"ACTIVE", "LOCKED", "SUSPENDED", "PENDING_ACTIVATION"}

AccountsTypeOK ==
  /\ lockout \in [status : Statuses,
                  lock : {"none", "running", "over"}, failed : 0 .. MaxFailed]
  /\ uncounted \in BOOLEAN
  /\ existing \subseteq Roles
  /\ assigned \subseteq existing

AccountRequest ==
  {Idle} \cup
  [at : {"countFailure", "lock", "clearLock", "setPassword", "suspend", "deleteRole"},
   role : Roles \cup {None}] \cup
  [at : {"recordSuccess"}, over : BOOLEAN] \cup
  [at : {"replaceRoles"}, seen : SUBSET Roles, roleIds : SUBSET Roles]

Local(at, role) == [at |-> at, role |-> role]

AccountsInit ==
  /\ lockout = [status |-> "ACTIVE", lock |-> "none", failed |-> 0]
  /\ uncounted = FALSE
  /\ existing = Roles
  /\ assigned = {}

-----------------------------------------------------------------------------
(* AuthService.login and completeLogin                                     *)

\* The password is checked for an account that is neither locked nor suspended.
CheckPassword(r) ==
  /\ ~ (lockout.status = "LOCKED" /\ lockout.lock = "running")
  /\ lockout.status # "SUSPENDED"
  /\ \E at \in {"countFailure", "clearLock"} : Start(r, Local(at, None))
  /\ UNCHANGED accountVars

\* UsersService.recordFailedLogin: the database increments; what it returns
\* decides on the lock.
CountFailure(r) ==
  /\ request[r].at = "countFailure"
  /\ lockout.failed < MaxFailed
  /\ lockout' = [lockout EXCEPT !.failed = @ + 1]
  /\ IF lockout'.failed >= Threshold THEN Go(r, "lock") ELSE Stop(r)
  /\ UNCHANGED <<uncounted, existing, assigned>>

Lock(r) ==
  /\ request[r].at = "lock"
  /\ lockout' = [lockout EXCEPT !.status = "LOCKED", !.lock = "running"]
  /\ uncounted' = FALSE
  /\ Stop(r)
  /\ UNCHANGED <<existing, assigned>>

\* UsersService.clearLockIfExpired
ClearLockIfExpired(r) ==
  /\ request[r].at = "clearLock"
  /\ request' = [request EXCEPT ![r] =
       [at |-> "recordSuccess", over |-> lockout.status = "LOCKED" /\ lockout.lock = "over"]]
  /\ UNCHANGED accountVars

\* UsersService.recordSuccessfulLogin writes what it found awaits ago.
RecordSuccess(r) ==
  /\ request[r].at = "recordSuccess"
  /\ lockout' = IF request[r].over
                THEN [status |-> "ACTIVE", lock |-> "none", failed |-> 0]
                ELSE [lockout EXCEPT !.failed = 0]
  /\ uncounted' = FALSE
  /\ Stop(r)
  /\ UNCHANGED <<existing, assigned>>

LockExpires ==
  /\ lockout.lock = "running"
  /\ lockout' = [lockout EXCEPT !.lock = "over"]
  /\ UNCHANGED <<uncounted, existing, assigned, request>>

-----------------------------------------------------------------------------
(* What administrators do to the account                                   *)

\* UsersService.resetPassword and changeForcedPassword: the hash takes a while.
ResetAccount(r) ==
  /\ Start(r, Local("setPassword", None))
  /\ UNCHANGED accountVars

SetAccountPassword(r) ==
  /\ request[r].at = "setPassword"
  /\ lockout' = [lockout EXCEPT !.failed = 0, !.lock = "none"]
  /\ uncounted' = FALSE
  /\ Stop(r)
  /\ UNCHANGED <<existing, assigned>>

\* UsersService.update with a status; a suspension first revokes the sessions.
SetStatus(r, status) ==
  /\ IF status = "SUSPENDED"
     THEN Start(r, Local("suspend", None)) /\ UNCHANGED lockout
     ELSE lockout' = [lockout EXCEPT !.status = status] /\ UNCHANGED request
  /\ UNCHANGED <<uncounted, existing, assigned>>

SuspendAccount(r) ==
  /\ request[r].at = "suspend"
  /\ lockout' = [lockout EXCEPT !.status = "SUSPENDED"]
  /\ Stop(r)
  /\ UNCHANGED <<uncounted, existing, assigned>>

\* UsersService.update with roles (an update has either in the model).  Inside
\* the transaction the DELETE sees the rows committed before it began; the
\* account has them until the INSERT and the commit.
UpdateRoles(r, roleIds) ==
  /\ Start(r, [at |-> "replaceRoles", seen |-> assigned, roleIds |-> roleIds])
  /\ UNCHANGED accountVars

\* The rows the delete does not see.  A row is known by its role here, so that one
\* that was deleted and added again meanwhile is taken for the row that was seen:
\* the code's request would fail on it, here it may also succeed.
Added(r) == assigned \ request[r].seen

\* Mutant: without the transaction the roles are deleted all the same.
ReplaceRolesInTwo(r) ==
  /\ request[r].at = "replaceRoles"
  /\ LET roleIds == request[r].roleIds IN
       assigned' = IF roleIds \subseteq existing /\ roleIds \cap Added(r) = {}
                   THEN Added(r) \cup roleIds
                   ELSE Added(r)
  /\ Stop(r)
  /\ UNCHANGED <<lockout, uncounted, existing>>

\* A role that is gone, or was assigned meanwhile, fails the whole transaction.
ReplaceRoles(r) ==
  /\ request[r].at = "replaceRoles"
  /\ LET roleIds == request[r].roleIds IN
       assigned' = IF roleIds \subseteq existing /\ roleIds \cap Added(r) = {}
                   THEN Added(r) \cup roleIds
                   ELSE assigned
  /\ Stop(r)
  /\ UNCHANGED <<lockout, uncounted, existing>>

\* RolesService.remove: refused for a role that is assigned when it reads; the
\* delete takes the assignments made since with it.
RemoveRole(r, role) ==
  /\ role \in existing \ assigned
  /\ Start(r, Local("deleteRole", role))
  /\ UNCHANGED accountVars

DeleteRole(r) ==
  /\ request[r].at = "deleteRole"
  /\ existing' = existing \ {request[r].role}
  /\ assigned' = assigned \ {request[r].role}
  /\ Stop(r)
  /\ UNCHANGED <<lockout, uncounted>>

CreateRole(role) ==
  /\ existing' = existing \cup {role}
  /\ UNCHANGED <<lockout, uncounted, assigned, request>>

FailAccountRequest(r) ==
  /\ Abandon(r)
  /\ uncounted' = (uncounted \/ request[r].at = "lock")
  /\ UNCHANGED <<lockout, existing, assigned>>

AccountsNext ==
  \/ \E r \in Requests :
       \/ CheckPassword(r)
       \/ CountFailure(r)
       \/ Lock(r)
       \/ ClearLockIfExpired(r)
       \/ RecordSuccess(r)
       \/ ResetAccount(r)
       \/ SetAccountPassword(r)
       \/ \E status \in Statuses : SetStatus(r, status)
       \/ SuspendAccount(r)
       \/ \E roleIds \in SUBSET Roles \ {{}} : UpdateRoles(r, roleIds)
       \/ ReplaceRoles(r)
       \/ \E role \in Roles : RemoveRole(r, role)
       \/ DeleteRole(r)
       \/ FailAccountRequest(r)
  \/ LockExpires
  \/ \E role \in Roles : CreateRole(role)

AccountsSpec == AccountsInit /\ HandlersInit /\ [][AccountsNext]_<<accountVars, request>>
-----------------------------------------------------------------------------
\* As many failures as the threshold lead to a lock, in whatever order the
\* attempts, the successes and the resets write: an account that has them is
\* locked for a while, or was, unless the request that had to lock it is yet
\* to, or failed.
LockoutHolds ==
  lockout.failed >= Threshold =>
    lockout.lock # "none" \/ uncounted \/ \E r \in Requests : request[r].at = "lock"

\* A change of the roles is made whole or not at all: an assigned role goes
\* because it is deleted, or with all of those the administrator replaced.
RolesChangeWhole ==
  [][\A r \in Requests :
       request[r].at = "replaceRoles" /\ assigned' # assigned /\ request'[r] = Idle /\
       existing' = existing
         => request[r].roleIds \subseteq assigned']_<<accountVars, request>>

\* Locks follow failures, and roles are not left half replaced.
AccountsAreKept == []LockoutHolds /\ RolesChangeWhole

\* An update replaces the roles: of two at the same time one decides.  (It
\* does not hold: each deletes the rows it sees, and both insert.)
RolesAreReplaced ==
  [][\A r \in Requests :
       request[r].at = "replaceRoles" /\ request'[r] = Idle /\ assigned' # assigned /\
       existing' = existing
         => assigned' = request[r].roleIds]_<<accountVars, request>>
=============================================================================
