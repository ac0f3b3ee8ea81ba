--------------------------- MODULE Authenticators ---------------------------
(***************************************************************************)
(* MfaService: the mfa_methods rows of one account, an authenticator app   *)
(* (TOTP) and its backup codes.  AuthService.verifyMfaAndLogin and         *)
(* StepUpService.verifyAndIssue both end in verifyCode.                    *)
(*                                                                         *)
(* verifyCode reads a row, decides, and writes the row back: neither the   *)
(* step it marks nor the codes it leaves are conditions of the update.     *)
(***************************************************************************)
EXTENDS Handlers, Integers, FiniteSets

CONSTANTS
  Secrets,        \* TOTP secrets that setups generate
  Codes,          \* the backup codes of an enabled authenticator
  LastStep        \* 30-second steps a behaviour has

ASSUME AuthenticatorsAssumption == LastStep \in Nat /\ None \notin Secrets

VARIABLES
  totp,           \* the row of type TOTP: secret, enabled and lastConsumedStep
  backup,         \* the row of type BACKUP_CODES
  step,           \* currentTotpStep
  spent           \* backup codes accepted since they were issued

authenticatorVars == <<totp, backup, step, spent>>

NoTotp == [secret |-> None, enabled |-> FALSE, consumed |-> -1]
NoBackup == [enabled |-> FALSE, codes |-> {}]

AuthenticatorsTypeOK ==
  /\ totp \in [secret : Secrets \cup {None}, enabled : BOOLEAN, consumed : -1 .. LastStep]
  /\ totp.secret = None => totp = NoTotp
  /\ backup \in {NoBackup} \cup [enabled : {TRUE}, codes : SUBSET Codes]
  /\ step \in 0 .. LastStep
  /\ spent \subseteq Codes

AuthenticatorRequest ==
  {Idle} \cup [at : {"upsertTotp", "enableTotp"}] \cup
  [at : {"consumeStep"}, step : 0 .. LastStep] \cup
  [at : {"removeCode"}, code : Codes, remaining : SUBSET Codes]

AuthenticatorsInit ==
  /\ totp = NoTotp
  /\ backup = NoBackup
  /\ step = 0
  /\ spent = {}

\* MfaService.beginTotpSetup
BeginTotpSetup(r) ==
  /\ ~ totp.enabled
  /\ Start(r, [at |-> "upsertTotp"])
  /\ UNCHANGED authenticatorVars

UpsertTotp(r) ==
  /\ request[r].at = "upsertTotp"
  /\ \E secret \in Secrets : totp' = [totp EXCEPT !.secret = secret, !.enabled = FALSE]
  /\ Stop(r)
  /\ UNCHANGED <<backup, step, spent>>

\* MfaService.enableTotp: the code is checked against the secret it read.
CheckSetupCode(r) ==
  /\ totp.secret # None
  /\ Start(r, [at |-> "enableTotp"])
  /\ UNCHANGED authenticatorVars

\* Mutant: two statements, of which the second may not come.
EnableTotpInTwo(r) ==
  /\ request[r].at = "enableTotp"
  /\ totp' = IF totp.secret = None THEN totp ELSE [totp EXCEPT !.enabled = TRUE]
  /\ IF totp.secret = None
     THEN UNCHANGED <<backup, spent>>
     ELSE \/ backup' = [enabled |-> TRUE, codes |-> Codes] /\ spent' = {}
          \/ UNCHANGED <<backup, spent>>
  /\ Stop(r)
  /\ UNCHANGED step

\* One transaction: it fails when the authenticator was reset meanwhile.
EnableTotp(r) ==
  /\ request[r].at = "enableTotp"
  /\ IF totp.secret = None
     THEN UNCHANGED <<totp, backup, spent>>
     ELSE /\ totp' = [totp EXCEPT !.enabled = TRUE]
          /\ backup' = [enabled |-> TRUE, codes |-> Codes]
          /\ spent' = {}
  /\ Stop(r)
  /\ UNCHANGED step

\* MfaService.verifyCode with the code of the current step.
VerifyTotp(r) ==
  /\ totp.enabled /\ totp.consumed # step
  /\ Start(r, [at |-> "consumeStep", step |-> step])
  /\ UNCHANGED authenticatorVars

ConsumeStep(r) ==
  /\ request[r].at = "consumeStep"
  /\ totp' = IF totp.secret = None THEN totp ELSE [totp EXCEPT !.consumed = request[r].step]
  /\ Stop(r)
  /\ UNCHANGED <<backup, step, spent>>

\* MfaService.verifyAndConsumeBackupCode
FindBackupCode(r, code) ==
  /\ backup.enabled /\ code \in backup.codes
  /\ Start(r, [at |-> "removeCode", code |-> code, remaining |-> backup.codes \ {code}])
  /\ UNCHANGED authenticatorVars

RemoveBackupCode(r) ==
  /\ request[r].at = "removeCode"
  /\ IF backup.enabled
     THEN /\ backup' = [backup EXCEPT !.codes = request[r].remaining]
          /\ spent' = spent \cup {request[r].code}
     ELSE UNCHANGED <<backup, spent>>
  /\ Stop(r)
  /\ UNCHANGED <<totp, step>>

\* UsersService.resetMfa deletes both rows in a statement.
ResetAuthenticator ==
  /\ totp' = NoTotp
  /\ backup' = NoBackup
  /\ spent' = {}
  /\ UNCHANGED <<step, request>>

NextTotpStep ==
  /\ step < LastStep
  /\ step' = step + 1
  /\ UNCHANGED <<totp, backup, spent, request>>

FailAuthenticatorRequest(r) == Abandon(r) /\ UNCHANGED authenticatorVars

AuthenticatorsNext ==
  \/ \E r \in Requests :
       \/ BeginTotpSetup(r)
       \/ UpsertTotp(r)
       \/ CheckSetupCode(r)
       \/ EnableTotp(r)
       \/ VerifyTotp(r)
       \/ ConsumeStep(r)
       \/ \E code \in Codes : FindBackupCode(r, code)
       \/ RemoveBackupCode(r)
       \/ FailAuthenticatorRequest(r)
  \/ ResetAuthenticator
  \/ NextTotpStep

AuthenticatorsSpec ==
  AuthenticatorsInit /\ HandlersInit /\ [][AuthenticatorsNext]_<<authenticatorVars, request>>
-----------------------------------------------------------------------------
\* Whoever has an authenticator has backup codes for the day it is lost, also
\* when an administrator resets it while it is being enabled.
AuthenticatorComesWithCodes == totp.enabled => backup.enabled

\* A backup code is accepted once.  (It does not hold: of two verifications
\* the later write brings the code of the earlier one back.)
BackupCodesAreSpent ==
  [][\A code \in Codes : \A r \in Requests :
       code \in spent /\ request[r] = Idle /\ request'[r].at = "removeCode"
         => request'[r].code # code]_<<authenticatorVars, request>>
=============================================================================
