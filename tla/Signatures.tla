----------------------------- MODULE Signatures -----------------------------
(***************************************************************************)
(* IdentityService: the signing keys of one official, and the nonces that  *)
(* SignatureGuard consumes before the handler of a signed request runs.    *)
(***************************************************************************)
EXTENDS Handlers, Integers, FiniteSets

CONSTANTS
  Keys,           \* public keys the official uploads
  Nonces          \* nonces of signatures within the signing window

VARIABLES
  key,            \* the digital_identities rows: revokedAt
  nonce,          \* the signature_nonces rows
  admitted        \* nonces whose request the guard let by, and by which requests

signatureVars == <<key, nonce, admitted>>

SignaturesTypeOK ==
  /\ key \in [Keys -> {"none", "active", "revoked"}]
  /\ nonce \subseteq Nonces
  /\ admitted \in [Nonces -> Nat]

SignatureRequest ==
  {Idle} \cup [at : {"replaceKey"}, seen : SUBSET Keys] \cup
  [at : {"consumeNonce"}, nonce : Nonces]

SignaturesInit ==
  /\ key = [k \in Keys |-> "none"]
  /\ nonce = {}
  /\ admitted = [n \in Nonces |-> 0]

ActiveKeys == {k \in Keys : key[k] = "active"}

\* IdentityService.uploadPublicKey: inside the transaction the UPDATE sees the
\* keys committed before it began.
UploadPublicKey(r) ==
  /\ Start(r, [at |-> "replaceKey", seen |-> ActiveKeys])
  /\ UNCHANGED signatureVars

Revoked(keys) == [k \in Keys |-> IF k \in keys THEN "revoked" ELSE key[k]]

ReplaceKey(r) ==
  /\ request[r].at = "replaceKey"
  /\ \E k \in Keys : key[k] = "none" /\ key' = [Revoked(request[r].seen) EXCEPT ![k] = "active"]
  /\ Stop(r)
  /\ UNCHANGED <<nonce, admitted>>

\* IdentityService.verifyAndConsumeNonce: the signature is one of the active key.
VerifySignature(r, n) ==
  /\ ActiveKeys # {}
  /\ Start(r, [at |-> "consumeNonce", nonce |-> n])
  /\ UNCHANGED signatureVars

Admit(n) == admitted' = [admitted EXCEPT ![n] = @ + 1]

\* Mutant: the nonce has no unique index.
ConsumeNonceAgain(r) ==
  /\ request[r].at = "consumeNonce"
  /\ admitted[request[r].nonce] < Cardinality(Requests)
  /\ nonce' = nonce \cup {request[r].nonce}
  /\ Admit(request[r].nonce)
  /\ Stop(r)
  /\ UNCHANGED key

\* The unique index on the nonce decides.
ConsumeNonce(r) ==
  LET n == request[r].nonce IN
  /\ request[r].at = "consumeNonce"
  /\ IF n \in nonce
     THEN UNCHANGED <<nonce, admitted>>
     ELSE nonce' = nonce \cup {n} /\ Admit(n)
  /\ Stop(r)
  /\ UNCHANGED key

FailSignatureRequest(r) == Abandon(r) /\ UNCHANGED signatureVars

SignaturesNext ==
  \E r \in Requests :
    \/ UploadPublicKey(r)
    \/ ReplaceKey(r)
    \/ \E n \in Nonces : VerifySignature(r, n)
    \/ ConsumeNonce(r)
    \/ FailSignatureRequest(r)

SignaturesSpec == SignaturesInit /\ HandlersInit /\ [][SignaturesNext]_<<signatureVars, request>>
-----------------------------------------------------------------------------
\* A signature authorizes one request, however many present it together.
SignaturesAuthorizeOnce == \A n \in Nonces : admitted[n] <= 1

\* An official who enrolled a key can sign: uploads replace the key, and leave
\* none behind only where there was none.
EnrolledCanSign == (\E k \in Keys : key[k] # "none") => ActiveKeys # {}

\* Enrolled officials can sign, and each signature counts once.
SigningIsSound == SignaturesAuthorizeOnce /\ EnrolledCanSign

\* "A user has at most one ACTIVE key at a time".  (It does not hold: two
\* uploads revoke the keys they see, and both insert.)
OneActiveKey == Cardinality(ActiveKeys) <= 1
=============================================================================
