------------------------------ MODULE Evidence ------------------------------
(***************************************************************************)
(* EvidenceService over FilesystemObjectStorageAdapter: a file is stored   *)
(* encrypted, its hash anchored, its row inserted, and its coordinates     *)
(* compared with the project's site.  A download hashes the file again.    *)
(*                                                                         *)
(* SHA-256 has no collisions and AES-GCM no forgeries here: a hash is the  *)
(* content itself, and ciphertext on disk is intact, damaged, or that of   *)
(* another file, which its key decrypts as well: the key of the object is  *)
(* not authenticated with it.                                              *)
(***************************************************************************)
EXTENDS Handlers

CONSTANTS
  Files,          \* storage keys and ids of project_evidence
  Contents        \* what files can contain

VARIABLES
  stored,         \* the files on disk
  anchored,       \* hashes that the ledger has a transaction for
  evidence,       \* project_evidence
  mismatch,       \* evidence with an EVIDENCE_LOCATION_MISMATCH alert
  unseen,         \* evidence whose upload, or detector, failed after the insert
  answer          \* the last download that was answered

evidenceVars == <<stored, anchored, evidence, mismatch, unseen, answer>>

\* How far from the declared site: no coordinates, within the margin, and
\* beyond it (how far beyond is the alert's severity, which is left out).
Distances == {"unknown", "near", "far"}

EvidenceRow == [hash : Contents, txRef : BOOLEAN, distance : Distances]

ASSUME EvidenceAssumption == None \notin Contents \cup {"damaged"} \cup EvidenceRow

Uploaded(content, txRef, distance) ==
  [hash |-> content, txRef |-> txRef, distance |-> distance]

EvidenceRequest ==
  {Idle} \cup
  [at : {"putObject", "anchorHash"}, file : Files, content : Contents, distance : Distances] \cup
  [at : {"createEvidence"}, file : Files, content : Contents, distance : Distances,
   txRef : BOOLEAN] \cup
  [at : {"evaluateEvidence", "getObject"}, file : Files]

EvidenceTypeOK ==
  /\ stored \in [Files -> Contents \cup {None, "damaged"}]
  /\ anchored \subseteq Contents
  /\ evidence \in [Files -> {None} \cup EvidenceRow]
  /\ mismatch \cup unseen \subseteq {f \in Files : evidence[f] # None}
  /\ answer \in {None} \cup [file : Files, content : Contents, hashVerified : BOOLEAN]

EvidenceInit ==
  /\ stored = [f \in Files |-> None]
  /\ anchored = {}
  /\ evidence = [f \in Files |-> None]
  /\ mismatch = {}
  /\ unseen = {}
  /\ answer = None

-----------------------------------------------------------------------------
(* EvidenceService.upload                                                  *)

\* The storage key is a fresh UUID.
Upload(r, f, content, distance) ==
  /\ stored[f] = None /\ evidence[f] = None
  /\ \A s \in Requests : request[s] # Idle => request[s].file # f
  /\ Start(r, [at |-> "putObject", file |-> f, content |-> content, distance |-> distance])
  /\ UNCHANGED evidenceVars

PutObject(r) ==
  /\ request[r].at = "putObject"
  /\ stored' = [stored EXCEPT ![request[r].file] = request[r].content]
  /\ Go(r, "anchorHash")
  /\ UNCHANGED <<anchored, evidence, mismatch, unseen, answer>>

\* An anchor that fails, or whose answer is lost after the commit, leaves the
\* evidence without its reference; nothing tries again.
AnchorHash(r) ==
  /\ request[r].at = "anchorHash"
  /\ \E committed, txRef \in BOOLEAN :
       /\ txRef => committed
       /\ txRef \/ MayFail
       /\ anchored' = IF committed THEN anchored \cup {request[r].content} ELSE anchored
       /\ request' = [request EXCEPT ![r] =
            [at |-> "createEvidence", file |-> @.file, content |-> @.content,
             distance |-> @.distance, txRef |-> txRef]]
  /\ UNCHANGED <<stored, evidence, mismatch, unseen, answer>>

CreateEvidence(r) ==
  /\ request[r].at = "createEvidence"
  /\ evidence' = [evidence EXCEPT ![request[r].file] =
                    Uploaded(request[r].content, request[r].txRef, request[r].distance)]
  /\ request' = [request EXCEPT ![r] = [at |-> "evaluateEvidence", file |-> @.file]]
  /\ UNCHANGED <<stored, anchored, mismatch, unseen, answer>>

EvaluateEvidence(r) ==
  LET f == request[r].file IN
  /\ request[r].at = "evaluateEvidence"
  /\ mismatch' = IF evidence[f].distance = "far" THEN mismatch \cup {f} ELSE mismatch
  /\ Stop(r)
  /\ UNCHANGED <<stored, anchored, evidence, unseen, answer>>

-----------------------------------------------------------------------------
(* EvidenceService.download                                                *)

ReadForDownload(r, f) ==
  /\ evidence[f] # None
  /\ Start(r, [at |-> "getObject", file |-> f])
  /\ UNCHANGED evidenceVars

\* Mutant: what decrypts is taken to be what was uploaded.
GetUnhashed(r) ==
  LET f == request[r].file IN
  /\ request[r].at = "getObject"
  /\ answer' = IF stored[f] \in Contents
               THEN [file |-> f, content |-> stored[f], hashVerified |-> TRUE] ELSE None
  /\ Stop(r)
  /\ UNCHANGED <<stored, anchored, evidence, mismatch, unseen>>

\* What cannot be read, or not be decrypted, is refused (422).
GetObject(r) ==
  LET f == request[r].file IN
  /\ request[r].at = "getObject"
  /\ answer' = IF stored[f] \in Contents
               THEN [file |-> f, content |-> stored[f],
                     hashVerified |-> stored[f] = evidence[f].hash]
               ELSE None
  /\ Stop(r)
  /\ UNCHANGED <<stored, anchored, evidence, mismatch, unseen>>

-----------------------------------------------------------------------------
(* The disk, and requests that end early                                   *)

Corrupt(f) ==
  /\ MayFail
  /\ stored[f] # None
  /\ stored' = [stored EXCEPT ![f] = "damaged"]
  /\ UNCHANGED <<anchored, evidence, mismatch, unseen, answer, request>>

\* A restore puts the files of two keys in each other's place.
Swap(f, g) ==
  /\ MayFail
  /\ f # g /\ stored[f] # None /\ stored[g] # None
  /\ stored' = [stored EXCEPT ![f] = stored[g], ![g] = stored[f]]
  /\ UNCHANGED <<anchored, evidence, mismatch, unseen, answer, request>>

EvidenceFails(r) ==
  /\ Abandon(r)
  /\ unseen' = IF request[r].at = "evaluateEvidence" THEN unseen \cup {request[r].file} ELSE unseen
  /\ UNCHANGED <<stored, anchored, evidence, mismatch, answer>>

EvidenceNext ==
  \/ \E r \in Requests :
       \/ \E f \in Files :
            \/ \E content \in Contents, distance \in Distances : Upload(r, f, content, distance)
            \/ ReadForDownload(r, f)
       \/ PutObject(r)
       \/ AnchorHash(r)
       \/ CreateEvidence(r)
       \/ EvaluateEvidence(r)
       \/ GetObject(r)
       \/ EvidenceFails(r)
  \/ \E f, g \in Files : Corrupt(f) \/ Swap(f, g)

EvidenceSpec == EvidenceInit /\ HandlersInit /\ [][EvidenceNext]_<<evidenceVars, request>>
-----------------------------------------------------------------------------
(* Evidence is never a claim without its file: a row is inserted after the *)
(* file was written, and a reference it shows is to a transaction of its   *)
(* hash, wherever uploads fail.                                            *)
EvidenceIsBacked ==
  \A f \in Files :
    evidence[f] # None =>
      /\ stored[f] # None
      /\ evidence[f].txRef => evidence[f].hash \in anchored

(* A download that is answered as verified is what was uploaded, whatever  *)
(* became of the disk meanwhile.                                           *)
DownloadsAreHonest ==
  answer # None /\ answer.hashVerified => answer.content = evidence[answer.file].hash

(* Evidence from beyond the margin has its alert, unless the upload failed *)
(* between the two, or still runs.                                         *)
FarEvidenceIsFlagged ==
  \A f \in Files :
    evidence[f] # None /\ evidence[f].distance = "far" =>
      \/ f \in mismatch \cup unseen
      \/ \E r \in Requests : request[r].at = "evaluateEvidence" /\ request[r].file = f

\* Evidence has its file, is what was uploaded, and is flagged when it is far off.
EvidenceIsSound == EvidenceIsBacked /\ DownloadsAreHonest /\ FarEvidenceIsFlagged
=============================================================================
