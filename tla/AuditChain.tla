----------------------------- MODULE AuditChain -----------------------------
(***************************************************************************)
(* AuditService.append, verifyChain and verifyEvent: the hash chain in the *)
(* audit_events table.                                                     *)
(*                                                                         *)
(* append runs in one transaction under a transaction-level advisory lock: *)
(* read the last event, insert the next one, commit.  An event's sequence  *)
(* is a bigserial: an insert takes the next number at once, and a          *)
(* transaction that then rolls back does not give it back.                 *)
(*                                                                         *)
(* A hash is modelled by what was hashed, so hashes are equal only if      *)
(* their inputs are.  A signature is over currentHash alone and is valid   *)
(* whenever the row holds the currentHash that was signed.                 *)
(***************************************************************************)
EXTENDS Integers, FiniteSets

CONSTANTS
  Writers,        \* calls of append that can run at the same time
  Contents,       \* what events are about
  MaxSequence,    \* bound: sequence numbers given out
  None            \* null

ASSUME AuditChainAssumption ==
  /\ MaxSequence \in Nat
  /\ None \notin Contents

VARIABLES
  event,          \* the committed rows, by sequence
  nextSequence,   \* the bigserial
  writer          \* where each call of append is

chainVars == <<event, nextSequence, writer>>

GENESIS_HASH == <<>>
Sha256(previousHash, content) == <<previousHash, content>>

\* The hashes that rows can be chained to.
Hashes == {GENESIS_HASH} \cup {event[s].currentHash : s \in DOMAIN event}

EventRow ==
  [previousHash : Hashes, content : Contents, currentHash : Hashes,
   blockchainTxRef : {None} \cup Nat]

IdleWriter == [at |-> "idle", content |-> None, previousHash |-> GENESIS_HASH, sequence |-> 0]

ChainTypeOK ==
  /\ DOMAIN event \subseteq 1 .. MaxSequence
  /\ \A s \in DOMAIN event : event[s] \in EventRow
  /\ nextSequence \in 1 .. MaxSequence + 1
  /\ writer \in [Writers -> [at : {"idle", "read", "inserted"}, content : Contents \cup {None},
                             previousHash : Hashes, sequence : 0 .. MaxSequence]]

ChainInit ==
  /\ event = [s \in {} |-> None]
  /\ nextSequence = 1
  /\ writer = [w \in Writers |-> IdleWriter]

Highest(S) == CHOOSE s \in S : \A t \in S : t <= s

\* findFirst in descending order of sequence, among S.
LastHash(S) == IF S = {} THEN GENESIS_HASH ELSE event[Highest(S)].currentHash

\* pg_advisory_xact_lock is free: it is held until the transaction ends.
LockIsFree == \A w \in Writers : writer[w].at = "idle"

\* Mutant: the lock is not taken.
BeginAppendUnlocked(w, content) ==
  /\ writer[w].at = "idle"
  /\ writer' = [writer EXCEPT ![w] =
       [at |-> "read", content |-> content, previousHash |-> LastHash(DOMAIN event),
        sequence |-> 0]]
  /\ UNCHANGED <<event, nextSequence>>

BeginAppend(w, content) ==
  /\ LockIsFree
  /\ writer' = [writer EXCEPT ![w] =
       [at |-> "read", content |-> content, previousHash |-> LastHash(DOMAIN event),
        sequence |-> 0]]
  /\ UNCHANGED <<event, nextSequence>>

\* Mutant: the row is inserted with the number after the one it was given.
InsertEventOffByOne(w) ==
  /\ writer[w].at = "read"
  /\ nextSequence <= MaxSequence
  /\ nextSequence' = nextSequence + 1
  /\ writer' = [writer EXCEPT ![w].at = "inserted", ![w].sequence = nextSequence + 1]
  /\ UNCHANGED event

InsertEvent(w) ==
  /\ writer[w].at = "read"
  /\ nextSequence <= MaxSequence
  /\ nextSequence' = nextSequence + 1
  /\ writer' = [writer EXCEPT ![w].at = "inserted", ![w].sequence = nextSequence]
  /\ UNCHANGED event

CommitAppend(w) ==
  LET previousHash == writer[w].previousHash
      content == writer[w].content
      row == [previousHash |-> previousHash, content |-> content,
              currentHash |-> Sha256(previousHash, content), blockchainTxRef |-> None]
  IN
  /\ writer[w].at = "inserted"
  /\ event' = [s \in DOMAIN event \cup {writer[w].sequence} |->
                 IF s = writer[w].sequence THEN row ELSE event[s]]
  /\ writer' = [writer EXCEPT ![w] = IdleWriter]
  /\ UNCHANGED nextSequence

\* The transaction times out, the connection is lost or the API crashes.
AbortAppend(w) ==
  /\ writer[w].at # "idle"
  /\ writer' = [writer EXCEPT ![w] = IdleWriter]
  /\ UNCHANGED <<event, nextSequence>>

ChainNext ==
  \E w \in Writers :
    \/ \E content \in Contents : BeginAppend(w, content)
    \/ InsertEvent(w)
    \/ CommitAppend(w)
    \/ AbortAppend(w)

-----------------------------------------------------------------------------
RowIsValid(row, expectedPrevious) ==
  /\ row.previousHash = expectedPrevious
  /\ row.currentHash = Sha256(expectedPrevious, row.content)

\* verifyChain walks the events in order of sequence: it answers valid if
\* every row follows from the one before.
VerifyChain ==
  \A s \in DOMAIN event : RowIsValid(event[s], LastHash({t \in DOMAIN event : t < s}))

\* verifyEvent takes the event whose sequence is one less for the predecessor.
VerifyEvent(s) ==
  RowIsValid(event[s],
             IF s > 1 /\ s - 1 \in DOMAIN event THEN event[s - 1].currentHash ELSE GENESIS_HASH)

-----------------------------------------------------------------------------
(* Safety, whatever calls of append interleave and whichever roll back.    *)

\* The service never breaks its own chain: verifyChain answers valid.
ChainVerifies == VerifyChain

\* History only grows at its end: a row appears behind every committed row, so
\* that nobody reads an end that is not the end, and what was hashed stays.
GrowsAtItsEnd ==
  [][/\ \A s \in DOMAIN event :
          s \in DOMAIN event' /\ [event'[s] EXCEPT !.blockchainTxRef = None]
                                   = [event[s] EXCEPT !.blockchainTxRef = None]
     /\ \A s \in DOMAIN event' \ DOMAIN event : \A t \in DOMAIN event : t < s]_event

\* One chain, that only grows, and verifies whatever is appended to it.
ChainHolds == [][ChainVerifies']_event /\ GrowsAtItsEnd

(* What the documents say, and the code does not do.                       *)

\* An event "is checked against its true predecessor in the entire chain", so
\* events nobody touched verify.
EventsVerify == \A s \in DOMAIN event : VerifyEvent(s)
=============================================================================
