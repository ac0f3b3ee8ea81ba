------------------------------ MODULE Anchoring ------------------------------
(***************************************************************************)
(* AnchoringService and DevelopmentLedgerAdapter: runs that roll audit     *)
(* events up into a block of a second hash chain and write the block's     *)
(* transaction on the events.                                              *)
(*                                                                         *)
(* A process runs one rollup at a time (runningPromise); two processes of  *)
(* the API know nothing of each other's.  A run reads the oldest events    *)
(* with no reference, appends a block under the ledger's advisory lock,    *)
(* then writes the reference where there is still none.  A block holds one *)
(* transaction, so both are known by the block's sequence.                 *)
(***************************************************************************)
EXTENDS AuditChain

CONSTANTS
  Processes,      \* instances of the API
  BatchSize,      \* BLOCKCHAIN_ANCHOR_BATCH_SIZE
  MaxBlocks,      \* bound: blocks appended
  MaxFailures     \* bound: runs that throw or are cut off by a crash

ASSUME AnchoringAssumption ==
  /\ BatchSize \in Nat \ {0}
  /\ MaxBlocks \in Nat
  /\ MaxFailures \in Nat
  /\ None \notin Nat

VARIABLES
  block,          \* the ledger: what each block's root hash rolls up
  run,            \* where each process's rollup is
  failures        \* runs that failed so far

vars == <<chainVars, block, run, failures>>

NoRun == [at |-> "idle", events |-> {}, tx |-> None]

TypeOK ==
  /\ ChainTypeOK
  /\ DOMAIN block = 1 .. Cardinality(DOMAIN block)
  /\ \A b \in DOMAIN block : block[b] \subseteq 1 .. MaxSequence
  /\ run \in [Processes -> [at : {"idle", "read", "anchored"},
                            events : SUBSET (1 .. MaxSequence), tx : {None} \cup 1 .. MaxBlocks]]
  /\ failures \in 0 .. MaxFailures

Init ==
  /\ ChainInit
  /\ block = [b \in {} |-> {}]
  /\ run = [p \in Processes |-> NoRun]
  /\ failures = 0

Unanchored == {s \in DOMAIN event : event[s].blockchainTxRef = None}

\* The first BatchSize of S in order of sequence.
Oldest(S) == {s \in S : Cardinality({t \in S : t < s}) < BatchSize}

\* Mutant: the events are not filtered by blockchainTxRef.
StartRunOfAll(p) ==
  /\ run[p] = NoRun
  /\ Unanchored # {}
  /\ run' = [run EXCEPT ![p] = [at |-> "read", events |-> Oldest(DOMAIN event), tx |-> None]]
  /\ UNCHANGED <<chainVars, block, failures>>

\* A tick of the interval or POST /blockchain/anchor; a run with nothing to do
\* ends at once, and a caller that meets a run in progress joins it.
StartRun(p) ==
  /\ run[p] = NoRun
  /\ Unanchored # {}
  /\ run' = [run EXCEPT ![p] = [at |-> "read", events |-> Oldest(Unanchored), tx |-> None]]
  /\ UNCHANGED <<chainVars, block, failures>>

AnchorHash(p) ==
  LET b == Cardinality(DOMAIN block) + 1 IN
  /\ run[p].at = "read"
  /\ b <= MaxBlocks
  /\ block' = [d \in 1 .. b |-> IF d = b THEN run[p].events ELSE block[d]]
  /\ run' = [run EXCEPT ![p].at = "anchored", ![p].tx = b]
  /\ UNCHANGED <<chainVars, failures>>

\* Mutant: the update has no condition on blockchainTxRef.
RecordAnchorAgain(p) ==
  /\ run[p].at = "anchored"
  /\ event' = [s \in DOMAIN event |->
                 IF s \in run[p].events
                 THEN [event[s] EXCEPT !.blockchainTxRef = run[p].tx]
                 ELSE event[s]]
  /\ run' = [run EXCEPT ![p] = NoRun]
  /\ UNCHANGED <<nextSequence, writer, block, failures>>

RecordAnchor(p) ==
  /\ run[p].at = "anchored"
  /\ event' = [s \in DOMAIN event |->
                 IF s \in run[p].events \cap Unanchored
                 THEN [event[s] EXCEPT !.blockchainTxRef = run[p].tx]
                 ELSE event[s]]
  /\ run' = [run EXCEPT ![p] = NoRun]
  /\ UNCHANGED <<nextSequence, writer, block, failures>>

\* doRun logs what its awaits throw and answers that nothing was anchored.
FailRun(p) ==
  /\ run[p] # NoRun
  /\ failures < MaxFailures
  /\ failures' = failures + 1
  /\ run' = [run EXCEPT ![p] = NoRun]
  /\ UNCHANGED <<chainVars, block>>

Rollup(p) == StartRun(p) \/ AnchorHash(p) \/ RecordAnchor(p)

Next ==
  \/ ChainNext /\ UNCHANGED <<block, run, failures>>
  \/ \E p \in Processes : Rollup(p) \/ FailRun(p)

Spec == Init /\ [][Next]_vars

\* The interval ticks for ever and an await settles, in every process.
FairSpec ==
  /\ Spec
  /\ \A p \in Processes : WF_vars(Rollup(p))
-----------------------------------------------------------------------------
(* Safety, with any number of processes, and failures at any step.         *)

\* The block an event refers to vouches for it: its root rolls the event up.
ReferencesAreCovered ==
  \A s \in DOMAIN event \ Unanchored :
    /\ event[s].blockchainTxRef \in DOMAIN block
    /\ s \in block[event[s].blockchainTxRef]

\* Events are anchored in the order of the chain: what is not anchored yet is
\* its end, so no event is left behind by runs that overlap.
AnchoredInOrder ==
  \A s \in Unanchored : \A t \in DOMAIN event \ Unanchored : t < s

\* "An event can never be silently re-anchored to a different transaction."
NeverReanchored ==
  [][\A s \in DOMAIN event :
       event[s].blockchainTxRef # None =>
         event'[s].blockchainTxRef = event[s].blockchainTxRef]_event

\* What vouches for an event is a block that holds it, taken in order, and for ever.
ReferencesStand == [](ReferencesAreCovered /\ AnchoredInOrder) /\ NeverReanchored

(* Liveness, if finitely many runs fail.                                   *)

\* Every event is anchored, though the processes' runs race and some fail.
EventsGetAnchored ==
  \A s \in 1 .. MaxSequence :
    s \in Unanchored ~> (s \in DOMAIN event /\ event[s].blockchainTxRef # None)
=============================================================================
