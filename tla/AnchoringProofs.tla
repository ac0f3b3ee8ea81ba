--------------------------- MODULE AnchoringProofs ---------------------------
(***************************************************************************)
(* Theorems about the audit chain and its anchoring, for every number of   *)
(* writers, of processes, of events and of blocks, and every batch size.   *)
(***************************************************************************)
EXTENDS Anchoring, FiniteSetTheorems, WellFoundedInduction, TLAPS

-----------------------------------------------------------------------------
(* Chains of rows.                                                         *)

\* The hash at the end of the rows of S in e, and what verifyChain checks of e.
EndOf(e, S) == IF S = {} THEN GENESIS_HASH ELSE e[Highest(S)].currentHash
Before(e, s) == {t \in DOMAIN e : t < s}
Verifies(e) == \A s \in DOMAIN e : RowIsValid(e[s], EndOf(e, Before(e, s)))

LEMMA EndOfEvents ==
  /\ \A S : LastHash(S) = EndOf(event, S)
  /\ VerifyChain <=> Verifies(event)
BY DEF LastHash, EndOf, VerifyChain, Verifies, Before

LEMMA HighestExists ==
  ASSUME NEW n \in Nat, NEW S \in SUBSET (1 .. n), S # {}
  PROVE  Highest(S) \in S /\ \A t \in S : t <= Highest(S)
<1> DEFINE Below == {n - s : s \in S}
<1>1. Below \subseteq Nat /\ Below # {}
  <2>1. \A s \in S : s \in 1 .. n /\ n - s \in Nat
    OBVIOUS
  <2>2. QED
    BY <2>1
<1>2. PICK d \in Below : \A c \in Below : ~ (<<c, d>> \in OpToRel(<, Nat))
  <2> HIDE DEF Below
  <2>1. QED
    BY <1>1, NatLessThanWellFounded, WFMin
<1>3. \A c \in Below : ~ (c < d)
  <2> HIDE DEF Below
  <2>1. QED
    BY <1>1, <1>2 DEF OpToRel
<1>4. PICK s \in S : d = n - s
  OBVIOUS
<1>5. ASSUME NEW t \in S PROVE t <= s
  <2>1. n - t \in Below
    OBVIOUS
  <2>2. ~ (n - t < n - s)
    BY <1>3, <1>4, <2>1
  <2>3. QED
    BY <2>2
<1>6. QED
  BY <1>5 DEF Highest

LEMMA HighestIs ==
  ASSUME NEW S \in SUBSET Int, NEW s \in S, \A t \in S : t <= s
  PROVE  Highest(S) = s
<1>1. \A u \in S : (\A t \in S : t <= u) => u = s
  OBVIOUS
<1>2. QED
  BY <1>1 DEF Highest

\* A row that is added behind the others, of the hash at their end, leaves the
\* chain whole, and is its end.
LEMMA AppendVerifies ==
  ASSUME NEW e, DOMAIN e \subseteq 1 .. MaxSequence, Verifies(e),
         NEW q \in 1 .. MaxSequence, \A t \in DOMAIN e : t < q,
         NEW row, RowIsValid(row, EndOf(e, DOMAIN e)),
         NEW f, f = [s \in DOMAIN e \cup {q} |-> IF s = q THEN row ELSE e[s]]
  PROVE  Verifies(f)
<1> SUFFICES ASSUME NEW s \in DOMAIN f
             PROVE  RowIsValid(f[s], EndOf(f, Before(f, s)))
  BY DEF Verifies
<1>1. MaxSequence \in Nat
  BY AuditChainAssumption
<1>2. ASSUME NEW S \in SUBSET DOMAIN e PROVE EndOf(f, S) = EndOf(e, S)
  <2>1. CASE S = {}
    BY <2>1 DEF EndOf
  <2>2. CASE S # {}
    <3>1. Highest(S) \in S
      BY <1>1, <2>2, HighestExists
    <3>2. f[Highest(S)] = e[Highest(S)]
      BY <3>1
    <3>3. QED
      BY <2>2, <3>2 DEF EndOf
  <2>3. QED
    BY <2>1, <2>2
<1>3. CASE s = q
  <2>1. Before(f, s) = DOMAIN e
    BY <1>3 DEF Before
  <2>2. EndOf(f, Before(f, s)) = EndOf(e, DOMAIN e)
    BY <1>2, <2>1
  <2>3. QED
    BY <1>3, <2>2
<1>4. CASE s # q
  <2>1. s \in DOMAIN e /\ f[s] = e[s]
    BY <1>4
  <2>2. Before(f, s) = Before(e, s) /\ Before(e, s) \subseteq DOMAIN e
    BY <2>1 DEF Before
  <2>3. EndOf(f, Before(f, s)) = EndOf(e, Before(e, s))
    BY <1>2, <2>2
  <2>4. QED
    BY <2>1, <2>3 DEF Verifies
<1>5. QED
  BY <1>3, <1>4

\* Rows that are what they were but for their references have the same ends.
LEMMA ReferencesDoNotMatter ==
  ASSUME NEW e, NEW f, DOMAIN f = DOMAIN e, DOMAIN e \subseteq 1 .. MaxSequence,
         \A s \in DOMAIN e : /\ f[s].previousHash = e[s].previousHash
                             /\ f[s].content = e[s].content
                             /\ f[s].currentHash = e[s].currentHash
  PROVE  /\ \A S \in SUBSET DOMAIN e : EndOf(f, S) = EndOf(e, S)
         /\ Verifies(e) => Verifies(f)
<1>1. MaxSequence \in Nat
  BY AuditChainAssumption
<1>2. ASSUME NEW S \in SUBSET DOMAIN e PROVE EndOf(f, S) = EndOf(e, S)
  <2>1. CASE S = {}
    BY <2>1 DEF EndOf
  <2>2. CASE S # {}
    <3>1. Highest(S) \in DOMAIN e
      BY <1>1, <2>2, HighestExists
    <3>2. QED
      BY <2>2, <3>1 DEF EndOf
  <2>3. QED
    BY <2>1, <2>2
<1>3. ASSUME Verifies(e), NEW s \in DOMAIN f
      PROVE  RowIsValid(f[s], EndOf(f, Before(f, s)))
  <2>1. Before(f, s) = Before(e, s) /\ Before(e, s) \in SUBSET DOMAIN e
    BY DEF Before
  <2>2. EndOf(f, Before(f, s)) = EndOf(e, Before(e, s))
    BY <1>2, <2>1
  <2>3. RowIsValid(e[s], EndOf(e, Before(e, s)))
    BY <1>3 DEF Verifies
  <2>4. QED
    BY <2>2, <2>3 DEF RowIsValid
<1>4. QED
  BY <1>2, <1>3 DEF Verifies

-----------------------------------------------------------------------------
(* The inductive invariant.                                                *)

\* append holds the lock from its read to its end.
OneWriter ==
  \A w, v \in Writers : writer[w].at # "idle" /\ writer[v].at # "idle" => w = v

\* Who holds the lock appends to the end of the chain, and behind it.
WriterPromise(w) ==
  /\ writer[w].at # "idle" =>
       /\ writer[w].content \in Contents
       /\ writer[w].previousHash = LastHash(DOMAIN event)
  /\ writer[w].at = "inserted" =>
       /\ writer[w].sequence \in 1 .. MaxSequence
       /\ writer[w].sequence < nextSequence
       /\ \A t \in DOMAIN event : t < writer[w].sequence

WriterPromises == \A w \in Writers : WriterPromise(w)

\* The bigserial is beyond every row.
NumbersAreTaken == \A s \in DOMAIN event : s < nextSequence

\* A run has all events in hand that come before one that it has in hand, and
\* its block, once it is there, holds them.
RunPromise(p) ==
  /\ run[p].at = "idle" => run[p] = NoRun
  /\ run[p].at # "idle" =>
       /\ run[p].events \subseteq DOMAIN event
       /\ \A s \in run[p].events : \A t \in Unanchored : t < s => t \in run[p].events
  /\ run[p].at = "anchored" =>
       /\ run[p].tx \in DOMAIN block
       /\ run[p].events \subseteq block[run[p].tx]

RunPromises == \A p \in Processes : RunPromise(p)

ChainInv ==
  /\ ChainTypeOK
  /\ OneWriter
  /\ WriterPromises
  /\ NumbersAreTaken
  /\ ChainVerifies

\* DOMAIN block = 1 .. n, as it is numbered by the rows before it.
BlocksAreCounted ==
  \E n \in 0 .. MaxBlocks : DOMAIN block = 1 .. n /\ Cardinality(DOMAIN block) = n

RollupInv ==
  /\ TypeOK
  /\ BlocksAreCounted
  /\ RunPromises
  /\ ReferencesAreCovered
  /\ AnchoredInOrder

IInv == ChainInv /\ RollupInv

LEMMA InitInv == Init => IInv
<1> SUFFICES ASSUME Init PROVE IInv
  OBVIOUS
<1> USE DEF Init, ChainInit
<1>1. DOMAIN event = {} /\ DOMAIN block = {}
  OBVIOUS
<1>2. Hashes = {GENESIS_HASH}
  BY <1>1 DEF Hashes
<1>3. Cardinality(DOMAIN block) = 0
  BY <1>1, FS_EmptySet
<1>4. 1 .. 0 = {}
  OBVIOUS
<1>5. ChainTypeOK
  BY <1>1, <1>2, AuditChainAssumption DEF ChainTypeOK, IdleWriter
<1>6. ChainInv
  BY <1>1, <1>5
  DEF ChainInv, OneWriter, WriterPromises, WriterPromise, NumbersAreTaken, ChainVerifies,
      VerifyChain, IdleWriter
<1>7. TypeOK
  BY <1>1, <1>3, <1>4, <1>5, AnchoringAssumption DEF TypeOK, NoRun
<1>8. BlocksAreCounted
  BY <1>1, <1>3, <1>4, AnchoringAssumption DEF BlocksAreCounted
<1>9. RollupInv
  BY <1>1, <1>7, <1>8
  DEF RollupInv, RunPromises, RunPromise, NoRun, ReferencesAreCovered, AnchoredInOrder, Unanchored
<1>10. QED
  BY <1>6, <1>9 DEF IInv

-----------------------------------------------------------------------------
(* The steps of append.                                                    *)

\* What a transaction of append does to the rows: it leaves them alone, or adds
\* one behind them that follows from their end.
NewRow ==
  [previousHash : Hashes, content : Contents,
   currentHash : {Sha256(h, c) : h \in Hashes, c \in Contents}, blockchainTxRef : {None}]

AppendsRow(q, row) ==
  /\ \A t \in DOMAIN event : t < q
  /\ RowIsValid(row, LastHash(DOMAIN event))
  /\ event' = [s \in DOMAIN event \cup {q} |-> IF s = q THEN row ELSE event[s]]

Appends == event' = event \/ \E q \in 1 .. MaxSequence : \E row \in NewRow : AppendsRow(q, row)

LEMMA LastHashType == ChainTypeOK => LastHash(DOMAIN event) \in Hashes
<1> SUFFICES ASSUME ChainTypeOK PROVE LastHash(DOMAIN event) \in Hashes
  OBVIOUS
<1>1. CASE DOMAIN event = {}
  BY <1>1 DEF LastHash, Hashes
<1>2. CASE DOMAIN event # {}
  <2>1. Highest(DOMAIN event) \in DOMAIN event
    BY <1>2, HighestExists, AuditChainAssumption DEF ChainTypeOK
  <2>2. QED
    BY <1>2, <2>1 DEF LastHash, Hashes
<1>3. QED
  BY <1>1, <1>2

LEMMA BeginAppendStep ==
  ASSUME ChainInv, NEW w \in Writers, NEW content \in Contents, BeginAppend(w, content)
  PROVE  ChainInv' /\ Appends
<1> USE DEF ChainInv, BeginAppend
<1>1. event' = event /\ nextSequence' = nextSequence /\ Hashes' = Hashes
  BY DEF Hashes
<1>2. LastHash(DOMAIN event)' = LastHash(DOMAIN event) /\ LastHash(DOMAIN event) \in Hashes
  BY <1>1, LastHashType DEF LastHash
<1>3. /\ writer'[w].at = "read" /\ writer'[w].content = content
      /\ writer'[w].previousHash = LastHash(DOMAIN event)
      /\ \A v \in Writers \ {w} : writer'[v] = writer[v] /\ writer'[v].at = "idle"
  BY DEF ChainTypeOK, LockIsFree
<1>4. ChainTypeOK'
  <2>1. writer' \in [Writers -> [at : {"idle", "read", "inserted"}, content : Contents \cup {None},
                                 previousHash : Hashes, sequence : 0 .. MaxSequence]]
    BY <1>2, AuditChainAssumption DEF ChainTypeOK
  <2>2. QED
    BY <1>1, <2>1 DEF ChainTypeOK, EventRow
<1>5. OneWriter'
  BY <1>3 DEF OneWriter
<1>6. WriterPromises'
  BY <1>1, <1>2, <1>3 DEF WriterPromises, WriterPromise
<1>7. NumbersAreTaken' /\ ChainVerifies'
  BY <1>1 DEF NumbersAreTaken, ChainVerifies, VerifyChain, LastHash
<1>8. QED
  BY <1>1, <1>4, <1>5, <1>6, <1>7 DEF Appends

LEMMA InsertEventStep ==
  ASSUME ChainInv, NEW w \in Writers, InsertEvent(w)
  PROVE  ChainInv' /\ Appends
<1> USE DEF ChainInv, InsertEvent
<1>1. event' = event /\ Hashes' = Hashes /\ nextSequence' = nextSequence + 1
  BY DEF Hashes
<1>2. LastHash(DOMAIN event)' = LastHash(DOMAIN event)
  BY <1>1 DEF LastHash
<1>3. nextSequence \in 1 .. MaxSequence
  BY AuditChainAssumption DEF ChainTypeOK
<1>4. /\ writer[w].at = "read" /\ writer'[w].at = "inserted" /\ writer'[w].sequence = nextSequence
      /\ writer'[w].content = writer[w].content
      /\ writer'[w].previousHash = writer[w].previousHash
      /\ \A v \in Writers \ {w} : writer'[v] = writer[v] /\ writer'[v].at = "idle"
  BY DEF ChainTypeOK, OneWriter
<1>5. ChainTypeOK'
  <2>1. writer' \in [Writers -> [at : {"idle", "read", "inserted"}, content : Contents \cup {None},
                                 previousHash : Hashes, sequence : 0 .. MaxSequence]]
    <3>1. nextSequence \in 0 .. MaxSequence
      BY <1>3, AuditChainAssumption
    <3>2. [writer[w] EXCEPT !.at = "inserted", !.sequence = nextSequence]
            \in [at : {"idle", "read", "inserted"}, content : Contents \cup {None},
                 previousHash : Hashes, sequence : 0 .. MaxSequence]
      BY <3>1 DEF ChainTypeOK
    <3>3. writer' = [writer EXCEPT ![w] =
                      [writer[w] EXCEPT !.at = "inserted", !.sequence = nextSequence]]
      OBVIOUS
    <3>4. QED
      BY <3>2, <3>3 DEF ChainTypeOK
  <2>2. nextSequence' \in 1 .. MaxSequence + 1
    BY <1>1, <1>3, AuditChainAssumption
  <2>3. QED
    BY <1>1, <2>1, <2>2 DEF ChainTypeOK, EventRow
<1>6. OneWriter'
  BY <1>4 DEF OneWriter
<1>7. DOMAIN event \subseteq Int /\ \A t \in DOMAIN event : t < nextSequence
  BY DEF ChainTypeOK, NumbersAreTaken
<1>8. WriterPromises'
  <2>1. WriterPromise(w)
    BY DEF WriterPromises
  <2>2. /\ writer'[w].content \in Contents
        /\ writer'[w].previousHash = LastHash(DOMAIN event)
    BY <1>4, <2>1 DEF WriterPromise
  <2>3. /\ writer'[w].sequence \in 1 .. MaxSequence
        /\ writer'[w].sequence < nextSequence'
        /\ \A t \in DOMAIN event : t < writer'[w].sequence
    <3>1. writer'[w].sequence = nextSequence
      BY <1>4
    <3>2. nextSequence < nextSequence'
      BY <1>1, <1>3, AuditChainAssumption
    <3>3. QED
      BY <1>3, <1>7, <3>1, <3>2
  <2>4. WriterPromise(w)'
    BY <1>1, <1>2, <2>2, <2>3 DEF WriterPromise
  <2>5. QED
    BY <1>4, <2>4 DEF WriterPromises, WriterPromise
<1>9. NumbersAreTaken'
  BY <1>1, <1>3, <1>7 DEF NumbersAreTaken
<1>10. ChainVerifies'
  BY <1>1 DEF ChainVerifies, VerifyChain, LastHash
<1>11. QED
  BY <1>1, <1>5, <1>6, <1>8, <1>9, <1>10 DEF Appends

LEMMA CommitAppendStep ==
  ASSUME ChainInv, NEW w \in Writers, CommitAppend(w)
  PROVE  ChainInv' /\ Appends
<1> PICK previousHash : previousHash = writer[w].previousHash
  OBVIOUS
<1> PICK content : content = writer[w].content
  OBVIOUS
<1> PICK q : q = writer[w].sequence
  OBVIOUS
<1> DEFINE row == [previousHash |-> previousHash, content |-> content,
                   currentHash |-> Sha256(previousHash, content), blockchainTxRef |-> None]
<1>1. /\ writer[w].at = "inserted"
      /\ event' = [s \in DOMAIN event \cup {q} |-> IF s = q THEN row ELSE event[s]]
      /\ writer' = [writer EXCEPT ![w] = IdleWriter]
      /\ nextSequence' = nextSequence
  BY DEF CommitAppend
<1>2. /\ content \in Contents /\ previousHash = LastHash(DOMAIN event) /\ previousHash \in Hashes
      /\ q \in 1 .. MaxSequence /\ q < nextSequence
      /\ \A t \in DOMAIN event : t < q
  <2>1. WriterPromise(w) /\ LastHash(DOMAIN event) \in Hashes
    BY LastHashType DEF ChainInv, WriterPromises
  <2>2. QED
    BY <1>1, <2>1 DEF WriterPromise
<1>3. \A v \in Writers : writer'[v] = IdleWriter \/ (writer'[v] = writer[v] /\ writer[v].at = "idle")
  <2> SUFFICES ASSUME NEW v \in Writers
               PROVE  writer'[v] = IdleWriter \/ (writer'[v] = writer[v] /\ writer[v].at = "idle")
    OBVIOUS
  <2>1. CASE v = w
    <3>1. DOMAIN writer = Writers
      BY DEF ChainInv, ChainTypeOK
    <3>2. writer'[w] = IdleWriter
      BY <1>1, <3>1
    <3>3. QED
      BY <2>1, <3>2
  <2>2. CASE v # w
    <3>1. writer[v].at = "idle"
      BY <1>1, <2>2 DEF ChainInv, OneWriter
    <3>2. QED
      BY <1>1, <2>2, <3>1 DEF ChainInv, ChainTypeOK
  <2>3. QED
    BY <2>1, <2>2
<1>4. \A v \in Writers : writer'[v].at = "idle"
  BY <1>3 DEF IdleWriter
<1>5. DOMAIN event' = DOMAIN event \cup {q} /\ event'[q] = row
  BY <1>1
<1>6. \A s \in DOMAIN event : s # q /\ event'[s] = event[s]
  BY <1>1, <1>2 DEF ChainInv, ChainTypeOK
<1>7. Hashes \subseteq Hashes' /\ Sha256(previousHash, content) \in Hashes'
  <2>1. \A s \in DOMAIN event : event[s].currentHash \in Hashes'
    BY <1>5, <1>6 DEF Hashes
  <2>2. event'[q].currentHash \in Hashes'
    BY <1>5 DEF Hashes
  <2>3. QED
    BY <1>5, <2>1, <2>2 DEF Hashes
<1>8. ChainTypeOK'
  <2>1. DOMAIN event' \subseteq 1 .. MaxSequence
    BY <1>2, <1>5 DEF ChainInv, ChainTypeOK
  <2>2. row \in EventRow'
    BY <1>2, <1>7 DEF EventRow
  <2>3. ASSUME NEW s \in DOMAIN event PROVE event'[s] \in EventRow'
    BY <1>6, <1>7 DEF ChainInv, ChainTypeOK, EventRow
  <2>4. IdleWriter \in [at : {"idle", "read", "inserted"}, content : Contents \cup {None},
                        previousHash : Hashes', sequence : 0 .. MaxSequence]
    BY AuditChainAssumption DEF IdleWriter, Hashes
  <2>5. writer' \in [Writers -> [at : {"idle", "read", "inserted"}, content : Contents \cup {None},
                                 previousHash : Hashes', sequence : 0 .. MaxSequence]]
    BY <1>1, <1>7, <2>4 DEF ChainInv, ChainTypeOK
  <2>6. QED
    BY <1>1, <1>5, <2>1, <2>2, <2>3, <2>5 DEF ChainInv, ChainTypeOK
<1>9. OneWriter' /\ WriterPromises'
  BY <1>4 DEF OneWriter, WriterPromises, WriterPromise
<1>10. NumbersAreTaken'
  BY <1>1, <1>2, <1>5 DEF ChainInv, NumbersAreTaken
<1>11. RowIsValid(row, LastHash(DOMAIN event))
  BY <1>2 DEF RowIsValid
<1>12. ChainVerifies'
  <2>1. Verifies(event) /\ RowIsValid(row, EndOf(event, DOMAIN event))
    BY <1>11, EndOfEvents DEF ChainInv, ChainVerifies
  <2>2. DOMAIN event \subseteq 1 .. MaxSequence
    BY DEF ChainInv, ChainTypeOK
  <2> HIDE DEF row
  <2>3. Verifies(event')
    BY <1>1, <1>2, <2>1, <2>2, AppendVerifies
  <2>4. QED
    BY <2>3 DEF ChainVerifies, VerifyChain, Verifies, LastHash, EndOf, Before
<1>13. Appends
  <2>1. row \in NewRow
    BY <1>2 DEF NewRow
  <2> HIDE DEF row
  <2>2. QED
    BY <1>1, <1>2, <1>11, <2>1 DEF Appends, AppendsRow
<1>14. QED
  BY <1>8, <1>9, <1>10, <1>12, <1>13 DEF ChainInv

LEMMA AbortAppendStep ==
  ASSUME ChainInv, NEW w \in Writers, AbortAppend(w)
  PROVE  ChainInv' /\ Appends
<1> USE DEF ChainInv, AbortAppend
<1>1. event' = event /\ nextSequence' = nextSequence /\ Hashes' = Hashes
  BY DEF Hashes
<1>2. \A v \in Writers : writer'[v] = IdleWriter \/ (writer'[v] = writer[v] /\ writer[v].at = "idle")
  <2> SUFFICES ASSUME NEW v \in Writers
               PROVE  writer'[v] = IdleWriter \/ (writer'[v] = writer[v] /\ writer[v].at = "idle")
    OBVIOUS
  <2>1. CASE v = w
    <3>1. DOMAIN writer = Writers
      BY DEF ChainTypeOK
    <3>2. writer'[w] = IdleWriter
      BY <3>1
    <3>3. QED
      BY <2>1, <3>2
  <2>2. CASE v # w
    <3>1. writer[v].at = "idle"
      BY <2>2 DEF OneWriter
    <3>2. QED
      BY <2>2, <3>1 DEF ChainTypeOK
  <2>3. QED
    BY <2>1, <2>2
<1>3. \A v \in Writers : writer'[v].at = "idle"
  BY <1>2 DEF IdleWriter
<1>4. ChainTypeOK'
  <2>1. IdleWriter \in [at : {"idle", "read", "inserted"}, content : Contents \cup {None},
                        previousHash : Hashes, sequence : 0 .. MaxSequence]
    BY AuditChainAssumption DEF IdleWriter, Hashes
  <2>2. writer' \in [Writers -> [at : {"idle", "read", "inserted"}, content : Contents \cup {None},
                                 previousHash : Hashes, sequence : 0 .. MaxSequence]]
    BY <2>1 DEF ChainTypeOK
  <2>3. QED
    BY <1>1, <2>2 DEF ChainTypeOK, EventRow
<1>5. OneWriter' /\ WriterPromises'
  BY <1>3 DEF OneWriter, WriterPromises, WriterPromise
<1>6. NumbersAreTaken' /\ ChainVerifies'
  BY <1>1 DEF NumbersAreTaken, ChainVerifies, VerifyChain, LastHash
<1>7. QED
  BY <1>1, <1>4, <1>5, <1>6 DEF Appends

LEMMA ChainStep == ChainInv /\ ChainNext => ChainInv' /\ Appends
BY BeginAppendStep, InsertEventStep, CommitAppendStep, AbortAppendStep DEF ChainNext

\* A step of append leaves the rollups' part of the invariant: a row that is
\* added has no reference yet, and comes after whatever a run has in hand.
LEMMA RollupInvUnderAppend ==
  ASSUME IInv, ChainTypeOK', Appends, UNCHANGED <<block, run, failures>>
  PROVE  RollupInv'
<1> USE DEF IInv, RollupInv
<1>1. CASE event' = event
  BY <1>1
  DEF TypeOK, BlocksAreCounted, RunPromises, RunPromise, ReferencesAreCovered, AnchoredInOrder,
      Unanchored
<1>2. CASE event' # event
  <2> PICK q \in 1 .. MaxSequence : \E row \in NewRow : AppendsRow(q, row)
    BY <1>2 DEF Appends
  <2> PICK row \in NewRow : AppendsRow(q, row)
    OBVIOUS
  <2>1. /\ \A t \in DOMAIN event : t < q
        /\ event' = [s \in DOMAIN event \cup {q} |-> IF s = q THEN row ELSE event[s]]
        /\ row.blockchainTxRef = None
    BY DEF AppendsRow, NewRow
  <2>2. DOMAIN event' = DOMAIN event \cup {q} /\ event'[q].blockchainTxRef = None
    BY <2>1
  <2>3. \A s \in DOMAIN event : s # q /\ event'[s] = event[s]
    BY <2>1 DEF TypeOK, ChainTypeOK
  <2>4. Unanchored' = Unanchored \cup {q}
    BY <2>2, <2>3 DEF Unanchored
  <2>5. DOMAIN event' \ Unanchored' = DOMAIN event \ Unanchored
    BY <2>2, <2>3, <2>4 DEF Unanchored
  <2>6. DOMAIN event \subseteq Int /\ q \in Int /\ Unanchored \subseteq DOMAIN event
    BY DEF TypeOK, ChainTypeOK, Unanchored
  <2>7. TypeOK' /\ BlocksAreCounted'
    BY DEF TypeOK, BlocksAreCounted
  <2>8. RunPromises'
    <3> SUFFICES ASSUME NEW p \in Processes PROVE RunPromise(p)'
      BY DEF RunPromises
    <3>1. RunPromise(p) /\ run'[p] = run[p] /\ block' = block
      BY DEF RunPromises
    <3>2. ASSUME run[p].at # "idle", NEW s \in run[p].events, NEW t \in Unanchored', t < s
          PROVE  t \in run[p].events
      <4>1. s \in DOMAIN event
        BY <3>1, <3>2 DEF RunPromise
      <4>2. t # q
        BY <2>1, <2>6, <3>2, <4>1
      <4>3. QED
        BY <2>4, <3>1, <3>2, <4>2 DEF RunPromise
    <3>3. run[p].at # "idle" => run[p].events \subseteq DOMAIN event'
      BY <2>2, <3>1 DEF RunPromise
    <3>4. QED
      BY <3>1, <3>2, <3>3 DEF RunPromise, NoRun
  <2>9. ReferencesAreCovered'
    BY <2>3, <2>5 DEF ReferencesAreCovered
  <2>10. AnchoredInOrder'
    BY <2>1, <2>4, <2>5 DEF AnchoredInOrder
  <2>11. QED
    BY <2>7, <2>8, <2>9, <2>10
<1>3. QED
  BY <1>1, <1>2

-----------------------------------------------------------------------------
(* The steps of a rollup.                                                  *)

\* What comes before one of the oldest is among them.
LEMMA OldestIsClosed ==
  ASSUME NEW S \in SUBSET (1 .. MaxSequence)
  PROVE  /\ Oldest(S) \subseteq S
         /\ \A s \in Oldest(S) : \A t \in S : t < s => t \in Oldest(S)
<1>1. MaxSequence \in Nat /\ BatchSize \in Nat
  BY AuditChainAssumption, AnchoringAssumption
<1>2. IsFiniteSet(S)
  <2>1. IsFiniteSet(1 .. MaxSequence)
    BY <1>1, FS_Interval
  <2>2. QED
    BY <2>1, FS_Subset
<1>3. ASSUME NEW s \in Oldest(S), NEW t \in S, t < s
      PROVE  t \in Oldest(S)
  <2>1. {u \in S : u < t} \subseteq {u \in S : u < s}
    <3>1. t \in Int /\ s \in Int /\ \A u \in S : u \in Int
      BY DEF Oldest
    <3>2. \A u \in S : u < t => u < s
      BY <1>3, <3>1
    <3>3. QED
      BY <3>2
  <2>2. IsFiniteSet({u \in S : u < s})
    BY <1>2, FS_Subset
  <2>3. /\ Cardinality({u \in S : u < t}) <= Cardinality({u \in S : u < s})
        /\ Cardinality({u \in S : u < t}) \in Nat
        /\ Cardinality({u \in S : u < s}) \in Nat
    BY <2>1, <2>2, FS_Subset, FS_CardinalityType
  <2>4. Cardinality({u \in S : u < s}) < BatchSize
    BY DEF Oldest
  <2>5. Cardinality({u \in S : u < t}) < BatchSize
    BY <1>1, <2>3, <2>4
  <2>6. QED
    BY <2>5 DEF Oldest
<1>4. QED
  BY <1>3 DEF Oldest

\* What a step of a rollup but the last leaves alone.
LEMMA ChainInvUnchanged ==
  ASSUME ChainInv, UNCHANGED chainVars
  PROVE  /\ ChainInv'
         /\ Unanchored' = Unanchored
         /\ AnchoredInOrder => AnchoredInOrder'
<1>1. event' = event /\ nextSequence' = nextSequence /\ writer' = writer
  BY DEF chainVars
<1>2. ChainTypeOK'
  BY <1>1 DEF ChainInv, ChainTypeOK, EventRow, Hashes
<1>3. OneWriter' /\ WriterPromises' /\ NumbersAreTaken' /\ ChainVerifies'
  BY <1>1
  DEF ChainInv, OneWriter, WriterPromises, WriterPromise, LastHash, NumbersAreTaken,
      ChainVerifies, VerifyChain
<1>4. Unanchored' = Unanchored /\ (AnchoredInOrder => AnchoredInOrder')
  BY <1>1 DEF Unanchored, AnchoredInOrder
<1>5. QED
  BY <1>2, <1>3, <1>4 DEF ChainInv

RunType == [at : {"idle", "read", "anchored"}, events : SUBSET (1 .. MaxSequence),
            tx : {None} \cup 1 .. MaxBlocks]

LEMMA StartRunStep ==
  ASSUME IInv, NEW p \in Processes, StartRun(p)
  PROVE  IInv'
<1> USE DEF IInv, RollupInv
<1>1. /\ run' = [run EXCEPT ![p] = [at |-> "read", events |-> Oldest(Unanchored), tx |-> None]]
      /\ block' = block /\ failures' = failures /\ event' = event
      /\ ChainInv' /\ Unanchored' = Unanchored /\ AnchoredInOrder'
  BY ChainInvUnchanged DEF StartRun, chainVars
<1>2. Unanchored \subseteq DOMAIN event /\ Unanchored \in SUBSET (1 .. MaxSequence)
  BY DEF Unanchored, TypeOK, ChainTypeOK
<1>3. /\ Oldest(Unanchored) \subseteq Unanchored
      /\ \A s \in Oldest(Unanchored) : \A t \in Unanchored : t < s => t \in Oldest(Unanchored)
  BY <1>2, OldestIsClosed
<1>4. TypeOK'
  <2>1. run' \in [Processes -> RunType]
    BY <1>1, <1>2, <1>3 DEF TypeOK, RunType
  <2>2. QED
    BY <1>1, <2>1 DEF TypeOK, ChainInv, RunType
<1>5. RunPromises'
  <2> SUFFICES ASSUME NEW o \in Processes PROVE RunPromise(o)'
    BY DEF RunPromises
  <2>1. DOMAIN run = Processes
    BY DEF TypeOK
  <2>2. CASE o = p
    <3>1. run'[o].at = "read" /\ run'[o].events = Oldest(Unanchored)
      BY <1>1, <2>1, <2>2
    <3>2. QED
      BY <1>1, <1>2, <1>3, <3>1 DEF RunPromise
  <2>3. CASE o # p
    BY <1>1, <2>1, <2>3 DEF RunPromises, RunPromise
  <2>4. QED
    BY <2>2, <2>3
<1>6. BlocksAreCounted' /\ ReferencesAreCovered'
  BY <1>1 DEF BlocksAreCounted, ReferencesAreCovered
<1>7. QED
  BY <1>1, <1>4, <1>5, <1>6

LEMMA AnchorHashStep ==
  ASSUME IInv, NEW p \in Processes, AnchorHash(p)
  PROVE  IInv'
<1> USE DEF IInv, RollupInv
<1> PICK n \in 0 .. MaxBlocks : DOMAIN block = 1 .. n /\ Cardinality(DOMAIN block) = n
  BY DEF BlocksAreCounted
<1> PICK batch : batch = run[p].events
  OBVIOUS
<1>1. /\ run[p].at = "read" /\ n + 1 <= MaxBlocks
      /\ block' = [d \in 1 .. n + 1 |-> IF d = n + 1 THEN batch ELSE block[d]]
      /\ run' = [run EXCEPT ![p].at = "anchored", ![p].tx = n + 1]
      /\ failures' = failures /\ event' = event
      /\ ChainInv' /\ Unanchored' = Unanchored /\ AnchoredInOrder'
  BY ChainInvUnchanged DEF AnchorHash, chainVars
<1>2. MaxBlocks \in Nat /\ n \in Nat /\ n + 1 \in 1 .. MaxBlocks /\ n + 1 \in 0 .. MaxBlocks
  BY <1>1, AnchoringAssumption
<1>3. DOMAIN block' = 1 .. n + 1 /\ Cardinality(DOMAIN block') = n + 1
  <2>1. DOMAIN block' = 1 .. n + 1
    BY <1>1
  <2>2. QED
    BY <1>2, <2>1, FS_Interval
<1>4. /\ \A b \in DOMAIN block : b \in DOMAIN block' /\ block'[b] = block[b]
      /\ n + 1 \in DOMAIN block' /\ block'[n + 1] = batch
  <2>1. \A b \in 1 .. n : b # n + 1 /\ b \in 1 .. n + 1
    BY <1>2
  <2>2. n + 1 \in 1 .. n + 1
    BY <1>2
  <2>3. QED
    BY <1>1, <2>1, <2>2
<1>5. BlocksAreCounted'
  BY <1>2, <1>3 DEF BlocksAreCounted
<1>6. DOMAIN run = Processes /\ run[p] \in RunType
  BY DEF TypeOK, RunType
<1>7. /\ run'[p].at = "anchored" /\ run'[p].tx = n + 1 /\ run'[p].events = batch
      /\ \A o \in Processes \ {p} : run'[o] = run[o]
  BY <1>1, <1>6 DEF RunType
<1>8. TypeOK'
  <2>1. run' \in [Processes -> RunType]
    <3>1. run \in [Processes -> RunType]
      BY DEF TypeOK, RunType
    <3>2. [run[p] EXCEPT !.at = "anchored", !.tx = n + 1] \in RunType
      BY <1>2, <1>6 DEF RunType
    <3>3. run' = [run EXCEPT ![p] = [run[p] EXCEPT !.at = "anchored", !.tx = n + 1]]
      BY <1>1
    <3>4. QED
      BY <3>1, <3>2, <3>3
  <2>2. \A b \in DOMAIN block' : block'[b] \subseteq 1 .. MaxSequence
    <3>1. batch \subseteq 1 .. MaxSequence
      BY <1>6 DEF RunType
    <3>2. QED
      BY <1>1, <1>3, <3>1 DEF TypeOK
  <2>3. QED
    BY <1>1, <1>3, <2>1, <2>2 DEF TypeOK, ChainInv, RunType
<1>9. RunPromises'
  <2> SUFFICES ASSUME NEW o \in Processes PROVE RunPromise(o)'
    BY DEF RunPromises
  <2>1. CASE o = p
    <3>1. /\ batch \subseteq DOMAIN event
          /\ \A s \in batch : \A t \in Unanchored : t < s => t \in batch
      BY <1>1 DEF RunPromises, RunPromise
    <3>2. QED
      BY <1>1, <1>4, <1>7, <2>1, <3>1 DEF RunPromise
  <2>2. CASE o # p
    <3>1. RunPromise(o) /\ run'[o] = run[o]
      BY <1>7, <2>2 DEF RunPromises
    <3>2. QED
      BY <1>1, <1>4, <3>1 DEF RunPromise
  <2>3. QED
    BY <2>1, <2>2
<1>10. ReferencesAreCovered'
  BY <1>1, <1>4 DEF ReferencesAreCovered
<1>11. QED
  BY <1>1, <1>5, <1>8, <1>9, <1>10

\* Writing references leaves every hash, and so the chain, as it was.
LEMMA ChainInvUnderReferences ==
  ASSUME ChainInv, UNCHANGED <<nextSequence, writer>>,
         DOMAIN event' = DOMAIN event,
         \A s \in DOMAIN event :
           \/ event'[s] = event[s]
           \/ \E b \in Nat : event'[s] = [event[s] EXCEPT !.blockchainTxRef = b]
  PROVE  ChainInv'
<1> USE DEF ChainInv
<1>1. \A s \in DOMAIN event : event[s] \in EventRow
  BY DEF ChainTypeOK
<1>2. \A s \in DOMAIN event :
        /\ event'[s].previousHash = event[s].previousHash
        /\ event'[s].content = event[s].content
        /\ event'[s].currentHash = event[s].currentHash
        /\ event'[s] \in EventRow
  BY <1>1 DEF EventRow
<1>3. Hashes' = Hashes
  BY <1>2 DEF Hashes
<1>4. DOMAIN event \subseteq 1 .. MaxSequence
  BY DEF ChainTypeOK
<1>5. ChainTypeOK'
  BY <1>2, <1>3 DEF ChainTypeOK, EventRow
<1>6. /\ \A S \in SUBSET DOMAIN event : EndOf(event', S) = EndOf(event, S)
      /\ Verifies(event) => Verifies(event')
  BY <1>2, <1>4, ReferencesDoNotMatter
<1>7. LastHash(DOMAIN event)' = LastHash(DOMAIN event)
  BY <1>6 DEF LastHash, EndOf
<1>8. WriterPromises'
  BY <1>7 DEF WriterPromises, WriterPromise
<1>9. OneWriter' /\ NumbersAreTaken'
  BY DEF OneWriter, NumbersAreTaken
<1>10. ChainVerifies'
  <2>1. Verifies(event')
    BY <1>6, EndOfEvents DEF ChainVerifies
  <2>2. QED
    BY <2>1 DEF ChainVerifies, VerifyChain, Verifies, LastHash, EndOf, Before
<1>11. QED
  BY <1>5, <1>8, <1>9, <1>10

LEMMA RecordAnchorStep ==
  ASSUME IInv, NEW p \in Processes, RecordAnchor(p)
  PROVE  IInv'
<1> USE DEF IInv, RollupInv
<1> PICK batch : batch = run[p].events
  OBVIOUS
<1> PICK b : b = run[p].tx
  OBVIOUS
<1>1. /\ run[p].at = "anchored"
      /\ event' = [s \in DOMAIN event |->
                     IF s \in batch \cap Unanchored
                     THEN [event[s] EXCEPT !.blockchainTxRef = b] ELSE event[s]]
      /\ run' = [run EXCEPT ![p] = NoRun]
      /\ nextSequence' = nextSequence /\ writer' = writer
      /\ block' = block /\ failures' = failures
  BY DEF RecordAnchor
<1>2. /\ batch \subseteq DOMAIN event /\ b \in DOMAIN block /\ batch \subseteq block[b]
      /\ \A s \in batch : \A t \in Unanchored : t < s => t \in batch
  BY <1>1 DEF RunPromises, RunPromise
<1>3. b \in Nat /\ b # None
  BY <1>2, AnchoringAssumption DEF BlocksAreCounted
<1>4. /\ DOMAIN event' = DOMAIN event
      /\ \A s \in DOMAIN event : event[s] \in EventRow
      /\ DOMAIN event \subseteq Int /\ Unanchored \subseteq DOMAIN event
  BY <1>1 DEF TypeOK, ChainTypeOK, Unanchored
<1>5. \A s \in DOMAIN event :
        IF s \in batch \cap Unanchored
        THEN /\ event'[s] = [event[s] EXCEPT !.blockchainTxRef = b]
             /\ event'[s].blockchainTxRef = b
        ELSE event'[s] = event[s]
  BY <1>1, <1>4 DEF EventRow
<1>6. ChainInv'
  BY <1>1, <1>3, <1>4, <1>5, ChainInvUnderReferences
<1>7. Unanchored' = Unanchored \ batch
  BY <1>3, <1>4, <1>5 DEF Unanchored
<1>8. DOMAIN run = Processes /\ \A o \in Processes : run'[o] = NoRun \/ run'[o] = run[o]
  BY <1>1 DEF TypeOK
<1>9. TypeOK'
  <2>1. run' \in [Processes -> RunType]
    BY <1>1 DEF TypeOK, RunType, NoRun
  <2>2. QED
    BY <1>1, <1>6, <2>1 DEF TypeOK, ChainInv, RunType
<1>10. BlocksAreCounted'
  BY <1>1 DEF BlocksAreCounted
<1>11. RunPromises'
  <2> SUFFICES ASSUME NEW o \in Processes PROVE RunPromise(o)'
    BY DEF RunPromises
  <2>1. CASE run'[o] = NoRun
    BY <2>1 DEF RunPromise, NoRun
  <2>2. CASE run'[o] = run[o]
    BY <1>1, <1>4, <1>7, <2>2 DEF RunPromises, RunPromise
  <2>3. QED
    BY <1>8, <2>1, <2>2
<1>12. ReferencesAreCovered'
  <2> SUFFICES ASSUME NEW s \in DOMAIN event' \ Unanchored'
               PROVE  /\ event'[s].blockchainTxRef \in DOMAIN block
                      /\ s \in block[event'[s].blockchainTxRef]
    BY <1>1 DEF ReferencesAreCovered
  <2>1. CASE s \in batch \cap Unanchored
    BY <1>2, <1>4, <1>5, <2>1
  <2>2. CASE s \notin batch \cap Unanchored
    BY <1>4, <1>5, <1>7, <2>2 DEF ReferencesAreCovered
  <2>3. QED
    BY <2>1, <2>2
<1>13. AnchoredInOrder'
  <2> SUFFICES ASSUME NEW s \in Unanchored', NEW t \in DOMAIN event' \ Unanchored'
               PROVE  t < s
    BY DEF AnchoredInOrder
  <2>1. s \in Unanchored /\ s \notin batch /\ s \in Int /\ t \in Int /\ t \in DOMAIN event
    BY <1>4, <1>7
  <2>2. CASE t \in Unanchored
    <3>1. t \in batch
      BY <1>7, <2>2
    <3>2. ~ (s < t) /\ s # t
      BY <1>2, <2>1, <3>1
    <3>3. QED
      BY <2>1, <3>2
  <2>3. CASE t \notin Unanchored
    BY <2>1, <2>3 DEF AnchoredInOrder
  <2>4. QED
    BY <2>2, <2>3
<1>14. QED
  BY <1>6, <1>9, <1>10, <1>11, <1>12, <1>13

LEMMA FailRunStep ==
  ASSUME IInv, NEW p \in Processes, FailRun(p)
  PROVE  IInv'
<1> USE DEF IInv, RollupInv
<1>1. /\ run' = [run EXCEPT ![p] = NoRun] /\ block' = block /\ event' = event
      /\ failures' = failures + 1 /\ failures < MaxFailures
      /\ ChainInv' /\ Unanchored' = Unanchored /\ AnchoredInOrder'
  BY ChainInvUnchanged DEF FailRun, chainVars
<1>2. TypeOK'
  <2>1. run' \in [Processes -> RunType]
    BY <1>1 DEF TypeOK, RunType, NoRun
  <2>2. failures' \in 0 .. MaxFailures
    BY <1>1, AnchoringAssumption DEF TypeOK
  <2>3. QED
    BY <1>1, <2>1, <2>2 DEF TypeOK, ChainInv, RunType
<1>3. RunPromises'
  <2> SUFFICES ASSUME NEW o \in Processes PROVE RunPromise(o)'
    BY DEF RunPromises
  <2>1. DOMAIN run = Processes
    BY DEF TypeOK
  <2>2. CASE o = p
    <3>1. run'[o] = NoRun
      BY <1>1, <2>1, <2>2
    <3>2. QED
      BY <3>1 DEF RunPromise, NoRun
  <2>3. CASE o # p
    BY <1>1, <2>1, <2>3 DEF RunPromises, RunPromise
  <2>4. QED
    BY <2>2, <2>3
<1>4. BlocksAreCounted' /\ ReferencesAreCovered'
  BY <1>1 DEF BlocksAreCounted, ReferencesAreCovered
<1>5. QED
  BY <1>1, <1>2, <1>3, <1>4

LEMMA StutterStep == IInv /\ UNCHANGED vars => IInv'
<1> SUFFICES ASSUME IInv, UNCHANGED vars PROVE IInv'
  OBVIOUS
<1> USE DEF IInv, RollupInv
<1>1. ChainInv' /\ Unanchored' = Unanchored /\ AnchoredInOrder'
  BY ChainInvUnchanged DEF vars
<1>2. UNCHANGED <<event, block, run, failures>>
  BY DEF vars, chainVars
<1>3. TypeOK' /\ BlocksAreCounted' /\ ReferencesAreCovered'
  BY <1>1, <1>2 DEF TypeOK, ChainInv, BlocksAreCounted, ReferencesAreCovered
<1>4. RunPromises'
  BY <1>1, <1>2 DEF RunPromises, RunPromise
<1>5. QED
  BY <1>1, <1>3, <1>4

LEMMA NextStep == IInv /\ [Next]_vars => IInv'
<1> SUFFICES ASSUME IInv, [Next]_vars PROVE IInv'
  OBVIOUS
<1>1. CASE ChainNext /\ UNCHANGED <<block, run, failures>>
  <2>1. ChainInv' /\ Appends
    BY <1>1, ChainStep DEF IInv
  <2>2. QED
    BY <1>1, <2>1, RollupInvUnderAppend DEF IInv, ChainInv
<1>2. CASE \E p \in Processes : Rollup(p) \/ FailRun(p)
  BY <1>2, StartRunStep, AnchorHashStep, RecordAnchorStep, FailRunStep DEF Rollup
<1>3. CASE UNCHANGED vars
  BY <1>3, StutterStep
<1>4. QED
  BY <1>1, <1>2, <1>3 DEF Next

LEMMA Inductive == Spec => []IInv
BY InitInv, NextStep, PTL DEF Spec

-----------------------------------------------------------------------------
\* The rows of the chain, the blocks of the ledger and the runs of the
\* processes are well formed, and the blocks are numbered without a gap.
THEOREM AnchoringTypeCorrect == Spec => []TypeOK
<1>1. IInv => TypeOK
  BY DEF IInv, RollupInv
<1>2. QED
  BY <1>1, Inductive, PTL

\* What a step does to the rows: append adds one behind them, recordAnchor
\* writes references where there were none.
LEMMA RowsStep ==
  ASSUME IInv, Next
  PROVE  \/ event' = event
         \/ Appends
         \/ \E p \in Processes : RecordAnchor(p)
<1>1. CASE ChainNext
  BY <1>1, ChainStep DEF IInv
<1>2. CASE \E p \in Processes : Rollup(p) \/ FailRun(p)
  BY <1>2 DEF Rollup, StartRun, AnchorHash, FailRun, chainVars
<1>3. QED
  BY <1>1, <1>2 DEF Next

\* What RowsStep says, row by row.
LEMMA RowsGrow ==
  ASSUME IInv, Next
  PROVE  /\ \A s \in DOMAIN event :
              /\ s \in DOMAIN event'
              /\ [event'[s] EXCEPT !.blockchainTxRef = None]
                   = [event[s] EXCEPT !.blockchainTxRef = None]
              /\ event[s].blockchainTxRef # None =>
                   event'[s].blockchainTxRef = event[s].blockchainTxRef
         /\ \A s \in DOMAIN event' \ DOMAIN event : \A t \in DOMAIN event : t < s
<1>1. CASE event' = event
  BY <1>1
<1>2. CASE Appends /\ event' # event
  <2> PICK q \in 1 .. MaxSequence : \E row \in NewRow : AppendsRow(q, row)
    BY <1>2 DEF Appends
  <2> PICK row \in NewRow : AppendsRow(q, row)
    OBVIOUS
  <2>1. /\ DOMAIN event' = DOMAIN event \cup {q}
        /\ \A s \in DOMAIN event : s # q => event'[s] = event[s]
        /\ \A t \in DOMAIN event : t < q
    BY DEF AppendsRow
  <2>2. \A s \in DOMAIN event : s # q
    BY <2>1 DEF IInv, ChainInv, ChainTypeOK
  <2>3. QED
    BY <2>1, <2>2
<1>3. ASSUME NEW p \in Processes, RecordAnchor(p)
      PROVE  /\ DOMAIN event' = DOMAIN event
             /\ \A s \in DOMAIN event :
                  /\ [event'[s] EXCEPT !.blockchainTxRef = None]
                       = [event[s] EXCEPT !.blockchainTxRef = None]
                  /\ event[s].blockchainTxRef # None =>
                       event'[s].blockchainTxRef = event[s].blockchainTxRef
  <2>1. /\ DOMAIN event' = DOMAIN event
        /\ \A s \in DOMAIN event :
             IF s \in run[p].events \cap Unanchored
             THEN event'[s] = [event[s] EXCEPT !.blockchainTxRef = run[p].tx]
             ELSE event'[s] = event[s]
    BY <1>3 DEF RecordAnchor
  <2>2. ASSUME NEW s \in DOMAIN event
        PROVE  /\ [event'[s] EXCEPT !.blockchainTxRef = None]
                    = [event[s] EXCEPT !.blockchainTxRef = None]
               /\ event[s].blockchainTxRef # None =>
                    event'[s].blockchainTxRef = event[s].blockchainTxRef
    <3>1. event[s] \in EventRow
      BY DEF IInv, ChainInv, ChainTypeOK
    <3>2. CASE s \in run[p].events \cap Unanchored
      BY <2>1, <3>1, <3>2 DEF Unanchored, EventRow
    <3>3. CASE s \notin run[p].events \cap Unanchored
      BY <2>1, <3>3
    <3>4. QED
      BY <3>2, <3>3
  <2>3. QED
    BY <2>1, <2>2
<1>4. QED
  BY <1>1, <1>2, <1>3, RowsStep

\* AuditService.append: whatever transactions interleave, roll back or skip a
\* number, and while references are written, the chain verifies, and grows at
\* its end only.
THEOREM ChainIsSound == Spec => ChainHolds
<1>1. IInv' => ChainVerifies'
  BY DEF IInv, ChainInv
<1>2. IInv /\ [Next]_vars =>
        [/\ \A s \in DOMAIN event :
              s \in DOMAIN event' /\ [event'[s] EXCEPT !.blockchainTxRef = None]
                                       = [event[s] EXCEPT !.blockchainTxRef = None]
         /\ \A s \in DOMAIN event' \ DOMAIN event : \A t \in DOMAIN event : t < s]_event
  <2>1. UNCHANGED vars => UNCHANGED event
    BY DEF vars, chainVars
  <2>2. QED
    BY <2>1, RowsGrow
<1>3. QED
  BY <1>1, <1>2, Inductive, PTL DEF Spec, ChainHolds, GrowsAtItsEnd

\* AnchoringService: with any number of processes and failures at any step, a
\* reference is to a block that holds its event, references are written in the
\* order of the chain, and none is ever written over.
THEOREM ReferencesAreSound == Spec => ReferencesStand
<1>1. IInv => ReferencesAreCovered /\ AnchoredInOrder
  BY DEF IInv, RollupInv
<1>2. IInv /\ [Next]_vars =>
        [\A s \in DOMAIN event :
           event[s].blockchainTxRef # None =>
             event'[s].blockchainTxRef = event[s].blockchainTxRef]_event
  <2>1. UNCHANGED vars => UNCHANGED event
    BY DEF vars, chainVars
  <2>2. QED
    BY <2>1, RowsGrow
<1>3. QED
  BY <1>1, <1>2, Inductive, PTL DEF Spec, ReferencesStand, NeverReanchored

=============================================================================
