------------------------- MODULE TransactionLookup -------------------------
(***************************************************************************)
(* The lookup of a transaction by its id while the indexer replaces the    *)
(* newest blocks by those of another branch.                               *)
(*                                                                         *)
(* A lookup finds a reference to the block of the transaction in the       *)
(* warehouse, checks that block against the metadata, and reads the raw    *)
(* block of its height.  The indexer stores the raw blocks, then their     *)
(* metadata, then their references, deletes what the replaced blocks left  *)
(* in the warehouse and processes the new blocks.  Between two of these    *)
(* steps the stores disagree.                                              *)
(*                                                                         *)
(* One transaction is followed.  Blocks 1 .. Newest are replaced; the      *)
(* transaction may be in one of them on either branch, at any position.    *)
(***************************************************************************)
EXTENDS Integers

CONSTANTS
  Readers,    \* lookups in flight
  Newest,     \* the sync tail
  TxIndexes,  \* positions of the transaction in a block
  FirstTails, \* where the process tail may be at first
  ScanLimit,  \* rawTransactionRefLookupLimit
  NoRef       \* no reference

ASSUME LookupAssumption ==
  /\ Newest \in Nat \ {0} /\ TxIndexes \subseteq Nat /\ FirstTails \subseteq 0 .. Newest
  /\ ScanLimit \in Nat \ {0}

Replaced == 1 .. Newest
Refs(fork) == [fork : {fork}, height : Replaced, index : TxIndexes]

VARIABLES
  place,       \* where each branch has the transaction, or NoRef
  raw,         \* the branch of the raw block of each height
  coreBlocks,  \* the branch of the core_blocks row of each height
  refs,        \* the rows of transaction_refs
  creates,     \* the rows of the created outputs
  outputs,     \* the rows of the current outputs
  processTail, \* the published process tail
  refsReady,   \* whether the index of references was declared complete
  indexerAt,   \* the step the indexer is about to take
  reader       \* what each lookup does and has read

lookupVars == <<place, raw, coreBlocks, refs, creates, outputs, processTail,
                refsReady, indexerAt, reader>>

\* "calm" says that the indexer has not taken a step since the lookup began.
NoRead == [at |-> "idle", ref |-> NoRef, cursor |-> 0, low |-> 0, calm |-> TRUE]

Rows(fork, heights) == {r \in {place[fork]} \ {NoRef} : r.height \in heights}

\* The old branch is stored up to Newest and processed up to the tail.  Raw
\* sync writes the references of the blocks above it, unless it ran before
\* there was an index of them: then the index is not ready.
LookupInit ==
  /\ place \in [{"old", "new"} -> {NoRef} \cup Refs("old") \cup Refs("new")]
  /\ \A fork \in {"old", "new"} : place[fork] # NoRef => place[fork].fork = fork
  /\ raw = [h \in Replaced |-> "old"]
  /\ coreBlocks = [h \in Replaced |-> "old"]
  /\ processTail \in FirstTails
  /\ refsReady \in BOOLEAN
  /\ creates = Rows("old", 1 .. processTail)
  /\ outputs = creates
  /\ refs \in {{}, Rows("old", Replaced)}
  /\ refsReady => Rows("old", processTail + 1 .. Newest) \subseteq refs
  /\ indexerAt = "raw"
  /\ reader = [c \in Readers |-> NoRead]

-----------------------------------------------------------------------------
(* The indexer.                                                            *)

\* Every step of the indexer ends the calm of the lookups under way.
Disturb == reader' = [c \in Readers |-> [reader[c] EXCEPT !.calm = (reader[c] = NoRead)]]

PutRawBlock ==
  /\ indexerAt = "raw"
  /\ \E h \in Replaced :
       /\ raw[h] = "old"
       /\ raw' = [raw EXCEPT ![h] = "new"]
       /\ indexerAt' = IF \A g \in Replaced \ {h} : raw[g] = "new" THEN "blocks" ELSE "raw"
  /\ Disturb
  /\ UNCHANGED <<place, coreBlocks, refs, creates, outputs, processTail, refsReady>>

UpsertBlocks ==
  /\ indexerAt = "blocks"
  /\ coreBlocks' = [h \in Replaced |-> "new"]
  /\ indexerAt' = "refs"
  /\ Disturb
  /\ UNCHANGED <<place, raw, refs, creates, outputs, processTail, refsReady>>

\* Processing notices the other branch by the blocks it has processed.  With
\* none of them replaced it appends the new blocks and rewinds nothing.
Reorganised == processTail >= 1

UpsertRefs ==
  /\ indexerAt = "refs"
  /\ refs' = refs \cup Rows("new", Replaced)
  /\ indexerAt' = IF Reorganised THEN "deleteCreates" ELSE "creates"
  /\ Disturb
  /\ UNCHANGED <<place, raw, coreBlocks, creates, outputs, processTail, refsReady>>

\* deleteCoreDogecoinTail: table by table, the references last.
DeleteCreates ==
  /\ indexerAt = "deleteCreates"
  /\ creates' = {}
  /\ indexerAt' = "deleteRefs"
  /\ Disturb
  /\ UNCHANGED <<place, raw, coreBlocks, refs, outputs, processTail, refsReady>>

RefsAfterRewindKept == refs
RefsAfterRewind == {r \in refs : r.height \notin Replaced}

DeleteRefs ==
  /\ indexerAt = "deleteRefs"
  /\ refs' = RefsAfterRewind
  /\ indexerAt' = "rematerialize"
  /\ Disturb
  /\ UNCHANGED <<place, raw, coreBlocks, creates, outputs, processTail, refsReady>>

\* rematerializeCoreCurrentStateAt: from the created outputs that are left.
Rematerialize ==
  /\ indexerAt = "rematerialize"
  /\ outputs' = creates
  /\ indexerAt' = "creates"
  /\ Disturb
  /\ UNCHANGED <<place, raw, coreBlocks, refs, creates, processTail, refsReady>>

InsertCreates ==
  /\ indexerAt = "creates"
  /\ creates' = Rows("new", Replaced)
  /\ indexerAt' = "outputs"
  /\ Disturb
  /\ UNCHANGED <<place, raw, coreBlocks, refs, outputs, processTail, refsReady>>

UpdateOutputs ==
  /\ indexerAt = "outputs"
  /\ outputs' = Rows("new", Replaced)
  /\ indexerAt' = "publish"
  /\ Disturb
  /\ UNCHANGED <<place, raw, coreBlocks, refs, creates, processTail, refsReady>>

PublishTail ==
  /\ indexerAt = "publish"
  /\ processTail' = Newest
  /\ indexerAt' = "done"
  /\ Disturb
  /\ UNCHANGED <<place, raw, coreBlocks, refs, creates, outputs, refsReady>>

-----------------------------------------------------------------------------
(* The lookup.                                                             *)

ToRead(c, r) ==
  /\ reader' = [reader EXCEPT ![c] = r]
  /\ UNCHANGED <<place, raw, coreBlocks, refs, creates, outputs, processTail,
                 refsReady, indexerAt>>

Found(c, ref) == ToRead(c, [reader[c] EXCEPT !.at = "canonical", !.ref = ref])
AnswerLookup(c, ref) == ToRead(c, [reader[c] EXCEPT !.at = "answered", !.ref = ref])

StartLookup(c) ==
  /\ reader[c].at \in {"idle", "answered"}
  /\ ToRead(c, [NoRead EXCEPT !.at = "indexed"])

\* The rows of the highest version: transactionRefVersion orders by height, then
\* by position.  Rows of equal versions come in any order.
NewestRefs(rows) ==
  {r \in rows : \A o \in rows :
     o.height < r.height \/ (o.height = r.height /\ o.index <= r.index)}

ReadIndexedRef(c) ==
  /\ reader[c].at = "indexed"
  /\ IF refs # {} THEN \E r \in NewestRefs(refs) : Found(c, r)
     ELSE ToRead(c, [reader[c] EXCEPT !.at = "core"])

ReadCoreRef(c) ==
  /\ reader[c].at = "core"
  /\ IF creates # {} THEN \E r \in NewestRefs(creates) : Found(c, r)
     ELSE ToRead(c, [reader[c] EXCEPT !.at = "current"])

\* findRawTransactionRef: below the lowest height that is scanned; only the newest
\* raw blocks are.
ScanLow == IF processTail > Newest - ScanLimit THEN processTail ELSE Newest - ScanLimit

ReadCurrentRef(c) ==
  /\ reader[c].at = "current"
  /\ IF outputs # {} THEN \E r \in NewestRefs(outputs) : Found(c, r)
     ELSE IF refsReady THEN AnswerLookup(c, NoRef)
     ELSE ToRead(c, [reader[c] EXCEPT !.at = "scan", !.cursor = Newest,
                                         !.low = ScanLow])

Holds(fork, height) == place[fork] # NoRef /\ place[fork].height = height

\* findRawTransactionRef: the raw blocks from the sync tail down to the height
\* that was determined when the scan began.
ScanRawBlock(c) ==
  LET h == reader[c].cursor
  IN  /\ reader[c].at = "scan"
      /\ IF h <= reader[c].low THEN AnswerLookup(c, NoRef)
         ELSE IF Holds(raw[h], h)
           THEN ToRead(c, [reader[c] EXCEPT !.at = "load", !.ref = place[raw[h]]])
           ELSE ToRead(c, [reader[c] EXCEPT !.cursor = h - 1])

\* A reference counts only while the metadata knows its block at its height.
CheckCanonical(c) ==
  LET r == reader[c].ref
  IN  /\ reader[c].at = "canonical"
      /\ IF coreBlocks[r.height] = r.fork
           THEN ToRead(c, [reader[c] EXCEPT !.at = "load"])
           ELSE AnswerLookup(c, NoRef)

\* The block is the raw block of the height; the position that of the reference.
LoadBlock(c) ==
  LET r == reader[c].ref
  IN  /\ reader[c].at = "load"
      /\ AnswerLookup(c, IF Holds(raw[r.height], r.height)
                     THEN [r EXCEPT !.fork = raw[r.height]]
                     ELSE NoRef)

-----------------------------------------------------------------------------
LookupNext ==
  \/ PutRawBlock \/ UpsertBlocks \/ UpsertRefs \/ DeleteCreates \/ DeleteRefs
  \/ Rematerialize \/ InsertCreates \/ UpdateOutputs \/ PublishTail
  \/ \E c \in Readers :
       \/ StartLookup(c) \/ ReadIndexedRef(c) \/ ReadCoreRef(c) \/ ReadCurrentRef(c)
       \/ ScanRawBlock(c) \/ CheckCanonical(c) \/ LoadBlock(c)

LookupSpec == LookupInit /\ [][LookupNext]_lookupVars

-----------------------------------------------------------------------------
\* A block that is not processed, has no reference as long as the index of them
\* is incomplete, and is too far below the sync tail to be scanned.
BeyondScan(r) ==
  /\ r # NoRef /\ ~refsReady /\ r \notin refs
  /\ processTail < r.height /\ r.height <= Newest - ScanLimit

\* A lookup that no step of the indexer crosses, before or after the blocks
\* were replaced, answers the one place the stored chain has the transaction
\* at, and finds nothing when the chain does not have it: no store is left
\* with a reference of a replaced block that hides the right one, although
\* references are ordered by height and not by age (transactionRefVersion).
\* Only what is beyond the scan is not found.
CalmLookupsAreRight ==
  \A c \in Readers :
    reader[c].at = "answered" /\ reader[c].calm /\ indexerAt \in {"raw", "done"} =>
      LET fork == IF indexerAt = "done" THEN "new" ELSE "old"
      IN  (\A h \in Replaced : raw[h] = fork) =>
            \/ reader[c].ref = place[fork]
            \/ reader[c].ref = NoRef /\ BeyondScan(place[fork])
=============================================================================
