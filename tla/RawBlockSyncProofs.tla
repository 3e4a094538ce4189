------------------------- MODULE RawBlockSyncProofs -------------------------
(***************************************************************************)
(* What is proved, for every value of the constants, of how blocks get     *)
(* into the stores, of the stores they get into and of how they are read   *)
(* back: a recorded sync tail covers only blocks that are stored, have     *)
(* metadata and are indexed, however batches fail, are retried or run on   *)
(* beside later calls; whatever boots and dies beside whatever else, who   *)
(* serves has its schema, and the read models miss no row and double only  *)
(* those that two statements were inserting at once; and the read-ahead    *)
(* of the backfill keeps its bounds and answers every wait. The three      *)
(* share no state.                                                         *)
(***************************************************************************)
EXTENDS RawBlockSync, SchemaMigrations, BlockPrefetcher, SequenceTheorems, FiniteSetTheorems,
        WellFoundedInduction, TLAPS

Complete == raw \cap blockRows \cap indexed

Batch == [call : Nat, start : Nat, end : Nat, attempt : Nat,
          at : {"fetch", "store", "meta", "refs", "done"}, left : SUBSET Nat]

SyncTypeOK ==
  /\ syncTail \in -1 .. SyncTop /\ call \in Nat /\ active \in BOOLEAN
  /\ syncFirst \in Nat /\ syncCursor \in Nat /\ frontier \in -1 .. SyncTop
  /\ concurrency \in Nat \ {0} /\ streak \in Nat
  /\ jobs \subseteq Batch

(***************************************************************************)
(* A batch has stored what its step says, and never leaves the window; no  *)
(* batch is of a call to come.                                             *)
(***************************************************************************)
BatchHolds(j) ==
  /\ j.call <= call /\ j.end <= SyncTop
  /\ j.at = "store" => HeightsIn(j) \ j.left \subseteq raw
  /\ j.at \in {"meta", "refs", "done"} => HeightsIn(j) \subseteq raw
  /\ j.at \in {"refs", "done"} => HeightsIn(j) \subseteq blockRows
  /\ j.at = "done" => HeightsIn(j) \subseteq indexed

(***************************************************************************)
(* What is below the tail and below the frontier is complete; the batches  *)
(* of a round leave no gap above the frontier, and without a round the     *)
(* frontier has reached the cursor.                                        *)
(***************************************************************************)
SyncInv ==
  /\ \A j \in jobs : BatchHolds(j)
  /\ 0 .. syncTail \subseteq Complete
  /\ active => 0 .. frontier \subseteq Complete
  /\ active /\ Mine = {} => frontier >= syncCursor - 1
  /\ active /\ Mine # {} =>
       \A h \in frontier + 1 .. SyncTop : h < syncCursor => h \in Completed

-----------------------------------------------------------------------------
(***************************************************************************)
(* A set of natural numbers has a least element ...                        *)
(***************************************************************************)
LEMMA LeastOf ==
  ASSUME NEW S, S \subseteq Nat, S # {}
  PROVE  \E m \in S : \A k \in S : m <= k
<1>1. PICK x \in S : \A y \in S : ~ (<<y, x>> \in OpToRel(<, Nat))
  BY WFMin, NatLessThanWellFounded
<1>2. \A y \in S : ~ (y < x)
  BY <1>1 DEF OpToRel
<1> QED BY <1>2

(***************************************************************************)
(* ... and one of integers with a bound a greatest one: the end of what    *)
(* is contiguous, the batch that holds a height.                           *)
(***************************************************************************)
LEMMA GreatestOf ==
  ASSUME NEW n \in Int, NEW S, S \subseteq Int, S # {}, \A s \in S : s <= n
  PROVE  \E m \in S : \A k \in S : k <= m
<1> DEFINE D == {n - s : s \in S}
<1>1. D \subseteq Nat
  <2>1. \A s \in S : n - s \in Nat OBVIOUS
  <2> QED BY <2>1
<1>2. D # {}
  <2>1. PICK s \in S : TRUE OBVIOUS
  <2>2. n - s \in D BY <2>1
  <2> QED BY <2>2
<1>3. PICK d \in D : \A k \in D : d <= k
  <2> HIDE DEF D
  <2> QED BY <1>1, <1>2, LeastOf
<1>4. PICK m \in S : d = n - m OBVIOUS
<1>5. \A k \in S : n - m <= n - k BY <1>3, <1>4
<1> QED BY <1>5

(***************************************************************************)
(* The batches of a round cover every height from the cursor to the next   *)
(* one: consecutive batches, as many as the concurrency, leave no gap      *)
(* (chunk and slice).                                                      *)
(***************************************************************************)
LEMMA RoundCovers ==
  ASSUME NEW cursor \in Nat, NEW count \in Nat \ {0}, NEW size \in Nat \ {0},
         NEW h \in Nat, cursor <= h, h < cursor + count * size
  PROVE  \E n \in 0 .. count - 1 :
           cursor + n * size <= h /\ h <= cursor + n * size + size - 1
<1> DEFINE S == {n \in 0 .. count - 1 : cursor + n * size <= h}
<1>1. 0 \in S
  OBVIOUS
<1>2. PICK n \in S : \A k \in S : k <= n
  <2>1. S \subseteq Int /\ (\A s \in S : s <= count - 1) /\ count - 1 \in Int
    OBVIOUS
  <2> HIDE DEF S
  <2> QED BY <1>1, <2>1, GreatestOf
<1>3. n \in 0 .. count - 1 /\ n * size \in Nat /\ (n + 1) * size = n * size + size
  OBVIOUS
<1>4. CASE n = count - 1
  <2>1. count * size = n * size + size
    BY <1>3, <1>4
  <2> QED BY <1>2, <1>3, <2>1
<1>5. CASE n # count - 1
  <2>1. n + 1 \in 0 .. count - 1 /\ n + 1 \notin S
    BY <1>2, <1>3, <1>5
  <2>2. ~(cursor + (n + 1) * size <= h)
    BY <2>1
  <2>3. cursor + n * size <= h
    BY <1>2
  <2>4. h <= cursor + n * size + size - 1
    BY <1>3, <2>2
  <2> QED BY <1>3, <2>3, <2>4
<1> QED BY <1>4, <1>5

(***************************************************************************)
(* The frontier exists: markCompleted stops at the first height that is    *)
(* not complete.                                                           *)
(***************************************************************************)
LEMMA FrontierExists ==
  ASSUME SyncTypeOK, \A j \in jobs : BatchHolds(j)
  PROVE  /\ NextFrontier \in frontier .. SyncTop
         /\ \A h \in frontier + 1 .. NextFrontier : h \in Completed
         /\ NextFrontier + 1 \notin Completed
<1> DEFINE S == {f \in frontier .. SyncTop : \A h \in frontier + 1 .. f : h \in Completed}
<1>1. frontier \in S
  BY SyncConstants DEF SyncTypeOK
<1>2. PICK m \in S : \A k \in S : k <= m
  <2>1. S \subseteq Int /\ (\A s \in S : s <= SyncTop) /\ SyncTop \in Int
    BY SyncConstants DEF SyncTypeOK
  <2> HIDE DEF S
  <2> QED BY <1>1, <2>1, GreatestOf
<1>3. m \in Int /\ frontier \in Int
  BY SyncConstants DEF SyncTypeOK
<1>4. m + 1 \notin Completed
  <2>1. CASE m = SyncTop
    <3>1. \A j \in Mine : j.end \in Nat /\ j.start \in Nat /\ j.end <= SyncTop
      BY DEF Mine, BatchHolds, SyncTypeOK, Batch
    <3> QED BY <2>1, <3>1, SyncConstants DEF Completed, HeightsIn
  <2>2. CASE m # SyncTop
    <3>1. m + 1 \notin S /\ m + 1 \in frontier .. SyncTop
      BY <1>2, <1>3, <2>2, SyncConstants
    <3>2. \A h \in frontier + 1 .. m + 1 : h = m + 1 \/ h \in frontier + 1 .. m
      BY <1>3
    <3> QED BY <1>2, <3>1, <3>2
  <2> QED BY <2>1, <2>2
<1> QED BY <1>2, <1>4 DEF NextFrontier

-----------------------------------------------------------------------------
(***************************************************************************)
(* The first state has the types and stores nothing.                       *)
(***************************************************************************)
LEMMA SyncStart == SyncInit => SyncTypeOK /\ SyncInv
<1> SUFFICES ASSUME SyncInit PROVE SyncTypeOK /\ SyncInv
  OBVIOUS
<1>1. SyncTypeOK
  <2>1. /\ syncTail = -1 /\ call = 0 /\ syncFirst = 0 /\ syncCursor = 0 /\ frontier = -1
        /\ concurrency = MaxConcurrency /\ streak = 0 /\ jobs = {}
    BY DEF SyncInit
  <2>2. active \in BOOLEAN
    BY DEF SyncInit
  <2> QED BY <2>1, <2>2, SyncConstants DEF SyncTypeOK
<1>2. SyncInv
  BY DEF SyncInit, SyncInv, Mine
<1> QED BY <1>1, <1>2

(***************************************************************************)
(* The concurrency stays between one and its limit, whatever succeeds or   *)
(* fails (clampConcurrency).                                               *)
(***************************************************************************)
LEMMA ClampType ==
  ASSUME NEW n \in Int
  PROVE  Clamp(n) \in Nat \ {0}
BY SyncConstants DEF Clamp, Larger, Smaller

(***************************************************************************)
(* A batch that goes on as another one of the same call and the same       *)
(* heights keeps what the round covers and keeps the round open.           *)
(***************************************************************************)
LEMMA BatchGoesOn ==
  ASSUME NEW j \in jobs, NEW k, call' = call, Becomes(j, k),
         k.call = j.call, k.start = j.start, k.end = j.end
  PROVE  Completed' = Completed /\ (Mine' = {} <=> Mine = {})
<1>1. jobs' = (jobs \ {j}) \cup {k}
  BY DEF Becomes
<1>2. \A i \in Mine : \E l \in Mine' : HeightsIn(l) = HeightsIn(i)
  BY <1>1 DEF Mine, HeightsIn
<1>3. \A l \in Mine' : \E i \in Mine : HeightsIn(l) = HeightsIn(i)
  BY <1>1 DEF Mine, HeightsIn
<1>4. Completed' = UNION {HeightsIn(l) : l \in Mine'}
  BY DEF Completed, HeightsIn
<1> QED BY <1>2, <1>3, <1>4 DEF Completed

(***************************************************************************)
(* A call starts at or below the height above the tail, so its frontier is *)
(* complete before any of its batches runs.                                *)
(***************************************************************************)
LEMMA StartCallStep ==
  ASSUME SyncTypeOK, SyncInv, StartCall
  PROVE  SyncTypeOK' /\ SyncInv'
<1> USE SyncConstants DEF SyncTypeOK
<1> DEFINE back == Larger(0, Smaller(syncTail + 1, SyncTop - RefreshDepth + 1))
<1>a. PICK first \in {syncTail + 1, back} :
        /\ syncFirst' = first /\ syncCursor' = first /\ frontier' = first - 1
        /\ syncTail < SyncTop /\ call' = call + 1
        /\ UNCHANGED <<syncTail, jobs, concurrency, streak>>
  BY DEF StartCall
<1>b. active' \in BOOLEAN
  BY DEF StartCall
<1>1. first \in Nat /\ first <= syncTail + 1
  <2>1. back \in Nat /\ back <= syncTail + 1
    BY <1>a DEF Larger, Smaller
  <2> QED BY <1>a, <2>1
<1> HIDE DEF back
<1>2. Mine' = {}
  BY DEF StartCall, Mine, SyncInv, BatchHolds, Batch
<1>3. SyncTypeOK'
  BY <1>1, <1>a, <1>b
<1>4. \A j \in jobs' : BatchHolds(j)'
  <2> SUFFICES ASSUME NEW j \in jobs PROVE BatchHolds(j)'
    BY DEF StartCall
  <2> QED BY DEF StartCall, stores, SyncInv, BatchHolds, HeightsIn, Batch
<1>5. 0 .. frontier' \subseteq Complete
  <2>1. 0 .. syncTail \subseteq Complete
    BY DEF SyncInv
  <2> QED BY <1>1, <1>a, <2>1
<1>6. Complete' = Complete
  BY DEF StartCall, stores, Complete
<1>7. frontier' >= syncCursor' - 1
  BY <1>1, <1>a
<1> QED BY <1>2, <1>3, <1>4, <1>5, <1>6, <1>7 DEF StartCall, SyncInv

(***************************************************************************)
(* The batches of a round are those of the heights from the cursor to its  *)
(* new place (chunk and slice).                                            *)
(***************************************************************************)
LEMMA StartRoundStep ==
  ASSUME SyncTypeOK, SyncInv, StartRound
  PROVE  SyncTypeOK' /\ SyncInv'
<1> USE SyncConstants DEF SyncTypeOK
<1> DEFINE starts == {s \in syncCursor .. SyncTop : \E n \in 0 .. concurrency - 1 :
                        s = syncCursor + n * BatchSize}
           batch(s) == [call |-> call, start |-> s, end |-> Smaller(SyncTop, s + BatchSize - 1),
                        attempt |-> 1, at |-> "fetch", left |-> {}]
<1>1. /\ jobs' = jobs \cup {batch(s) : s \in starts}
      /\ syncCursor' = syncCursor + concurrency * BatchSize
  BY DEF StartRound
<1>2. concurrency * BatchSize \in Nat
  OBVIOUS
<1>3. \A s \in starts : batch(s) \in Batch
  <2> SUFFICES ASSUME NEW s \in starts PROVE batch(s) \in Batch
    OBVIOUS
  <2>1. s \in syncCursor .. SyncTop
    OBVIOUS
  <2> HIDE DEF starts
  <2>2. s \in Nat /\ Smaller(SyncTop, s + BatchSize - 1) \in Nat
    BY <2>1 DEF Smaller
  <2> QED BY <2>2 DEF Batch
<1>4. SyncTypeOK'
  <2> HIDE DEF starts, batch
  <2>1. jobs' \subseteq Batch
    BY <1>1, <1>3
  <2>2. syncCursor' \in Nat
    BY <1>1, <1>2
  <2>3. UNCHANGED <<syncTail, call, active, syncFirst, frontier, concurrency, streak>>
    BY DEF StartRound
  <2> QED BY <2>1, <2>2, <2>3
<1>5. \A j \in jobs' : BatchHolds(j)'
  <2> SUFFICES ASSUME NEW j \in jobs' PROVE BatchHolds(j)'
    OBVIOUS
  <2>1. CASE j \in jobs
    BY <2>1 DEF StartRound, stores, SyncInv, BatchHolds, HeightsIn
  <2>2. ASSUME NEW s \in starts, j = batch(s) PROVE BatchHolds(j)'
    BY <2>2 DEF StartRound, BatchHolds, Smaller
  <2> QED BY <1>1, <2>1, <2>2
<1>6. Mine' = {batch(s) : s \in starts}
  <2>1. call' = call /\ \A j \in jobs : j.call # call
    BY DEF StartRound, Mine
  <2>2. \A s \in starts : batch(s).call = call
    OBVIOUS
  <2> HIDE DEF starts, batch
  <2> QED BY <1>1, <2>1, <2>2 DEF Mine
<1>7. ASSUME NEW h \in frontier' + 1 .. SyncTop, h < syncCursor' PROVE h \in Completed'
  <2>1. h \in Nat /\ syncCursor <= h /\ h < syncCursor + concurrency * BatchSize
    BY <1>1, <1>7 DEF StartRound, SyncInv
  <2>2. PICK n \in 0 .. concurrency - 1 :
          syncCursor + n * BatchSize <= h /\ h <= syncCursor + n * BatchSize + BatchSize - 1
    BY <2>1, RoundCovers
  <2> DEFINE s == syncCursor + n * BatchSize
  <2>3. n * BatchSize \in Nat
    OBVIOUS
  <2>4. s \in starts
    BY <2>1, <2>2, <2>3
  <2>5. s \in Nat /\ s <= h /\ h <= s + BatchSize - 1
    BY <2>2, <2>3
  <2>6. batch(s) \in Mine'
    BY <1>6, <2>4
  <2> HIDE DEF s
  <2>7. h \in batch(s).start .. batch(s).end
    BY <2>1, <2>5 DEF Smaller
  <2> QED BY <2>6, <2>7 DEF Completed, HeightsIn
<1>8. Mine' # {}
  <2>1. syncCursor \in starts
    <3>1. 0 \in 0 .. concurrency - 1 /\ syncCursor = syncCursor + 0 * BatchSize
      OBVIOUS
    <3> QED BY <3>1 DEF StartRound
  <2> QED BY <1>6, <2>1
<1>9. Complete' = Complete
  BY DEF StartRound, stores, Complete
<1> QED BY <1>4, <1>5, <1>7, <1>8, <1>9 DEF StartRound, SyncInv

(***************************************************************************)
(* What the steps of a batch have in common: the stores only grow, the     *)
(* batch goes on as one of the same heights that has stored what its step  *)
(* says, and nothing else of the call changes.                             *)
(***************************************************************************)
LEMMA BatchStep ==
  ASSUME SyncTypeOK, SyncInv, NEW j \in jobs, NEW k \in Batch, Becomes(j, k),
         k.call = j.call, k.start = j.start, k.end = j.end, BatchHolds(k)',
         raw \subseteq raw', blockRows \subseteq blockRows', indexed \subseteq indexed',
         UNCHANGED <<syncTail, call, active, syncFirst, syncCursor, frontier>>,
         concurrency' \in Nat \ {0}, streak' \in Nat
  PROVE  SyncTypeOK' /\ SyncInv'
<1>1. jobs' = (jobs \ {j}) \cup {k}
  BY DEF Becomes
<1>2. SyncTypeOK'
  BY <1>1 DEF SyncTypeOK
<1>3. \A i \in jobs' : BatchHolds(i)'
  <2> SUFFICES ASSUME NEW i \in jobs PROVE BatchHolds(i)'
    BY <1>1
  <2>1. BatchHolds(i)
    BY DEF SyncInv
  <2> QED BY <2>1 DEF BatchHolds, HeightsIn
<1>4. Complete \subseteq Complete'
  BY DEF Complete
<1>5. Completed' = Completed /\ (Mine' = {} <=> Mine = {})
  BY BatchGoesOn
<1> QED BY <1>2, <1>3, <1>4, <1>5 DEF SyncInv

(***************************************************************************)
(* Every block asked for has arrived; none is stored yet                   *)
(* (getBlockSnapshots).                                                    *)
(***************************************************************************)
LEMMA FetchStep ==
  ASSUME SyncTypeOK, SyncInv, NEW j \in jobs, Fetch(j)
  PROVE  SyncTypeOK' /\ SyncInv'
<1> DEFINE k == [j EXCEPT !.at = "store", !.left = HeightsIn(j)]
<1>1. j \in Batch /\ BatchHolds(j)
  BY DEF SyncTypeOK, SyncInv
<1>2. k \in Batch /\ k.call = j.call /\ k.start = j.start /\ k.end = j.end
  <2>1. HeightsIn(j) \in SUBSET Nat
    BY <1>1 DEF Batch, HeightsIn
  <2> QED BY <1>1, <2>1 DEF Batch
<1>3. BatchHolds(k)'
  BY <1>1 DEF Batch, Fetch, BatchHolds, HeightsIn
<1>4. /\ Becomes(j, k)
      /\ UNCHANGED <<raw, blockRows, indexed, syncTail, call, active, syncFirst, syncCursor,
                     frontier, concurrency, streak>>
  BY DEF Fetch, stores
<1>5. concurrency' \in Nat \ {0} /\ streak' \in Nat
  BY <1>4 DEF SyncTypeOK
<1> HIDE DEF k
<1> QED BY <1>2, <1>3, <1>4, <1>5, BatchStep

(***************************************************************************)
(* A snapshot is stored; with the last one the batch turns to its metadata *)
(* (storeSnapshot).                                                        *)
(***************************************************************************)
LEMMA StoreStep ==
  ASSUME SyncTypeOK, SyncInv, NEW j \in jobs, Store(j)
  PROVE  SyncTypeOK' /\ SyncInv'
<1>1. j \in Batch /\ BatchHolds(j) /\ j.at = "store"
  BY DEF SyncTypeOK, SyncInv, Store
<1>2. PICK h \in j.left :
        /\ raw' = raw \cup {h}
        /\ Becomes(j, [j EXCEPT !.left = @ \ {h},
                                !.at = IF j.left = {h} THEN "meta" ELSE @])
  BY DEF Store
<1> DEFINE k == [j EXCEPT !.left = @ \ {h}, !.at = IF j.left = {h} THEN "meta" ELSE @]
<1>3. /\ k \in Batch /\ k.call = j.call /\ k.start = j.start /\ k.end = j.end
      /\ k.left = j.left \ {h} /\ k.at = IF j.left = {h} THEN "meta" ELSE "store"
  BY <1>1 DEF Batch
<1>4. UNCHANGED <<blockRows, indexed, syncTail, call, active, syncFirst, syncCursor,
                  frontier, concurrency, streak>>
  BY DEF Store
<1>5. concurrency' \in Nat \ {0} /\ streak' \in Nat
  BY <1>4 DEF SyncTypeOK
<1>6. Becomes(j, k)
  BY <1>2
<1> HIDE DEF k
<1>7. BatchHolds(k)'
  BY <1>1, <1>2, <1>3, <1>4 DEF BatchHolds, HeightsIn
<1> QED BY <1>2, <1>3, <1>4, <1>5, <1>6, <1>7, BatchStep

(***************************************************************************)
(* The metadata of all heights of a batch is written at once               *)
(* (upsertCoreBlocks).                                                     *)
(***************************************************************************)
LEMMA MetaStep ==
  ASSUME SyncTypeOK, SyncInv, NEW j \in jobs, UpsertCoreBlocks(j)
  PROVE  SyncTypeOK' /\ SyncInv'
<1> DEFINE k == [j EXCEPT !.at = "refs"]
<1>1. j \in Batch /\ BatchHolds(j) /\ j.at = "meta"
  BY DEF SyncTypeOK, SyncInv, UpsertCoreBlocks
<1>2. k \in Batch /\ k.call = j.call /\ k.start = j.start /\ k.end = j.end /\ k.at = "refs"
  BY <1>1 DEF Batch
<1>3. /\ Becomes(j, k) /\ blockRows' = blockRows \cup HeightsIn(j)
      /\ UNCHANGED <<raw, indexed, syncTail, call, active, syncFirst, syncCursor,
                     frontier, concurrency, streak>>
  BY DEF UpsertCoreBlocks
<1> HIDE DEF k
<1>4. BatchHolds(k)'
  BY <1>1, <1>2, <1>3 DEF BatchHolds, HeightsIn
<1>5. concurrency' \in Nat \ {0} /\ streak' \in Nat
  BY <1>3 DEF SyncTypeOK
<1> QED BY <1>2, <1>3, <1>4, <1>5, BatchStep

(***************************************************************************)
(* Batches that go, of an earlier call or of a call that goes with them,   *)
(* take nothing back from the stores.                                      *)
(***************************************************************************)
LEMMA BatchesLeave ==
  ASSUME SyncTypeOK, SyncInv, jobs' \subseteq jobs,
         raw \subseteq raw', blockRows \subseteq blockRows', indexed \subseteq indexed',
         UNCHANGED <<syncTail, call, syncFirst, syncCursor, frontier>>,
         active' \in BOOLEAN, active' => active /\ Mine' = Mine,
         concurrency' \in Nat \ {0}, streak' \in Nat
  PROVE  SyncTypeOK' /\ SyncInv'
<1>1. SyncTypeOK'
  BY DEF SyncTypeOK
<1>2. \A i \in jobs' : BatchHolds(i)'
  <2> SUFFICES ASSUME NEW i \in jobs PROVE BatchHolds(i)'
    OBVIOUS
  <2>1. BatchHolds(i)
    BY DEF SyncInv
  <2> QED BY <2>1 DEF BatchHolds, HeightsIn
<1>3. Complete \subseteq Complete'
  BY DEF Complete
<1>4. active' => Completed' = Completed
  BY DEF Completed, HeightsIn
<1> QED BY <1>1, <1>2, <1>3, <1>4 DEF SyncInv

(***************************************************************************)
(* The last write of a batch: its transactions are indexed, and the batch  *)
(* is done; one that outlived its call is no longer waited for             *)
(* (upsertTransactionRefs, recordSuccess).                                 *)
(***************************************************************************)
LEMMA RefsStep ==
  ASSUME SyncTypeOK, SyncInv, NEW j \in jobs, UpsertTransactionRefs(j)
  PROVE  SyncTypeOK' /\ SyncInv'
<1> DEFINE k == [j EXCEPT !.at = "done"]
<1>1. j \in Batch /\ BatchHolds(j) /\ j.at = "refs"
  BY DEF SyncTypeOK, SyncInv, UpsertTransactionRefs
<1>2. k \in Batch /\ k.call = j.call /\ k.start = j.start /\ k.end = j.end /\ k.at = "done"
  BY <1>1 DEF Batch
<1>3. /\ indexed' = indexed \cup HeightsIn(j) /\ RecordSuccess
      /\ IF j \in Mine THEN Becomes(j, k) ELSE jobs' = jobs \ {j}
      /\ UNCHANGED <<raw, blockRows, syncTail, call, active, syncFirst, syncCursor, frontier>>
  BY DEF UpsertTransactionRefs
<1> HIDE DEF k
<1>4. concurrency' \in Nat \ {0} /\ streak' \in Nat
  BY <1>3, ClampType DEF SyncTypeOK, RecordSuccess
<1>5. CASE j \in Mine
  <2>1. BatchHolds(k)'
    BY <1>1, <1>2, <1>3 DEF BatchHolds, HeightsIn
  <2> QED BY <1>2, <1>3, <1>4, <1>5, <2>1, BatchStep
<1>6. CASE j \notin Mine
  <2>1. Mine' = Mine
    BY <1>3, <1>6 DEF Mine
  <2>2. active' \in BOOLEAN
    BY <1>3 DEF SyncTypeOK
  <2> QED BY <1>3, <1>4, <1>6, <2>1, <2>2, BatchesLeave
<1> QED BY <1>5, <1>6

(***************************************************************************)
(* A batch that fails keeps what it stored and starts over, or ends its    *)
(* call: nothing is reported then (withRetry, recordFailure).              *)
(***************************************************************************)
LEMMA FailStep ==
  ASSUME SyncTypeOK, SyncInv, NEW j \in jobs, BatchFails(j)
  PROVE  SyncTypeOK' /\ SyncInv'
<1> DEFINE k == [j EXCEPT !.attempt = @ + 1, !.at = "fetch", !.left = {}]
<1>1. j \in Batch /\ BatchHolds(j)
  BY DEF SyncTypeOK, SyncInv
<1>2. k \in Batch /\ k.call = j.call /\ k.start = j.start /\ k.end = j.end /\ k.at = "fetch"
  <2>1. j.attempt + 1 \in Nat /\ {} \in SUBSET Nat
    BY <1>1 DEF Batch
  <2> QED BY <1>1, <2>1 DEF Batch
<1>3. /\ raw \subseteq raw' /\ RecordFailure
      /\ UNCHANGED <<blockRows, indexed, syncTail, call, syncFirst, syncCursor, frontier>>
  BY DEF BatchFails
<1>4. \/ Becomes(j, k) /\ UNCHANGED active
      \/ /\ jobs' = {i \in jobs \ {j} : j \notin Mine \/ i.at # "done"}
         /\ active' = IF j \in Mine THEN FALSE ELSE active
  BY DEF BatchFails
<1> HIDE DEF k
<1>5. concurrency' \in Nat \ {0} /\ streak' \in Nat
  BY <1>3, ClampType DEF SyncTypeOK, RecordFailure
<1>6. CASE Becomes(j, k) /\ UNCHANGED active
  <2>1. BatchHolds(k)'
    BY <1>1, <1>2, <1>3 DEF BatchHolds
  <2> QED BY <1>2, <1>3, <1>5, <1>6, <2>1, BatchStep
<1>7. CASE /\ jobs' = {i \in jobs \ {j} : j \notin Mine \/ i.at # "done"}
           /\ active' = IF j \in Mine THEN FALSE ELSE active
  <2>1. jobs' \subseteq jobs /\ active' \in BOOLEAN
    BY <1>7 DEF SyncTypeOK
  <2>2. active' => active /\ Mine' = Mine
    BY <1>3, <1>7 DEF Mine
  <2> QED BY <1>3, <1>5, <2>1, <2>2, BatchesLeave
<1> QED BY <1>4, <1>6, <1>7

(***************************************************************************)
(* A round whose batches are all done reports no height that is not        *)
(* complete, and the last one reports the end of the window                *)
(* (markCompleted, checkpointSyncTail).                                    *)
(***************************************************************************)
LEMMA RoundDoneStep ==
  ASSUME SyncTypeOK, SyncInv, RoundDone
  PROVE  SyncTypeOK' /\ SyncInv'
<1> DEFINE f == NextFrontier
<1>1. /\ f \in frontier .. SyncTop /\ f + 1 \notin Completed
      /\ \A h \in frontier + 1 .. f : h \in Completed
  BY FrontierExists DEF SyncInv
<1>2. /\ frontier' = f /\ jobs' = jobs \ Mine
      /\ syncTail' = IF syncCursor > SyncTop THEN SyncTop ELSE RecordedTail(f)
      /\ UNCHANGED <<stores, call, syncFirst, syncCursor, concurrency, streak>>
  BY DEF RoundDone
<1>3. active' = (syncCursor <= SyncTop) /\ active /\ \A j \in Mine : j.at = "done"
  BY DEF RoundDone
<1> HIDE DEF f
<1>4. Mine' = {}
  BY <1>2 DEF Mine
<1>5. Completed \subseteq Complete
  BY <1>3 DEF Completed, Complete, Mine, SyncInv, BatchHolds
<1>6. \A h \in frontier + 1 .. SyncTop : h < syncCursor => h \in Completed
  BY <1>3 DEF SyncInv, RoundDone
<1>7. f \in -1 .. SyncTop /\ frontier \in Int /\ syncCursor \in Nat /\ syncTail \in -1 .. SyncTop
  BY <1>1, SyncConstants DEF SyncTypeOK
<1>8. f >= SyncTop \/ f >= syncCursor - 1
  <2> SUFFICES ASSUME f + 1 <= SyncTop, f + 1 < syncCursor PROVE FALSE
    BY <1>7, SyncConstants
  <2>1. f + 1 \in frontier + 1 .. SyncTop
    BY <1>1, <1>7, SyncConstants
  <2> QED BY <1>1, <1>6, <2>1
<1>9. 0 .. f \subseteq Complete
  <2> SUFFICES ASSUME NEW h \in 0 .. f PROVE h \in Complete
    OBVIOUS
  <2>1. h \in 0 .. frontier \/ h \in frontier + 1 .. f
    BY <1>1, <1>7
  <2> QED BY <1>1, <1>3, <1>5, <2>1 DEF SyncInv
<1>10. PICK t \in -1 .. SyncTop : syncTail' = t /\ 0 .. t \subseteq Complete
  <2>1. CASE syncCursor > SyncTop
    <3>1. f = SyncTop
      BY <1>1, <1>7, <1>8, <2>1, SyncConstants
    <3> QED BY <1>2, <1>7, <1>9, <2>1, <3>1
  <2>2. CASE ~(syncCursor > SyncTop)
    BY <1>2, <1>7, <1>9, <2>2 DEF RecordedTail, SyncInv
  <2> QED BY <2>1, <2>2
<1>11. SyncTypeOK'
  <2>1. active' \in BOOLEAN
    BY <1>3
  <2> QED BY <1>2, <1>7, <1>10, <2>1 DEF SyncTypeOK
<1>12. \A j \in jobs' : BatchHolds(j)'
  BY <1>2 DEF stores, SyncInv, BatchHolds, HeightsIn
<1>13. Complete' = Complete
  BY <1>2 DEF stores, Complete
<1>14. active' => frontier' >= syncCursor' - 1
  <2>1. syncCursor <= SyncTop => f >= syncCursor - 1
    BY <1>7, <1>8, SyncConstants
  <2>2. active' => frontier' >= syncCursor - 1
    BY <1>2, <1>3, <2>1
  <2> QED BY <1>2, <2>2
<1> QED BY <1>2, <1>4, <1>9, <1>10, <1>11, <1>12, <1>13, <1>14 DEF SyncInv

(***************************************************************************)
(* Every step keeps the invariant.                                         *)
(***************************************************************************)
LEMMA SyncInvariance ==
  ASSUME SyncTypeOK, SyncInv, [SyncNext]_syncVars
  PROVE  SyncTypeOK' /\ SyncInv'
<1>1. CASE StartCall BY <1>1, StartCallStep
<1>2. CASE StartRound BY <1>2, StartRoundStep
<1>3. ASSUME NEW j \in jobs, Fetch(j) PROVE SyncTypeOK' /\ SyncInv'
  BY <1>3, FetchStep
<1>4. ASSUME NEW j \in jobs, Store(j) PROVE SyncTypeOK' /\ SyncInv'
  BY <1>4, StoreStep
<1>5. ASSUME NEW j \in jobs, UpsertCoreBlocks(j) PROVE SyncTypeOK' /\ SyncInv'
  BY <1>5, MetaStep
<1>6. ASSUME NEW j \in jobs, UpsertTransactionRefs(j) PROVE SyncTypeOK' /\ SyncInv'
  BY <1>6, RefsStep
<1>7. CASE RoundDone BY <1>7, RoundDoneStep
<1>8. ASSUME NEW j \in jobs, BatchFails(j) PROVE SyncTypeOK' /\ SyncInv'
  BY <1>8, FailStep
<1>9. CASE UNCHANGED syncVars
  <2>1. SyncTypeOK'
    BY <1>9 DEF syncVars, stores, SyncTypeOK
  <2>2. Mine' = Mine /\ Completed' = Completed /\ Complete' = Complete
    BY <1>9 DEF syncVars, stores, Mine, Completed, Complete, HeightsIn
  <2>3. \A j \in jobs' : BatchHolds(j)'
    BY <1>9 DEF syncVars, stores, SyncInv, BatchHolds, HeightsIn
  <2> QED BY <1>9, <2>1, <2>2, <2>3 DEF syncVars, stores, SyncInv
<1> QED BY <1>1, <1>2, <1>3, <1>4, <1>5, <1>6, <1>7, <1>8, <1>9 DEF SyncNext, SyncStep, JobStep

-----------------------------------------------------------------------------
(***************************************************************************)
(* The behaviours of raw sync; what is proved holds without any fairness.  *)
(***************************************************************************)
SyncSpec == SyncInit /\ [][SyncNext]_syncVars

(***************************************************************************)
(* Raw sync never leaves its types: the tail and the frontier stay at or   *)
(* below the height of the node and the concurrency above zero.            *)
(***************************************************************************)
THEOREM SyncTypeCorrect == SyncSpec => []SyncTypeOK
<1>1. SyncInit => SyncTypeOK /\ SyncInv BY SyncStart
<1>2. SyncTypeOK /\ SyncInv /\ [SyncNext]_syncVars => (SyncTypeOK /\ SyncInv)'
  BY SyncInvariance
<1> QED BY <1>1, <1>2, PTL DEF SyncSpec

(***************************************************************************)
(* The recorded sync tail covers only blocks that are in raw storage, have *)
(* a row of core_blocks and whose transactions are indexed, for every      *)
(* batch size, concurrency and number of attempts.                         *)
(***************************************************************************)
THEOREM SyncTailCovers == SyncSpec => []SyncTailIsStored
<1>1. SyncInit => SyncTypeOK /\ SyncInv BY SyncStart
<1>2. SyncTypeOK /\ SyncInv /\ [SyncNext]_syncVars => (SyncTypeOK /\ SyncInv)'
  BY SyncInvariance
<1>3. SyncInv => SyncTailIsStored
  BY DEF SyncInv, Complete, SyncTailIsStored
<1> QED BY <1>1, <1>2, <1>3, PTL DEF SyncSpec
-----------------------------------------------------------------------------
\* The boot.

Schemas ==
  [keys    : {"none", "secret", "both", "current"},
   core    : {"none", "scoped", "current"},
   audit   : {"none", "legacy", "created", "null", "empty", "copied"},
   watches : {"none", "unique", "current"},
   legacy  : SUBSET LegacyTables,
   filled  : SUBSET (LegacyTables \cup {"core", "keys"})]

(***************************************************************************)
(* A schema and a ledger that agree: the ledger has no gap and each of its *)
(* versions is verified.                                                   *)
(***************************************************************************)
Sound(w) ==
  /\ w \in [schema : Schemas, ledger : SUBSET MetaVersions]
  /\ \A v \in w.ledger : 1 .. v \subseteq w.ledger /\ Verified(w.schema, v)

Boots ==
  [at : {"off", "lockMeta", "meta", "lockClick", "click", "up", "refused"},
   version : Nat, step : Nat]

Committed == [schema |-> meta, ledger |-> metaLedger]

(***************************************************************************)
(* What is committed and what the open transaction sees agree, and the     *)
(* transaction only adds; who migrates holds the lock and has every        *)
(* version below its own; who is past the migrations has all it knows.     *)
(***************************************************************************)
MetaInv ==
  /\ Sound(Committed) /\ Sound(Seen) /\ metaLedger \subseteq Seen.ledger
  /\ holder \in [Locks -> Booters \cup {Nobody}]
  /\ boot \in [Booters -> Boots]
  /\ \A p \in Booters :
       /\ boot[p].at = "meta" =>
            /\ holder["meta"] = p
            /\ boot[p].version \in 1 .. 5
            /\ 1 .. boot[p].version - 1 \subseteq Seen.ledger
       /\ boot[p].at \in {"lockClick", "click", "up"} => KnownTo(p) \subseteq metaLedger

(***************************************************************************)
(* A statement of the first version that is missing leaves every version   *)
(* of the ledger verified: each looks only at what earlier versions have   *)
(* brought about.                                                          *)
(***************************************************************************)
LEMMA StatementKeeps ==
  ASSUME NEW w, Sound(w), NEW v \in MetaVersions, v \notin w.ledger,
         1 .. v - 1 \subseteq w.ledger, NEW i \in 1 .. StatementCount(v)
  PROVE  Sound([w EXCEPT !.schema = Statement(@, v, i)])
<1> DEFINE s == w.schema
           t == Statement(s, v, i)
<1>1. w \in [schema : Schemas, ledger : SUBSET MetaVersions]
  BY DEF Sound
<1>2. s \in Schemas /\ w.ledger \subseteq 1 .. 4 /\ v \in 1 .. 4
  BY <1>1 DEF MetaVersions
<1>3. \A u \in w.ledger : u < v /\ 1 .. u \subseteq w.ledger /\ Verified(s, u)
  <2>1. \A u \in w.ledger : u \in 1 .. 4 /\ 1 .. u \subseteq w.ledger /\ Verified(s, u)
    BY <1>2 DEF Sound
  <2>2. \A u \in w.ledger : ~(v \in 1 .. u)
    BY <2>1
  <2> QED BY <1>2, <2>1, <2>2
<1>4. t \in Schemas /\ \A u \in w.ledger : Verified(t, u)
  <2>1. CASE v = 1
    <3>1. w.ledger = {}
      BY <1>2, <1>3, <2>1
    <3>2. i \in 1 .. 4
      BY <2>1 DEF StatementCount
    <3>3. t = IF i <= 2 THEN MigrateApiKeys(s, i)
              ELSE IF i = 3 THEN DropLegacyCoreTables(s) ELSE CreateTables(s)
      BY <2>1, <3>2 DEF Statement
    <3>4. CASE i <= 2
      BY <1>2, <1>3, <2>1, <3>1, <3>3, <3>4 DEF Schemas, MigrateApiKeys
    <3>5. CASE i = 3
      BY <1>2, <1>3, <2>1, <3>1, <3>3, <3>5 DEF Schemas, DropLegacyCoreTables
    <3>6. CASE i = 4
      <4> DEFINE a == IF s.audit = "none" THEN "created" ELSE s.audit
                 w0 == IF s.watches = "none" THEN "current" ELSE s.watches
      <4>1. /\ s.audit \in {"none", "legacy", "created", "null", "empty", "copied"}
            /\ s.watches \in {"none", "unique", "current"}
        BY <1>2 DEF Schemas
      <4>2. /\ a \in {"none", "legacy", "created", "null", "empty", "copied"}
            /\ w0 \in {"none", "unique", "current"}
        BY <4>1
      <4>3. t = [s EXCEPT !.core = "current", !.audit = a, !.watches = w0]
        BY <3>3, <3>6 DEF CreateTables
      <4> HIDE DEF a, w0, s, t
      <4>4. t \in Schemas
        BY <1>2, <4>2, <4>3 DEF Schemas
      <4> QED BY <3>1, <4>4
    <3> QED BY <3>2, <3>4, <3>5, <3>6
  <2>2. CASE v = 2
    <3>1. t = MigrateAuditEvents(s, i)
      BY <2>2 DEF Statement
    <3>2. /\ t \in Schemas /\ t.keys = s.keys /\ t.core = s.core /\ t.watches = s.watches
          /\ s.audit # "none" => t.audit # "none"
      BY <1>2, <3>1 DEF Schemas, MigrateAuditEvents
    <3>3. \A u \in w.ledger : u = 1
      BY <1>2, <1>3, <2>2
    <3> HIDE DEF s, t
    <3>4. Verified(s, 1) => Verified(t, 1)
      BY <3>2 DEF Verified, VerifyBaseline
    <3> QED BY <1>3, <3>2, <3>3, <3>4
  <2>3. CASE v = 3
    <3>1. t = [s EXCEPT !.watches = "current"]
      BY <2>3 DEF Statement, MigrateActiveMempoolWatches
    <3>2. /\ t \in Schemas /\ t.keys = s.keys /\ t.core = s.core /\ t.audit = s.audit
          /\ t.watches = "current"
      BY <1>2, <3>1 DEF Schemas
    <3>3. \A u \in w.ledger : u \in {1, 2}
      BY <1>2, <1>3, <2>3
    <3> HIDE DEF s, t
    <3>4. Verified(s, 1) => Verified(t, 1)
      BY <3>2 DEF Verified, VerifyBaseline
    <3>5. Verified(s, 2) => Verified(t, 2)
      BY <3>2 DEF Verified
    <3> QED BY <1>3, <3>2, <3>3, <3>4, <3>5
  <2>4. CASE v = 4
    <3>1. t = [s EXCEPT !.legacy = @ \ {LegacyTable(i)}]
      BY <2>4 DEF Statement, DropLegacyMetadataTables
    <3>2. /\ t \in Schemas /\ t.keys = s.keys /\ t.core = s.core /\ t.audit = s.audit
          /\ t.watches = s.watches
      BY <1>2, <3>1 DEF Schemas
    <3>3. \A u \in w.ledger : u \in {1, 2, 3}
      BY <1>2, <1>3, <2>4
    <3> HIDE DEF s, t
    <3>4. Verified(s, 1) => Verified(t, 1)
      BY <3>2 DEF Verified, VerifyBaseline
    <3>5. Verified(s, 2) => Verified(t, 2)
      BY <3>2 DEF Verified
    <3>6. Verified(s, 3) => Verified(t, 3)
      BY <3>2 DEF Verified
    <3> QED BY <1>3, <3>2, <3>3, <3>4, <3>5, <3>6
  <2> QED BY <1>2, <2>1, <2>2, <2>3, <2>4
<1>5. [w EXCEPT !.schema = Statement(@, v, i)] = [schema |-> t, ledger |-> w.ledger]
  BY <1>1
<1> HIDE DEF s, t
<1> QED BY <1>1, <1>3, <1>4, <1>5 DEF Sound

(***************************************************************************)
(* Recording a version whose predecessors are recorded and that is         *)
(* verified keeps schema and ledger in agreement.                          *)
(***************************************************************************)
LEMMA RecordKeeps ==
  ASSUME NEW w, Sound(w), NEW v \in MetaVersions, 1 .. v - 1 \subseteq w.ledger,
         Verified(w.schema, v)
  PROVE  Sound([w EXCEPT !.ledger = @ \cup {v}])
<1>1. w \in [schema : Schemas, ledger : SUBSET MetaVersions]
  BY DEF Sound
<1>2. [w EXCEPT !.ledger = @ \cup {v}] = [schema |-> w.schema, ledger |-> w.ledger \cup {v}]
  <2> DEFINE more == w.ledger \cup {v}
  <2>1. [w EXCEPT !.ledger = @ \cup {v}] = [w EXCEPT !.ledger = more]
    BY <1>1
  <2> HIDE DEF more
  <2>2. [w EXCEPT !.ledger = more] = [schema |-> w.schema, ledger |-> more]
    BY <1>1
  <2> QED BY <2>1, <2>2 DEF more
<1>3. 1 .. v \subseteq w.ledger \cup {v}
  BY DEF MetaVersions
<1> QED BY <1>1, <1>2, <1>3 DEF Sound

(***************************************************************************)
(* A step by the process that migrates: nobody else migrates, and what is  *)
(* committed has grown and agrees, as does what the process sees now.      *)
(***************************************************************************)
LEMMA HolderSteps ==
  ASSUME MetaInv, NEW p \in Booters, boot[p].at = "meta",
         NEW at \in {"meta", "lockClick", "refused"}, NEW version \in Nat, NEW step \in Nat,
         ToBoot(p, at, version, step),
         holder' = holder \/ (holder' = Released(p) /\ at # "meta"),
         Sound(Committed'), Sound(Seen'), metaLedger' \subseteq Seen'.ledger,
         metaLedger \subseteq metaLedger',
         at = "meta" => version \in 1 .. 5 /\ 1 .. version - 1 \subseteq Seen'.ledger,
         at = "lockClick" => KnownTo(p) \subseteq metaLedger'
  PROVE  MetaInv'
<1>1. boot'[p] = [at |-> at, version |-> version, step |-> step]
      /\ \A q \in Booters \ {p} : boot'[q] = boot[q]
  BY DEF MetaInv, ToBoot
<1>2. boot' \in [Booters -> Boots]
  <2> DEFINE b == [at |-> at, version |-> version, step |-> step]
  <2>1. b \in Boots
    BY DEF Boots
  <2>2. boot' = [boot EXCEPT ![p] = b]
    BY DEF ToBoot
  <2> HIDE DEF b
  <2> QED BY <2>1, <2>2 DEF MetaInv
<1>3. \A q \in Booters \ {p} : boot[q].at # "meta"
  BY DEF MetaInv
<1>4. holder' \in [Locks -> Booters \cup {Nobody}]
  BY DEF MetaInv, Released
<1>5. holder["meta"] = p
  BY DEF MetaInv
<1>6. ASSUME NEW q \in Booters
      PROVE  /\ boot'[q].at = "meta" =>
                  /\ holder'["meta"] = q
                  /\ boot'[q].version \in 1 .. 5
                  /\ 1 .. boot'[q].version - 1 \subseteq Seen'.ledger
             /\ boot'[q].at \in {"lockClick", "click", "up"} =>
                  KnownTo(q) \subseteq metaLedger'
  <2>1. CASE q = p
    BY <1>1, <1>5, <2>1
  <2>2. CASE q # p
    BY <1>1, <1>3, <2>2 DEF MetaInv
  <2> QED BY <2>1, <2>2
<1>7. \A q \in Booters : KnownTo(q)' = KnownTo(q)
  BY DEF KnownTo
<1> QED BY <1>2, <1>4, <1>6, <1>7 DEF MetaInv

(***************************************************************************)
(* A step that leaves the metadata database alone, by a process that is    *)
(* not migrating it.                                                       *)
(***************************************************************************)
LEMMA OtherSteps ==
  ASSUME MetaInv, NEW p \in Booters, boot[p].at # "meta",
         UNCHANGED <<meta, metaLedger, open>>,
         NEW b \in [at : {"off", "lockMeta", "click", "up", "refused"},
                    version : Nat, step : Nat],
         boot' = [boot EXCEPT ![p] = b],
         b.at \in {"click", "up"} => boot[p].at \in {"lockClick", "click", "up"},
         \/ holder' \in {holder, Released(p)}
         \/ holder' = [holder EXCEPT !["click"] = p]
  PROVE  MetaInv'
<1>1. Seen' = Seen /\ Committed' = Committed
  BY DEF Seen, InTransaction, Committed
<1>2. /\ boot' \in [Booters -> Boots]
      /\ boot'[p] = b /\ \A q \in Booters \ {p} : boot'[q] = boot[q]
  BY DEF MetaInv, Boots
<1>3. /\ holder' \in [Locks -> Booters \cup {Nobody}]
      /\ \A q \in Booters \ {p} : holder["meta"] = q => holder'["meta"] = q
  BY DEF MetaInv, Released, Locks
<1>4. Sound(Committed') /\ Sound(Seen') /\ metaLedger' \subseteq Seen'.ledger
  BY <1>1 DEF MetaInv
<1>5. ASSUME NEW q \in Booters
      PROVE  /\ boot'[q].at = "meta" =>
                  /\ holder'["meta"] = q
                  /\ boot'[q].version \in 1 .. 5
                  /\ 1 .. boot'[q].version - 1 \subseteq Seen'.ledger
             /\ boot'[q].at \in {"lockClick", "click", "up"} =>
                  KnownTo(q) \subseteq metaLedger'
  <2>1. CASE q = p
    BY <1>2, <2>1 DEF MetaInv
  <2>2. CASE q # p
    BY <1>1, <1>2, <1>3, <2>2 DEF MetaInv
  <2> QED BY <2>1, <2>2
<1>6. \A q \in Booters : KnownTo(q)' = KnownTo(q)
  BY DEF KnownTo
<1> QED BY <1>2, <1>3, <1>4, <1>5, <1>6 DEF MetaInv

(***************************************************************************)
(* The boot gives up: what is committed stays, and the transaction is      *)
(* gone.                                                                   *)
(***************************************************************************)
LEMMA FailMetaKeeps ==
  ASSUME MetaInv, NEW p \in Booters, boot[p].at = "meta", FailMeta(p)
  PROVE  MetaInv'
<1>1. /\ ToBoot(p, "refused", 0, 0) /\ holder' = Released(p)
      /\ open' = <<>> /\ UNCHANGED <<meta, metaLedger>>
  BY DEF FailMeta
<1>2. Seen' = Committed /\ Committed' = Committed
  BY <1>1 DEF Seen, InTransaction, Committed
<1>3. Committed.ledger = metaLedger
  BY DEF Committed
<1>4. Sound(Committed)
  BY DEF MetaInv
<1> QED BY <1>1, <1>2, <1>3, <1>4, HolderSteps

(***************************************************************************)
(* A statement inside the transaction or committed at once: either way the *)
(* process sees what it wrote.                                             *)
(***************************************************************************)
LEMMA WriteMetaSeen ==
  ASSUME MetaInv, NEW w, Sound(w), Seen.ledger \subseteq w.ledger, WriteMeta(w)
  PROVE  /\ Seen' = w /\ Sound(Committed')
         /\ metaLedger' \subseteq w.ledger /\ metaLedger \subseteq metaLedger'
<1>1. Sound(Committed) /\ metaLedger \subseteq Seen.ledger
  BY DEF MetaInv
<1>2. w = [schema |-> w.schema, ledger |-> w.ledger]
  BY DEF Sound
<1>3. CASE InTransaction
  <2>1. open' = <<w>> /\ UNCHANGED <<meta, metaLedger>>
    BY <1>3 DEF WriteMeta
  <2>2. Seen' = w
    BY <2>1 DEF Seen, InTransaction
  <2>3. Committed' = Committed
    BY <2>1 DEF Committed
  <2> QED BY <1>1, <2>1, <2>2, <2>3
<1>4. CASE ~InTransaction
  <2>1. meta' = w.schema /\ metaLedger' = w.ledger /\ open' = <<>>
    BY <1>4 DEF WriteMeta
  <2>2. Seen' = w /\ Committed' = w
    BY <1>2, <2>1 DEF Seen, InTransaction, Committed
  <2> QED BY <1>1, <2>1, <2>2
<1> QED BY <1>3, <1>4

(***************************************************************************)
(* Every step of every process keeps schema and ledger in agreement.       *)
(***************************************************************************)
LEMMA MetaStepKeeps ==
  ASSUME MetaInv, NEW p \in Booters, BootStep(p) \/ StoreRow(p) \/ Die(p)
  PROVE  MetaInv'
<1> DEFINE v == boot[p].version
           i == boot[p].step
<1>1. /\ Sound(Committed) /\ Sound(Seen) /\ metaLedger \subseteq Seen.ledger
      /\ v \in Nat /\ i \in Nat
      /\ boot[p].at = "meta" => v \in 1 .. 5 /\ 1 .. v - 1 \subseteq Seen.ledger
  BY DEF MetaInv, Boots
<1>2. CASE StartBoot(p)
  BY <1>2, OtherSteps DEF StartBoot, ToBoot
<1>3. CASE LockMeta(p)
  <2>1. holder["meta"] = Nobody /\ boot[p].at = "lockMeta"
    BY <1>3 DEF LockMeta, Free
  <2>2. CASE Drift(p, metaLedger)
    <3>1. ToBoot(p, "refused", 0, 0) /\ UNCHANGED <<holder, open, meta, metaLedger>>
      BY <1>3, <2>2 DEF LockMeta
    <3> QED BY <2>1, <3>1, OtherSteps DEF ToBoot
  <2>3. CASE ~Drift(p, metaLedger)
    <3>1. /\ ToBoot(p, "meta", 1, 0) /\ holder' = [holder EXCEPT !["meta"] = p]
          /\ UNCHANGED <<meta, metaLedger>>
          /\ open' \in {<<>>, <<Committed>>}
      BY <1>3, <2>3 DEF LockMeta, Committed
    <3>2. Committed' = Committed /\ Committed.ledger = metaLedger
      BY <3>1 DEF Committed
    <3>3. Seen' = Committed
      BY <3>1, <3>2 DEF Seen, InTransaction, Committed
    <3>4. \A q \in Booters : boot[q].at # "meta"
      BY <2>1, MigrationConstants DEF MetaInv
    <3> DEFINE b == [at |-> "meta", version |-> 1, step |-> 0]
    <3>5. b \in Boots
      BY DEF Boots
    <3>6. /\ boot' = [boot EXCEPT ![p] = b]
          /\ b.at = "meta" /\ b.version = 1
      BY <3>1 DEF ToBoot
    <3> HIDE DEF b
    <3>7. /\ boot' \in [Booters -> Boots]
          /\ boot'[p] = b /\ \A q \in Booters \ {p} : boot'[q] = boot[q]
      BY <3>5, <3>6 DEF MetaInv
    <3>8. holder' \in [Locks -> Booters \cup {Nobody}] /\ holder'["meta"] = p
      BY <3>1 DEF MetaInv, Locks
    <3>9. \A q \in Booters : boot'[q].at = "meta" =>
            /\ holder'["meta"] = q /\ boot'[q].version \in 1 .. 5
            /\ 1 .. boot'[q].version - 1 \subseteq Seen'.ledger
      BY <3>4, <3>6, <3>7, <3>8
    <3>10. \A q \in Booters : boot'[q].at \in {"lockClick", "click", "up"} =>
             KnownTo(q)' \subseteq metaLedger'
      BY <3>1, <3>6, <3>7 DEF MetaInv, KnownTo
    <3>11. Sound(Committed)' /\ Sound(Seen)' /\ metaLedger' \subseteq Seen'.ledger
      BY <1>1, <3>1, <3>2, <3>3
    <3> QED BY <3>7, <3>8, <3>9, <3>10, <3>11 DEF MetaInv
  <2> QED BY <2>2, <2>3
<1>4. CASE RunMetaMigration(p)
  <2>1. boot[p].at = "meta" /\ v \in MetaVersions /\ v \notin Seen.ledger
    BY <1>4 DEF RunMetaMigration, KnownTo, MetaVersions
  <2>2. v + 1 \in 1 .. 5 /\ v \in 1 .. 5 /\ 1 .. v - 1 \subseteq Seen.ledger
    BY <1>1, <2>1 DEF MetaVersions
  <2>3. Seen = [schema |-> Seen.schema, ledger |-> Seen.ledger]
    BY <1>1 DEF Sound
  <2>4. CASE i = 0
    <3>1. /\ open' \in {open, <<Seen>>} /\ ToBoot(p, "meta", v, 1)
          /\ UNCHANGED <<meta, metaLedger, holder>>
      BY <1>4, <2>1, <2>4 DEF RunMetaMigration, StatementCount, MetaVersions
    <3>2. Seen' = Seen
      BY <3>1 DEF Seen, InTransaction
    <3>3. Committed' = Committed
      BY <3>1 DEF Committed
    <3> QED BY <1>1, <2>1, <2>2, <3>1, <3>2, <3>3, HolderSteps
  <2>5. CASE i \in 1 .. StatementCount(v) /\ Refused(Seen.schema, v, i)
    <3>1. FailMeta(p)
      BY <1>4, <2>1, <2>5 DEF RunMetaMigration, StatementCount, MetaVersions
    <3> QED BY <2>1, <3>1, FailMetaKeeps
  <2>6. CASE i \in 1 .. StatementCount(v) /\ ~Refused(Seen.schema, v, i)
    <3> DEFINE w == [Seen EXCEPT !.schema = Statement(@, v, i)]
    <3>1. WriteMeta(w) /\ ToBoot(p, "meta", v, i + 1) /\ UNCHANGED holder
      BY <1>4, <2>1, <2>6 DEF RunMetaMigration, StatementCount, MetaVersions
    <3>2. Sound(w)
      BY <1>1, <2>1, <2>2, <2>6, StatementKeeps
    <3>3. w.ledger = Seen.ledger
      BY <2>3
    <3> HIDE DEF w
    <3>4. Seen' = w /\ Sound(Committed') /\ metaLedger' \subseteq w.ledger
          /\ metaLedger \subseteq metaLedger'
      BY <3>1, <3>2, <3>3, WriteMetaSeen
    <3>5. i + 1 \in Nat
      BY <1>1
    <3> QED BY <1>1, <2>1, <2>2, <3>1, <3>2, <3>3, <3>4, <3>5, HolderSteps
  <2>7. CASE i = StatementCount(v) + 1 /\ ~Verified(Seen.schema, v)
    <3>1. FailMeta(p)
      BY <1>4, <2>1, <2>7 DEF RunMetaMigration, StatementCount, MetaVersions
    <3> QED BY <2>1, <3>1, FailMetaKeeps
  <2>8. CASE i = StatementCount(v) + 1 /\ Verified(Seen.schema, v)
    <3> DEFINE w == [Seen EXCEPT !.ledger = @ \cup {v}]
    <3>1. /\ IF database = "postgres"
             THEN meta' = w.schema /\ metaLedger' = w.ledger /\ open' = <<>>
             ELSE WriteMeta(w)
          /\ ToBoot(p, "meta", v + 1, 0) /\ UNCHANGED holder
      BY <1>4, <2>1, <2>8 DEF RunMetaMigration, StatementCount, MetaVersions
    <3>2. Sound(w)
      BY <1>1, <2>1, <2>2, <2>8, RecordKeeps
    <3>3. w.ledger = Seen.ledger \cup {v}
      BY <2>3
    <3>4. w = [schema |-> w.schema, ledger |-> w.ledger]
      BY <3>2 DEF Sound
    <3> HIDE DEF w
    <3>5. Seen' = w /\ Sound(Committed') /\ metaLedger' \subseteq w.ledger
          /\ metaLedger \subseteq metaLedger'
      <4>1. CASE database = "postgres"
        <5>1. meta' = w.schema /\ metaLedger' = w.ledger /\ open' = <<>>
          BY <3>1, <4>1
        <5>2. Seen' = w /\ Committed' = w
          BY <3>4, <5>1 DEF Seen, InTransaction, Committed
        <5> QED BY <1>1, <3>2, <3>3, <5>1, <5>2
      <4>2. CASE database # "postgres"
        BY <3>1, <3>2, <3>3, <4>2, WriteMetaSeen
      <4> QED BY <4>1, <4>2
    <3>6. 1 .. (v + 1) - 1 \subseteq w.ledger
      BY <2>2, <3>3
    <3>7. v + 1 \in Nat
      BY <1>1
    <3> QED BY <2>1, <2>2, <3>1, <3>2, <3>5, <3>6, <3>7, HolderSteps
  <2> QED BY <1>4, <2>4, <2>5, <2>6, <2>7, <2>8 DEF RunMetaMigration
<1>5. CASE VerifyApplied(p)
  <2>1. boot[p].at = "meta" /\ v \in MetaVersions /\ v \in Seen.ledger
    BY <1>5 DEF VerifyApplied, KnownTo, MetaVersions
  <2>2. CASE ~Verified(Seen.schema, v)
    BY <1>5, <2>1, <2>2, FailMetaKeeps DEF VerifyApplied
  <2>3. CASE Verified(Seen.schema, v)
    <3>1. ToBoot(p, "meta", v + 1, 0) /\ UNCHANGED <<meta, metaLedger, open, holder>>
      BY <1>5, <2>3 DEF VerifyApplied
    <3>2. Seen' = Seen /\ Committed' = Committed
      BY <3>1 DEF Seen, InTransaction, Committed
    <3>3. v + 1 \in 1 .. 5 /\ v + 1 \in Nat
      BY <2>1 DEF MetaVersions
    <3>4. \A u \in 1 .. (v + 1) - 1 : u = v \/ u \in 1 .. v - 1
      BY <1>1
    <3>5. 1 .. (v + 1) - 1 \subseteq Seen.ledger
      BY <1>1, <2>1, <3>4
    <3> QED BY <1>1, <2>1, <3>1, <3>2, <3>3, <3>5, HolderSteps
  <2> QED BY <2>2, <2>3
<1>6. CASE ReleaseMeta(p)
  <2>1. /\ boot[p].at = "meta" /\ v \notin KnownTo(p)
        /\ meta' = Seen.schema /\ metaLedger' = Seen.ledger /\ open' = <<>>
        /\ holder' = Released(p) /\ ToBoot(p, "lockClick", 0, 0)
    BY <1>6 DEF ReleaseMeta
  <2>2. Seen = [schema |-> Seen.schema, ledger |-> Seen.ledger]
    BY <1>1 DEF Sound
  <2>3. Seen' = Seen /\ Committed' = Seen
    BY <2>1, <2>2 DEF Seen, InTransaction, Committed
  <2>4. KnownTo(p) \subseteq Seen.ledger
    BY <1>1, <2>1 DEF KnownTo, MetaVersions
  <2> QED BY <1>1, <2>1, <2>3, <2>4, HolderSteps
<1>7. CASE LockClick(p)
  BY <1>7, OtherSteps DEF LockClick, ToBoot
<1>8. CASE RunClickMigration(p)
  <2>1. /\ boot[p].at = "click" /\ UNCHANGED <<meta, metaLedger, open>>
        /\ holder' \in {holder, Released(p)}
        /\ \E at \in {"click", "refused"} : \E n \in {0, 1, 5} : \E m \in {0, v, v + 1} :
             ToBoot(p, at, m, n)
    BY <1>8 DEF RunClickMigration, RefuseClick
  <2>2. PICK at \in {"click", "refused"}, n \in {0, 1, 5}, m \in {0, v, v + 1} :
          ToBoot(p, at, m, n)
    BY <2>1
  <2>3. m \in Nat
    BY <1>1, <2>2
  <2> DEFINE b == [at |-> at, version |-> m, step |-> n]
  <2>4. /\ b \in [at : {"off", "lockMeta", "click", "up", "refused"},
                  version : Nat, step : Nat]
        /\ boot' = [boot EXCEPT ![p] = b]
    BY <2>2, <2>3 DEF ToBoot
  <2> HIDE DEF b
  <2> QED BY <2>1, <2>4, OtherSteps
<1>9. CASE Serve(p)
  BY <1>9, OtherSteps DEF Serve, ToBoot
<1>10. CASE StoreRow(p)
  <2>1. UNCHANGED <<meta, metaLedger, open, holder, boot>>
    BY <1>10 DEF StoreRow, storeVars
  <2> QED BY <2>1 DEF MetaInv, Sound, Committed, Seen, InTransaction, KnownTo
<1>11. CASE Die(p)
  <2>1. /\ boot' = [boot EXCEPT ![p] = NoBoot] /\ holder' = Released(p)
        /\ open' = IF holder["meta"] = p THEN <<>> ELSE open
        /\ UNCHANGED <<meta, metaLedger>>
    BY <1>11 DEF Die
  <2>2. NoBoot \in Boots /\ NoBoot.at = "off"
    BY DEF NoBoot, Boots
  <2>3. /\ boot' \in [Booters -> Boots]
        /\ boot'[p] = NoBoot /\ \A q \in Booters \ {p} : boot'[q] = boot[q]
    BY <2>1, <2>2 DEF MetaInv
  <2>4. /\ holder' \in [Locks -> Booters \cup {Nobody}]
        /\ \A q \in Booters \ {p} : holder["meta"] = q => holder'["meta"] = q
    BY <2>1 DEF MetaInv, Released, Locks
  <2>5. Committed' = Committed /\ Committed.ledger = metaLedger
    BY <2>1 DEF Committed
  <2>6. /\ Seen' \in {Seen, Committed}
        /\ holder["meta"] # p => Seen' = Seen
    BY <2>1 DEF Seen, InTransaction, Committed
  <2>7. Sound(Committed)' /\ Sound(Seen)' /\ metaLedger' \subseteq Seen'.ledger
    BY <1>1, <2>1, <2>5, <2>6
  <2>8. ASSUME NEW q \in Booters
        PROVE  /\ boot'[q].at = "meta" =>
                    /\ holder'["meta"] = q
                    /\ boot'[q].version \in 1 .. 5
                    /\ 1 .. boot'[q].version - 1 \subseteq Seen'.ledger
               /\ boot'[q].at \in {"lockClick", "click", "up"} =>
                    KnownTo(q)' \subseteq metaLedger'
    <3>1. CASE q = p
      BY <2>2, <2>3, <3>1
    <3>2. CASE q # p
      BY <2>1, <2>3, <2>4, <2>6, <3>2 DEF MetaInv, KnownTo
    <3> QED BY <3>1, <3>2
  <2> QED BY <2>3, <2>4, <2>7, <2>8 DEF MetaInv
<1>12. CASE RunBackfill(p)
  <2>1. /\ boot[p].at = "click" /\ UNCHANGED <<meta, metaLedger, open, holder>>
        /\ boot' = boot \/ ToBoot(p, "click", 2, i + 1)
    BY <1>12 DEF RunBackfill
  <2>2. CASE boot' = boot
    BY <2>1, <2>2 DEF MetaInv, Sound, Committed, Seen, InTransaction, KnownTo
  <2>3. CASE ToBoot(p, "click", 2, i + 1)
    <3> DEFINE b == [at |-> "click", version |-> 2, step |-> i + 1]
    <3>1. /\ b \in [at : {"off", "lockMeta", "click", "up", "refused"},
                    version : Nat, step : Nat]
          /\ boot' = [boot EXCEPT ![p] = b]
      BY <1>1, <2>3 DEF ToBoot
    <3> HIDE DEF b
    <3> QED BY <2>1, <3>1, OtherSteps
  <2> QED BY <2>1, <2>2, <2>3
<1> QED BY <1>2, <1>3, <1>4, <1>5, <1>6, <1>7, <1>8, <1>9, <1>10, <1>11, <1>12
        DEF BootStep

(***************************************************************************)
(* Initially nothing is migrated, and schema and ledger agree.             *)
(***************************************************************************)
LEMMA NothingMigrated ==
  ASSUME MigrationInit
  PROVE  MetaInv
<1>1. meta \in Schemas
  BY DEF MigrationInit, MetaStart, Schemas, LegacyTables
<1>2. metaLedger = {} /\ Seen = Committed
  BY DEF MigrationInit, Seen, InTransaction, Committed
<1>3. Sound(Committed) /\ Sound(Seen)
  BY <1>1, <1>2 DEF Sound, Committed
<1>4. /\ holder \in [Locks -> Booters \cup {Nobody}]
      /\ boot \in [Booters -> Boots]
      /\ \A p \in Booters : boot[p].at = "off"
  BY DEF MigrationInit, NoBoot, Boots
<1> QED BY <1>2, <1>3, <1>4 DEF MetaInv

(***************************************************************************)
(* Every step of the system keeps schema and ledger in agreement.          *)
(***************************************************************************)
LEMMA MetaKeeps ==
  ASSUME MetaInv, [MigrationNext]_migrationVars
  PROVE  MetaInv'
<1>1. ASSUME UNCHANGED <<meta, metaLedger, open, holder, boot>> PROVE MetaInv'
  BY <1>1 DEF MetaInv, Sound, Committed, Seen, InTransaction, KnownTo
<1>2. CASE FeedView \/ LandOrphan
  BY <1>1, <1>2 DEF FeedView, LandOrphan, storeVars
<1>3. CASE UNCHANGED migrationVars
  BY <1>1, <1>3 DEF migrationVars
<1>4. ASSUME NEW p \in Booters, BootStep(p) \/ StoreRow(p) \/ Die(p) PROVE MetaInv'
  BY <1>4, MetaStepKeeps
<1> QED BY <1>2, <1>3, <1>4 DEF MigrationNext

(***************************************************************************)
(* Whoever is past the metadata migrations finds every version it knows    *)
(* recorded and verified, for any number of processes of both releases     *)
(* that boot at once and die anywhere, on each of the databases.           *)
(***************************************************************************)
THEOREM ServedSchemaStaysCurrent == MigrationSpec => []ServedSchemaIsCurrent
<1>1. MigrationInit => MetaInv
  BY NothingMigrated
<1>2. MetaInv /\ [MigrationNext]_migrationVars => MetaInv'
  BY MetaKeeps
<1>3. MetaInv => ServedSchemaIsCurrent
  BY DEF MetaInv, Sound, Committed, ServedSchemaIsCurrent
<1> QED BY <1>1, <1>2, <1>3, PTL DEF MigrationSpec

(***************************************************************************)
(* Who migrates the warehouse holds its lock, and the rows that a backfill *)
(* has yet to insert are those of a process that waits for it.             *)
(***************************************************************************)
ClickHolds ==
  /\ \A p \in Booters : boot[p].at = "click" => holder["click"] = p
  /\ statement # {} => \E p \in Booters :
       boot[p].at = "click" /\ boot[p].version = 2 /\ boot[p].step \in {2, 4}

\* How often a copy is in its read model, or will be if everything under way arrives.
Carried(c) ==
  readModel[c] + orphans[c] + (IF c \in statement THEN 1 ELSE 0)
                            + (IF c \in views THEN 1 ELSE 0)

(***************************************************************************)
(* Only stored rows are carried; one that was not chosen while it was      *)
(* under way is carried once at most; and when the backfill is completed,  *)
(* none is missing but those whose view is under way.                      *)
(***************************************************************************)
CopiesHold ==
  /\ source \subseteq Copies /\ statement \subseteq source /\ views \subseteq source
  /\ readModel \in [Copies -> Nat] /\ orphans \in [Copies -> Nat]
  /\ \A c \in Copies \ source : readModel[c] = 0 /\ orphans[c] = 0
  /\ \A c \in Copies \ raced : Carried(c) <= 1
  /\ BackfillCompleted => \A c \in source \ views : readModel[c] > 0

(***************************************************************************)
(* A step of one process, which takes the lock only when it is free and    *)
(* frees only its own, leaves the lock with whoever migrates.              *)
(***************************************************************************)
LEMMA ClickSteps ==
  ASSUME MetaInv, ClickHolds, NEW p \in Booters, NEW b,
         boot' = [boot EXCEPT ![p] = b],
         b.at = "click" => holder'["click"] = p,
         \A q \in Booters \ {p} : holder["click"] = q => holder'["click"] = q,
         statement' # {} =>
           \/ statement' = statement /\ boot[p].at # "click"
           \/ b.at = "click" /\ b.version = 2 /\ b.step \in {2, 4}
  PROVE  ClickHolds'
<1>1. boot'[p] = b /\ \A q \in Booters \ {p} : boot'[q] = boot[q]
  BY DEF MetaInv
<1>2. \A q \in Booters : boot'[q].at = "click" => holder'["click"] = q
  BY <1>1 DEF ClickHolds
<1>3. ASSUME statement' # {}
      PROVE  \E q \in Booters :
               boot'[q].at = "click" /\ boot'[q].version = 2 /\ boot'[q].step \in {2, 4}
  <2>1. CASE statement' = statement /\ boot[p].at # "click"
    BY <1>1, <1>3, <2>1 DEF ClickHolds
  <2>2. CASE b.at = "click" /\ b.version = 2 /\ b.step \in {2, 4}
    BY <1>1, <2>2
  <2> QED BY <1>3, <2>1, <2>2
<1> QED BY <1>2, <1>3 DEF ClickHolds

(***************************************************************************)
(* While a process migrates the warehouse and does not wait for a          *)
(* backfill, none runs but abandoned ones.                                 *)
(***************************************************************************)
LEMMA NoStatement ==
  ASSUME ClickHolds, NEW p \in Booters, boot[p].at = "click",
         ~(boot[p].version = 2 /\ boot[p].step \in {2, 4})
  PROVE  statement = {}
BY DEF ClickHolds

(***************************************************************************)
(* Every step leaves the lock of the warehouse with whoever migrates it.   *)
(***************************************************************************)
LEMMA ClickKeeps ==
  ASSUME MetaInv, ClickHolds, [MigrationNext]_migrationVars
  PROVE  ClickHolds'
<1>1. ASSUME UNCHANGED <<boot, holder, statement>> PROVE ClickHolds'
  BY <1>1 DEF ClickHolds
<1>2. CASE UNCHANGED migrationVars
  BY <1>1, <1>2 DEF migrationVars
<1>3. CASE FeedView \/ LandOrphan
  BY <1>1, <1>3 DEF FeedView, LandOrphan, storeVars
<1>4. ASSUME NEW p \in Booters, StoreRow(p) PROVE ClickHolds'
  BY <1>1, <1>4 DEF StoreRow, storeVars
<1>5. \A p, q \in Booters : q # p /\ holder["click"] = q => Released(p)["click"] = q
  BY DEF Released, Locks, MetaInv
<1>6. ASSUME NEW p \in Booters, boot[p].at # "click", UNCHANGED statement,
             NEW b, b.at # "click", boot' = [boot EXCEPT ![p] = b],
             holder' \in {holder, Released(p), [holder EXCEPT !["meta"] = p]}
      PROVE  ClickHolds'
  <2>1. \A q \in Booters \ {p} : holder["click"] = q => holder'["click"] = q
    BY <1>5, <1>6 DEF MetaInv, Locks
  <2> QED BY <1>6, <2>1, ClickSteps
<1>7. ASSUME NEW p \in Booters,
             StartBoot(p) \/ LockMeta(p) \/ RunMetaMigration(p) \/ VerifyApplied(p)
               \/ ReleaseMeta(p)
      PROVE  ClickHolds'
  <2> DEFINE Quiet ==
        /\ boot[p].at # "click" /\ UNCHANGED statement
        /\ holder' \in {holder, Released(p), [holder EXCEPT !["meta"] = p]}
        /\ \E at \in {"lockMeta", "meta", "lockClick", "refused"}, m \in Nat, n \in Nat :
             ToBoot(p, at, m, n)
  <2>4. boot[p].version \in Nat /\ boot[p].step \in Nat
    BY DEF MetaInv, Boots
  <2>5. ASSUME StartBoot(p) PROVE Quiet
    BY <2>5 DEF StartBoot, clickVars, backfillVars
  <2>6. ASSUME LockMeta(p) PROVE Quiet
    BY <2>6 DEF LockMeta, clickVars, backfillVars
  <2>7. ASSUME RunMetaMigration(p) PROVE Quiet
    <3>1. boot[p].at = "meta" /\ UNCHANGED statement
      BY <2>7 DEF RunMetaMigration, clickVars, backfillVars
    <3>2. \/ ToBoot(p, "meta", boot[p].version, 1) /\ UNCHANGED holder
          \/ FailMeta(p)
          \/ ToBoot(p, "meta", boot[p].version, boot[p].step + 1) /\ UNCHANGED holder
          \/ ToBoot(p, "meta", boot[p].version + 1, 0) /\ UNCHANGED holder
      BY <2>7 DEF RunMetaMigration
    <3>3. 0 \in Nat /\ 1 \in Nat /\ boot[p].version + 1 \in Nat /\ boot[p].step + 1 \in Nat
      BY <2>4
    <3>4. CASE FailMeta(p)
      BY <3>1, <3>3, <3>4 DEF FailMeta
    <3>5. CASE ~FailMeta(p)
      <4>1. \E m \in Nat, n \in Nat : ToBoot(p, "meta", m, n)
        BY <2>4, <3>2, <3>3, <3>5
      <4> QED BY <3>1, <3>2, <3>5, <4>1
    <3> QED BY <3>4, <3>5
  <2>8. ASSUME VerifyApplied(p) PROVE Quiet
    BY <2>4, <2>8 DEF VerifyApplied, FailMeta, clickVars, backfillVars
  <2>9. ASSUME ReleaseMeta(p) PROVE Quiet
    BY <2>9 DEF ReleaseMeta, clickVars, backfillVars
  <2>1. Quiet
    BY <1>7, <2>5, <2>6, <2>7, <2>8, <2>9
  <2>2. PICK at \in {"lockMeta", "meta", "lockClick", "refused"}, m \in Nat, n \in Nat :
          ToBoot(p, at, m, n)
    BY <2>1
  <2>3. /\ boot' = [boot EXCEPT ![p] = [at |-> at, version |-> m, step |-> n]]
        /\ [at |-> at, version |-> m, step |-> n].at = at
    BY <2>2 DEF ToBoot
  <2> QED BY <1>6, <2>1, <2>2, <2>3
<1>8. ASSUME NEW p \in Booters, LockClick(p) PROVE ClickHolds'
  <2>1. /\ boot[p].at = "lockClick" /\ UNCHANGED statement /\ holder["click"] = Nobody
        /\ holder' = [holder EXCEPT !["click"] = p] /\ ToBoot(p, "click", 1, 0)
    BY <1>8 DEF LockClick, Free, clickVars, backfillVars
  <2>2. holder'["click"] = p
    BY <2>1 DEF MetaInv, Locks
  <2>3. \A q \in Booters \ {p} : holder["click"] # q
    BY <2>1, MigrationConstants
  <2>4. PICK b : boot' = [boot EXCEPT ![p] = b]
    BY <2>1 DEF ToBoot
  <2> QED BY <2>1, <2>2, <2>3, <2>4, ClickSteps
<1>9. ASSUME NEW p \in Booters, RunClickMigration(p) \/ Serve(p) PROVE ClickHolds'
  <2>1. /\ boot[p].at = "click" /\ UNCHANGED statement
        /\ ~(boot[p].version = 2 /\ boot[p].step \in {2, 4})
    BY <1>9 DEF RunClickMigration, Serve, ClickVersions, clickVars, backfillVars
  <2>2. statement = {} /\ holder["click"] = p
    BY <2>1, NoStatement DEF ClickHolds
  <2>3. \E at : \E m, n : /\ ToBoot(p, at, m, n)
                          /\ \/ holder' = holder
                             \/ at # "click" /\ holder' = Released(p)
    BY <1>9 DEF RunClickMigration, Serve, RefuseClick
  <2>4. PICK at, m, n : /\ ToBoot(p, at, m, n)
                        /\ \/ holder' = holder
                           \/ at # "click" /\ holder' = Released(p)
    BY <2>3
  <2>5. /\ boot' = [boot EXCEPT ![p] = [at |-> at, version |-> m, step |-> n]]
        /\ [at |-> at, version |-> m, step |-> n].at = at
    BY <2>4 DEF ToBoot
  <2> QED BY <1>5, <2>1, <2>2, <2>4, <2>5, ClickSteps
<1>10. ASSUME NEW p \in Booters, RunBackfill(p) PROVE ClickHolds'
  <2> DEFINE i == boot[p].step
  <2>1. boot[p].at = "click" /\ boot[p].version = 2 /\ UNCHANGED holder
        /\ holder["click"] = p
    BY <1>10 DEF RunBackfill, ClickHolds
  <2>2. CASE i \in {1, 3}
    <3>1. ToBoot(p, "click", 2, i + 1)
      BY <1>10, <2>2 DEF RunBackfill
    <3> DEFINE b == [at |-> "click", version |-> 2, step |-> i + 1]
    <3>2. /\ boot' = [boot EXCEPT ![p] = b]
          /\ b.at = "click" /\ b.version = 2 /\ b.step \in {2, 4}
      BY <2>2, <3>1 DEF ToBoot
    <3> HIDE DEF b
    <3> QED BY <2>1, <3>2, ClickSteps
  <2>3. CASE i \in {2, 4} /\ UNCHANGED boot
    BY <2>1, <2>3 DEF ClickHolds
  <2>4. CASE i \in {2, 4} /\ statement' = {} /\ ToBoot(p, "click", 2, i + 1)
    <3>1. PICK b : boot' = [boot EXCEPT ![p] = b]
      BY <2>4 DEF ToBoot
    <3> QED BY <2>1, <2>4, <3>1, ClickSteps
  <2> QED BY <1>10, <2>2, <2>3, <2>4 DEF RunBackfill
<1>11. ASSUME NEW p \in Booters, Die(p) PROVE ClickHolds'
  <2>1. /\ boot' = [boot EXCEPT ![p] = NoBoot] /\ NoBoot.at # "click"
        /\ holder' = Released(p)
        /\ statement' = IF boot[p].at = "click" THEN {} ELSE statement
    BY <1>11 DEF Die, NoBoot
  <2> QED BY <1>5, <2>1, ClickSteps
<1> QED BY <1>2, <1>3, <1>4, <1>7, <1>8, <1>9, <1>10, <1>11 DEF MigrationNext, BootStep

(***************************************************************************)
(* One copy reaches its read model, out of what was under way: it is       *)
(* carried as often as before, and nothing else changes.                   *)
(***************************************************************************)
LEMMA LandKeeps ==
  ASSUME CopiesHold, NEW d \in source, Land(d), UNCHANGED <<source, raced, clickLedger>>,
         \/ /\ d \in statement /\ statement' = statement \ {d}
            /\ UNCHANGED <<orphans, views>>
         \/ /\ d \in views /\ views' = views \ {d}
            /\ UNCHANGED <<orphans, statement>>
         \/ /\ orphans[d] > 0 /\ orphans' = [orphans EXCEPT ![d] = @ - 1]
            /\ UNCHANGED <<statement, views>>
  PROVE  CopiesHold'
<1> USE DEF CopiesHold
<1>1. /\ readModel' \in [Copies -> Nat]
      /\ \A c \in Copies : readModel'[c] = IF c = d THEN readModel[c] + 1 ELSE readModel[c]
  <2>1. readModel' = [readModel EXCEPT ![d] = readModel[d] + 1]
    BY DEF Land
  <2>2. readModel[d] + 1 \in Nat
    OBVIOUS
  <2> QED BY <2>1, <2>2
<1>2. /\ orphans' \in [Copies -> Nat]
      /\ \A c \in Copies \ {d} : orphans'[c] = orphans[c]
  <2>1. CASE UNCHANGED orphans
    BY <2>1
  <2>2. CASE orphans[d] > 0 /\ orphans' = [orphans EXCEPT ![d] = @ - 1]
    <3>1. orphans[d] - 1 \in Nat
      BY <2>2
    <3> QED BY <2>2, <3>1
  <2> QED BY <2>1, <2>2
<1>3. Carried(d)' = Carried(d)
  <2>1. readModel'[d] = readModel[d] + 1 /\ readModel[d] \in Nat /\ orphans[d] \in Nat
    BY <1>1
  <2>2. CASE d \in statement /\ statement' = statement \ {d} /\ UNCHANGED <<orphans, views>>
    BY <2>1, <2>2 DEF Carried
  <2>3. CASE d \in views /\ views' = views \ {d} /\ UNCHANGED <<orphans, statement>>
    BY <2>1, <2>3 DEF Carried
  <2>4. CASE /\ orphans[d] > 0 /\ orphans' = [orphans EXCEPT ![d] = @ - 1]
             /\ UNCHANGED <<statement, views>>
    <3>1. orphans'[d] = orphans[d] - 1
      BY <2>4
    <3> QED BY <2>1, <2>4, <3>1 DEF Carried
  <2> QED BY <2>2, <2>3, <2>4
<1>4. \A c \in Copies \ {d} : Carried(c)' = Carried(c)
  BY <1>1, <1>2 DEF Carried
<1>5. /\ statement' \subseteq source' /\ views' \subseteq source'
      /\ \A c \in Copies \ source' : readModel'[c] = 0 /\ orphans'[c] = 0
  BY <1>1, <1>2
<1>6. \A c \in Copies \ raced' : Carried(c)' <= 1
  BY <1>3, <1>4
<1>7. BackfillCompleted' => \A c \in source' \ views' : readModel'[c] > 0
  <2> SUFFICES ASSUME BackfillCompleted', NEW c \in source \ views' PROVE readModel'[c] > 0
    OBVIOUS
  <2>1. BackfillCompleted
    BY DEF BackfillCompleted
  <2>2. CASE c = d
    BY <1>1, <2>2
  <2>3. CASE c # d
    BY <1>1, <2>1, <2>3
  <2> QED BY <2>2, <2>3
<1> QED BY <1>1, <1>2, <1>5, <1>6, <1>7

(***************************************************************************)
(* The boot chooses the rows of a backfill: under its lock no other one    *)
(* that is waited for runs, and what else is under way is remembered.      *)
(***************************************************************************)
LEMMA ChooseKeeps ==
  ASSUME CopiesHold, statement = {}, NEW q \in Pairs,
         statement' = Missing(q),
         raced' = raced \cup {c \in Missing(q) : orphans[c] > 0 \/ c \in views},
         UNCHANGED <<source, readModel, orphans, views, clickLedger>>
  PROVE  CopiesHold'
<1> USE DEF CopiesHold
<1>1. \A c \in Missing(q) : c \in source /\ readModel[c] = 0
  BY DEF Missing
<1>2. ASSUME NEW c \in Copies, c \notin raced' PROVE Carried(c)' <= 1
  <2>1. CASE c \in Missing(q)
    <3>1. orphans[c] = 0 /\ c \notin views /\ readModel[c] = 0
      BY <1>1, <1>2, <2>1
    <3> QED BY <2>1, <3>1 DEF Carried
  <2>2. CASE c \notin Missing(q)
    <3>1. Carried(c)' = Carried(c)
      BY <2>2 DEF Carried
    <3> QED BY <1>2, <3>1
  <2> QED BY <2>1, <2>2
<1>3. BackfillCompleted' = BackfillCompleted
  BY DEF BackfillCompleted
<1> QED BY <1>1, <1>2, <1>3

(***************************************************************************)
(* Every step keeps what is carried.                                       *)
(***************************************************************************)
LEMMA CopiesKeep ==
  ASSUME ClickHolds, CopiesHold, [MigrationNext]_migrationVars
  PROVE  CopiesHold'
<1>1. ASSUME UNCHANGED <<source, backfillVars>>, BackfillCompleted' => BackfillCompleted
      PROVE  CopiesHold'
  BY <1>1 DEF CopiesHold, Carried, backfillVars
<1>2. ASSUME UNCHANGED <<source, backfillVars, clickLedger>> PROVE CopiesHold'
  BY <1>1, <1>2 DEF BackfillCompleted
<1>3. CASE UNCHANGED migrationVars
  BY <1>2, <1>3 DEF migrationVars, backfillVars
<1>4. CASE FeedView
  <2>1. PICK c \in views : Land(c) /\ views' = views \ {c}
    BY <1>4 DEF FeedView
  <2>2. UNCHANGED <<source, orphans, raced, statement, clickLedger>>
    BY <1>4 DEF FeedView, storeVars
  <2>3. c \in source
    BY DEF CopiesHold
  <2> QED BY <2>1, <2>2, <2>3, LandKeeps
<1>5. CASE LandOrphan
  <2>1. PICK c \in Copies :
          orphans[c] > 0 /\ Land(c) /\ orphans' = [orphans EXCEPT ![c] = @ - 1]
    BY <1>5 DEF LandOrphan
  <2>2. UNCHANGED <<source, views, raced, statement, clickLedger>>
    BY <1>5 DEF LandOrphan, storeVars
  <2>3. c \in source
    BY <2>1 DEF CopiesHold
  <2> QED BY <2>1, <2>2, <2>3, LandKeeps
<1>6. ASSUME NEW p \in Booters,
             StartBoot(p) \/ LockMeta(p) \/ RunMetaMigration(p) \/ VerifyApplied(p)
               \/ ReleaseMeta(p) \/ LockClick(p) \/ Serve(p)
      PROVE  CopiesHold'
  BY <1>2, <1>6 DEF StartBoot, LockMeta, RunMetaMigration, VerifyApplied, ReleaseMeta,
                    LockClick, Serve, clickVars
<1>7. ASSUME NEW p \in Booters, RunClickMigration(p) PROVE CopiesHold'
  <2> DEFINE v == boot[p].version
             i == boot[p].step
  <2>1. UNCHANGED <<source, backfillVars>>
    BY <1>7 DEF RunClickMigration
  <2>2. CASE UNCHANGED clickLedger
    BY <1>2, <2>1, <2>2
  <2>3. CASE WriteLedger(p, v, "started")
    <3>1. \A r \in clickLedger' \ clickLedger : r.state = "started"
      BY <2>3 DEF WriteLedger
    <3> QED BY <1>1, <2>1, <3>1 DEF BackfillCompleted
  <2>4. CASE ClickVerified(v) /\ WriteLedger(p, v, "completed")
    <3>1. \A r \in clickLedger' \ clickLedger : r.version = v
      BY <2>4 DEF WriteLedger
    <3>2. CASE v # 2
      BY <1>1, <2>1, <3>1, <3>2 DEF BackfillCompleted
    <3>3. CASE v = 2
      <4>1. \A c \in source : readModel[c] > 0
        BY <2>4, <3>3 DEF ClickVerified
      <4> QED BY <2>1, <4>1 DEF CopiesHold, Carried, backfillVars
    <3> QED BY <3>2, <3>3
  <2> QED BY <1>7, <2>2, <2>3, <2>4 DEF RunClickMigration
<1>8. ASSUME NEW p \in Booters, RunBackfill(p) PROVE CopiesHold'
  <2> DEFINE i == boot[p].step
  <2>1. boot[p].at = "click" /\ UNCHANGED <<source, orphans, views, clickLedger>>
    BY <1>8 DEF RunBackfill
  <2>2. CASE i \in {1, 3}
    <3>1. /\ statement' = Missing(PairOf(i)) /\ UNCHANGED readModel
          /\ raced' = raced \cup {c \in Missing(PairOf(i)) : orphans[c] > 0 \/ c \in views}
      BY <1>8, <2>2 DEF RunBackfill
    <3>2. PairOf(i) \in Pairs
      BY DEF PairOf, Pairs
    <3>3. statement = {}
      BY <2>1, <2>2, NoStatement
    <3> QED BY <2>1, <3>1, <3>2, <3>3, ChooseKeeps
  <2>3. ASSUME NEW c \in statement, Land(c), statement' = statement \ {c}, UNCHANGED raced
        PROVE  CopiesHold'
    <3>1. c \in source
      BY DEF CopiesHold
    <3> QED BY <2>1, <2>3, <3>1, LandKeeps
  <2>4. CASE UNCHANGED <<readModel, statement, raced>>
    BY <1>2, <2>1, <2>4 DEF backfillVars
  <2> QED BY <1>8, <2>2, <2>3, <2>4 DEF RunBackfill
<1>9. ASSUME NEW p \in Booters, StoreRow(p) PROVE CopiesHold'
  <2>1. PICK d \in Copies \ source : source' = source \cup {d} /\ views' = views \cup {d}
    BY <1>9 DEF StoreRow
  <2>2. UNCHANGED <<readModel, orphans, raced, statement, clickLedger>>
    BY <1>9 DEF StoreRow, storeVars
  <2>3. d \notin statement /\ d \notin views /\ readModel[d] = 0 /\ orphans[d] = 0
    BY DEF CopiesHold
  <2>4. Carried(d)' <= 1
    BY <2>1, <2>2, <2>3 DEF Carried
  <2>5. \A c \in Copies \ {d} : Carried(c)' = Carried(c)
    BY <2>1, <2>2 DEF Carried
  <2>6. source' \ views' = source \ views'
    BY <2>1
  <2>7. BackfillCompleted' = BackfillCompleted
    BY <2>2 DEF BackfillCompleted
  <2> QED BY <2>1, <2>2, <2>4, <2>5, <2>6, <2>7 DEF CopiesHold
<1>10. ASSUME NEW p \in Booters, Die(p) PROVE CopiesHold'
  <2>1. UNCHANGED <<source, readModel, views, raced, clickLedger>>
    BY <1>10 DEF Die
  <2>2. CASE boot[p].at # "click"
    BY <1>2, <1>10, <2>1, <2>2 DEF Die, backfillVars
  <2>3. CASE boot[p].at = "click"
    <3>1. /\ orphans' = [c \in Copies |-> orphans[c] + IF c \in statement THEN 1 ELSE 0]
          /\ statement' = {}
      BY <1>10, <2>3 DEF Die
    <3>2. \A c \in Copies : orphans'[c] = orphans[c] + IF c \in statement THEN 1 ELSE 0
      BY <3>1
    <3>3. \A c \in Copies : orphans[c] + (IF c \in statement THEN 1 ELSE 0) \in Nat
      BY DEF CopiesHold
    <3>4. orphans' \in [Copies -> Nat]
      BY <3>1, <3>3
    <3>5. \A c \in Copies : Carried(c)' = Carried(c)
      BY <2>1, <3>1, <3>2 DEF Carried, CopiesHold
    <3>6. \A c \in Copies \ source : orphans'[c] = 0
      BY <3>2 DEF CopiesHold
    <3>7. BackfillCompleted' = BackfillCompleted
      BY <2>1 DEF BackfillCompleted
    <3> QED BY <2>1, <3>1, <3>4, <3>5, <3>6, <3>7 DEF CopiesHold
  <2> QED BY <2>2, <2>3
<1> QED BY <1>3, <1>4, <1>5, <1>6, <1>7, <1>8, <1>9, <1>10 DEF MigrationNext, BootStep

(***************************************************************************)
(* Whatever boots beside whatever else, dies while its backfill runs on at *)
(* the server, or is hidden by the clock of another: once the backfill is  *)
(* recorded as completed, no stored row whose view is done is missing from *)
(* its read model, and none is in it twice but one that a backfill chose   *)
(* while an abandoned one or its view was still to insert it.              *)
(***************************************************************************)
THEOREM ReadModelsStayExact == MigrationSpec => []ReadModelsAreExact
<1> DEFINE Inv == MetaInv /\ ClickHolds /\ CopiesHold
<1>1. MigrationInit => Inv
  <2> SUFFICES ASSUME MigrationInit PROVE ClickHolds /\ CopiesHold
    BY NothingMigrated
  <2>1. \A p \in Booters : boot[p].at # "click"
    BY DEF MigrationInit, NoBoot
  <2>2. /\ source \subseteq Copies /\ clickLedger = {}
        /\ statement = {} /\ views = {} /\ raced = {}
        /\ readModel = [c \in Copies |-> 0] /\ orphans = [c \in Copies |-> 0]
    BY DEF MigrationInit, Copies
  <2>3. \A c \in Copies : Carried(c) = 0
    BY <2>2 DEF Carried
  <2>4. ClickHolds
    BY <2>1, <2>2 DEF ClickHolds
  <2> QED BY <2>2, <2>3, <2>4 DEF CopiesHold, BackfillCompleted
<1>2. Inv /\ [MigrationNext]_migrationVars => Inv'
  BY MetaKeeps, ClickKeeps, CopiesKeep
<1>3. Inv => ReadModelsAreExact
  <2> SUFFICES ASSUME CopiesHold PROVE ReadModelsAreExact
    OBVIOUS
  <2>1. ASSUME NEW c \in Copies \ raced PROVE readModel[c] <= 1
    <3>1. Carried(c) <= 1 /\ readModel[c] \in Nat /\ orphans[c] \in Nat
      BY DEF CopiesHold
    <3> QED BY <3>1 DEF Carried
  <2> QED BY <2>1 DEF CopiesHold, ReadModelsAreExact
<1> QED BY <1>1, <1>2, <1>3, PTL DEF MigrationSpec
-----------------------------------------------------------------------------
\* The read-ahead.

ReadBatch == [start : Nat, end : Nat, loaded : BOOLEAN, failed : BOOLEAN]

(***************************************************************************)
(* The batches are in order and without a gap, and next is behind them.    *)
(***************************************************************************)
InOrder(bs, next) ==
  \A i \in DOMAIN bs :
    /\ bs[i].start <= bs[i].end /\ bs[i].end < next
    /\ i = Len(bs) => bs[i].end + 1 = next
    /\ \A j \in DOMAIN bs : /\ i < j => bs[i].end < bs[j].start
                            /\ j = i + 1 => bs[i].end + 1 = bs[j].start

Unsettled(bs) == {i \in DOMAIN bs : ~bs[i].loaded /\ ~bs[i].failed}

\* The fetches that batches still wait for.
Asked(bs, gen) ==
  {[generation |-> gen, start |-> bs[i].start, end |-> bs[i].end] : i \in Unsettled(bs)}

Width(bs, next) == IF bs = <<>> THEN 0 ELSE next - bs[1].start

SoundBuffer(b, gen) ==
  /\ b \in [batches : Seq(ReadBatch), inFlight : Nat, next : Nat]
  /\ InOrder(b.batches, b.next)
  /\ IsFiniteSet(Asked(b.batches, gen)) /\ b.inFlight = Cardinality(Asked(b.batches, gen))
  /\ b.inFlight <= FetchConcurrency
  /\ Width(b.batches, b.next) < MaxBuffered + FetchSize

ReadFetch == [generation : Nat, start : Nat, end : Nat]
FetchesOf(gen) == {f \in fetches : f.generation = gen}

PrefetchInv ==
  /\ generation \in Nat /\ limit \in Int /\ wanted \in Nat /\ waiting \in BOOLEAN
  /\ fetches \subseteq ReadFetch /\ \A f \in fetches : f.generation <= generation
  /\ SoundBuffer(Buffer, generation)
  /\ FetchesOf(generation) = Asked(batches, generation)
  /\ \A i \in DOMAIN batches : batches[i].end < wanted => batches[i].loaded
  /\ batches # <<>> => wanted <= nextStart
  /\ waiting => batches # <<>> /\ batches[1].start <= wanted /\ wanted < nextStart

(***************************************************************************)
(* The sum of the sizes of batches in order is the distance from the first *)
(* to the next height (bufferedBlocks).                                    *)
(***************************************************************************)
LEMMA BlocksInOrder ==
  ASSUME NEW bs \in Seq(ReadBatch), NEW next \in Nat, InOrder(bs, next)
  PROVE  Blocks(bs) = Width(bs, next)
<1> DEFINE size(n) == bs[n].end - bs[n].start + 1
           F(u) == [n \in 0 .. Len(bs) |-> IF n = 0 THEN 0 ELSE u[n - 1] + size(n)]
           upTo == CHOOSE u : u = F(u)
           w == [n \in 0 .. Len(bs) |-> IF n = 0 THEN 0 ELSE bs[n].end - bs[1].start + 1]
<1>1. Len(bs) \in Nat /\ DOMAIN bs = 1 .. Len(bs)
      /\ \A n \in 1 .. Len(bs) : bs[n].start \in Nat /\ bs[n].end \in Nat
  <2>1. \A n \in 1 .. Len(bs) : bs[n] \in ReadBatch
    OBVIOUS
  <2> QED BY <2>1 DEF ReadBatch
<1>2. w = F(w)
  <2> SUFFICES ASSUME NEW n \in 0 .. Len(bs), n # 0
               PROVE  w[n] = w[n - 1] + size(n)
    OBVIOUS
  <2>1. CASE n = 1
    BY <1>1, <2>1
  <2>2. CASE n # 1
    <3>1. n - 1 \in 1 .. Len(bs) /\ n \in 1 .. Len(bs) /\ n = (n - 1) + 1
      BY <1>1, <2>2
    <3>2. bs[n - 1].end + 1 = bs[n].start
      BY <1>1, <3>1 DEF InOrder
    <3>3. w[n] = bs[n].end - bs[1].start + 1 /\ w[n - 1] = bs[n - 1].end - bs[1].start + 1
      BY <3>1
    <3>4. 1 \in 1 .. Len(bs)
      BY <3>1
    <3>5. bs[1].start \in Nat /\ bs[n].start \in Nat /\ bs[n].end \in Nat /\ bs[n - 1].end \in Nat
      BY <1>1, <3>1, <3>4
    <3> DEFINE x == bs[n - 1].end
               y == bs[n].start
               u == bs[n].end
               z == bs[1].start
    <3>6. size(n) = u - y + 1 /\ w[n] = u - z + 1 /\ w[n - 1] = x - z + 1
      BY <3>3
    <3>7. x \in Nat /\ y \in Nat /\ u \in Nat /\ z \in Nat /\ x + 1 = y
      BY <3>2, <3>5
    <3> HIDE DEF w, size, x, y, u, z
    <3> QED BY <3>6, <3>7
  <2> QED BY <2>1, <2>2
<1>3. upTo = F(upTo)
  BY <1>2
<1>4. Blocks(bs) = upTo[Len(bs)]
  BY DEF Blocks
<1> HIDE DEF upTo
<1>5. \A n \in 0 .. Len(bs) : upTo[n] = IF n = 0 THEN 0 ELSE upTo[n - 1] + size(n)
  BY <1>3
<1>6. \A n \in 0 .. Len(bs) : w[n] = IF n = 0 THEN 0 ELSE w[n - 1] + size(n)
  BY <1>2
<1>7. upTo[Len(bs)] = w[Len(bs)]
  <2> DEFINE D == {n \in 0 .. Len(bs) : upTo[n] # w[n]}
  <2> SUFFICES ASSUME D # {} PROVE FALSE
    BY <1>1
  <2>1. PICK m \in D : \A k \in D : m <= k
    <3>1. D \subseteq Nat
      OBVIOUS
    <3> QED BY <3>1, LeastOf
  <2>2. m # 0
    BY <1>5, <1>6, <2>1
  <2>3. m - 1 \in 0 .. Len(bs) /\ m - 1 \notin D
    BY <1>1, <2>1, <2>2
  <2>4. upTo[m - 1] = w[m - 1]
    BY <2>3
  <2> QED BY <1>5, <1>6, <2>1, <2>2, <2>4
<1>8. CASE bs = <<>>
  BY <1>4, <1>7, <1>8 DEF Width
<1>9. CASE bs # <<>>
  <2>1. Len(bs) \in 1 .. Len(bs)
    BY <1>1, <1>9
  <2>2. bs[Len(bs)].end + 1 = next
    BY <1>1, <2>1 DEF InOrder
  <2>3. w[Len(bs)] = bs[Len(bs)].end - bs[1].start + 1
    BY <1>1, <2>1
  <2>4. bs[1].start \in Nat /\ bs[Len(bs)].end \in Nat
    BY <1>1, <2>1
  <2> HIDE DEF w
  <2> QED BY <1>4, <1>7, <1>9, <2>2, <2>3, <2>4 DEF Width
<1> QED BY <1>8, <1>9

(***************************************************************************)
(* The rounds of pump: each schedules a batch behind the one before.       *)
(***************************************************************************)
LEMMA RoundsFollow ==
  ASSUME NEW b, NEW lim \in Int
  PROVE  /\ 0 <= lim + 1 => Rounds(b, lim)[0] = b
         /\ \A k \in 0 .. lim + 1 : k # 0 =>
              Rounds(b, lim)[k] = Scheduled(Rounds(b, lim)[k - 1], lim)
<1> DEFINE F(n, r) == [k \in 0 .. n |-> IF k = 0 THEN b ELSE Scheduled(r[k - 1], lim)]
<1>1. \A n \in Nat : \E r : r = F(n, r)
  <2> DEFINE D == {n \in Nat : ~ \E r : r = F(n, r)}
  <2> SUFFICES ASSUME D # {} PROVE FALSE
    OBVIOUS
  <2>1. PICK n \in D : \A k \in D : n <= k
    <3>1. D \subseteq Nat
      OBVIOUS
    <3> HIDE DEF D
    <3> QED BY <3>1, LeastOf
  <2>2. n # 0
    <3> DEFINE r == [k \in 0 .. 0 |-> b]
    <3>1. r = F(0, r)
      OBVIOUS
    <3> HIDE DEF r
    <3> QED BY <2>1, <3>1
  <2>3. n - 1 \in Nat /\ n - 1 \notin D
    <3>1. n \in Nat
      BY <2>1
    <3> HIDE DEF D
    <3> QED BY <2>1, <2>2, <3>1
  <2>4. PICK r : r = F(n - 1, r)
    BY <2>3
  <2> DEFINE s == [k \in 0 .. n |-> IF k = n THEN Scheduled(r[n - 1], lim) ELSE r[k]]
  <2>5. ASSUME NEW k \in 0 .. n
        PROVE  s[k] = IF k = 0 THEN b ELSE Scheduled(s[k - 1], lim)
    <3>1. CASE k = n
      <4>1. n - 1 \in 0 .. n /\ n - 1 # n
        BY <2>2
      <4>2. s[k] = Scheduled(r[n - 1], lim) /\ s[k - 1] = r[n - 1]
        BY <3>1, <4>1
      <4> QED BY <2>2, <3>1, <4>2
    <3>2. CASE k # n
      <4>1. k \in 0 .. n - 1 /\ s[k] = r[k]
        BY <3>2
      <4>2. r[k] = IF k = 0 THEN b ELSE Scheduled(r[k - 1], lim)
        BY <2>4, <4>1
      <4>3. k # 0 => k - 1 \in 0 .. n /\ k - 1 # n
        BY <4>1
      <4>4. k # 0 => s[k - 1] = r[k - 1]
        BY <4>3
      <4> QED BY <4>1, <4>2, <4>4
    <3> QED BY <3>1, <3>2
  <2>6. s = F(n, s)
    BY <2>5
  <2> HIDE DEF s
  <2> QED BY <2>1, <2>6
<1>2. Rounds(b, lim) = CHOOSE r : r = F(lim + 1, r)
  BY DEF Rounds
<1>3. 0 <= lim + 1 => Rounds(b, lim) = F(lim + 1, Rounds(b, lim))
  <2> HIDE DEF F
  <2> QED BY <1>1, <1>2
<1> QED BY <1>3

(***************************************************************************)
(* One more batch: it lies behind the others, nobody has fetched it, and   *)
(* the bounds hold since either it is the only one or the budget admitted  *)
(* it (schedule, hasBudget).                                               *)
(***************************************************************************)
LEMMA ScheduledSound ==
  ASSUME NEW b, NEW gen \in Nat, SoundBuffer(b, gen), NEW lim \in Int, b.next <= lim,
         \/ b.batches = <<>> /\ b.inFlight = 0
         \/ b.inFlight < FetchConcurrency /\ Blocks(b.batches) < MaxBuffered
  PROVE  LET c == Scheduled(b, lim)  n == Len(b.batches) IN
         /\ SoundBuffer(c, gen) /\ b.next < c.next
         /\ Len(c.batches) = n + 1
         /\ \A i \in 1 .. n : c.batches[i] = b.batches[i]
         /\ c.batches[n + 1].start = b.next
         /\ ~c.batches[n + 1].loaded /\ ~c.batches[n + 1].failed
<1> DEFINE n == Len(b.batches)
           end == Lesser(lim, b.next + FetchSize - 1)
           new == [start |-> b.next, end |-> end, loaded |-> FALSE, failed |-> FALSE]
           bs == Append(b.batches, new)
           c == Scheduled(b, lim)
<1>1. /\ b.batches \in Seq(ReadBatch) /\ b.inFlight \in Nat /\ b.next \in Nat
      /\ n \in Nat /\ DOMAIN b.batches = 1 .. n
      /\ InOrder(b.batches, b.next)
  BY DEF SoundBuffer
<1>2. end \in Nat /\ b.next <= end /\ end < b.next + FetchSize
  BY <1>1, PrefetchConstants DEF Lesser
<1>3. /\ c.batches = bs /\ c.inFlight = b.inFlight + 1 /\ c.next = end + 1
      /\ c = [batches |-> bs, inFlight |-> b.inFlight + 1, next |-> end + 1]
  BY DEF Scheduled
<1>4. new \in ReadBatch
  BY <1>1, <1>2 DEF ReadBatch
<1>5. /\ new.start = b.next /\ new.end = end /\ ~new.loaded /\ ~new.failed
  OBVIOUS
<1> HIDE DEF end, new
<1>6. /\ bs \in Seq(ReadBatch) /\ Len(bs) = n + 1 /\ DOMAIN bs = 1 .. n + 1
      /\ \A i \in 1 .. n : bs[i] = b.batches[i]
      /\ bs[n + 1] = new
  BY <1>1, <1>4, AppendProperties
<1> HIDE DEF bs, c
<1>7. \A i \in 1 .. n : /\ b.batches[i].start \in Nat /\ b.batches[i].end \in Nat
  <2>1. \A i \in 1 .. n : b.batches[i] \in ReadBatch
    BY <1>1
  <2> QED BY <2>1 DEF ReadBatch
<1>8. InOrder(bs, end + 1)
  <2> SUFFICES ASSUME NEW i \in 1 .. n + 1
               PROVE  /\ bs[i].start <= bs[i].end /\ bs[i].end < end + 1
                      /\ i = Len(bs) => bs[i].end + 1 = end + 1
                      /\ \A j \in 1 .. n + 1 :
                           /\ i < j => bs[i].end < bs[j].start
                           /\ j = i + 1 => bs[i].end + 1 = bs[j].start
    BY <1>6 DEF InOrder
  <2>1. CASE i = n + 1
    BY <1>1, <1>2, <1>5, <1>6, <2>1
  <2>2. CASE i # n + 1
    <3>1. i \in 1 .. n /\ bs[i] = b.batches[i]
      BY <1>1, <1>6, <2>2
    <3>2. /\ bs[i].start <= bs[i].end /\ bs[i].end < b.next
          /\ i = n => bs[i].end + 1 = b.next
      BY <1>1, <3>1 DEF InOrder
    <3>3. ASSUME NEW j \in 1 .. n + 1
          PROVE  /\ i < j => bs[i].end < bs[j].start
                 /\ j = i + 1 => bs[i].end + 1 = bs[j].start
      <4>1. CASE j = n + 1
        BY <1>1, <1>5, <1>6, <3>1, <3>2, <4>1
      <4>2. CASE j # n + 1
        <5>1. j \in 1 .. n /\ bs[j] = b.batches[j]
          BY <1>1, <1>6, <4>2
        <5> QED BY <1>1, <3>1, <5>1 DEF InOrder
      <4> QED BY <4>1, <4>2
    <3>4. bs[i].end \in Nat
      BY <1>7, <3>1
    <3> QED BY <1>1, <1>2, <1>6, <2>2, <3>2, <3>3, <3>4
  <2> QED BY <2>1, <2>2
<1>9. /\ IsFiniteSet(Asked(bs, gen))
      /\ b.inFlight + 1 = Cardinality(Asked(bs, gen))
  <2> DEFINE f == [generation |-> gen, start |-> b.next, end |-> end]
  <2>1. Unsettled(bs) = Unsettled(b.batches) \cup {n + 1}
    BY <1>1, <1>5, <1>6 DEF Unsettled
  <2>2. \A i \in Unsettled(b.batches) : i \in 1 .. n /\ bs[i] = b.batches[i]
    BY <1>1, <1>6 DEF Unsettled
  <2>3. Asked(bs, gen) = Asked(b.batches, gen) \cup {f}
    BY <1>5, <1>6, <2>1, <2>2 DEF Asked
  <2>4. f \notin Asked(b.batches, gen)
    <3> SUFFICES ASSUME NEW i \in Unsettled(b.batches), b.batches[i].start = b.next
                 PROVE  FALSE
      BY DEF Asked
    <3>1. i \in 1 .. n
      BY <2>2
    <3>2. b.batches[i].start <= b.batches[i].end /\ b.batches[i].end < b.next
      BY <1>1, <3>1 DEF InOrder
    <3> QED BY <1>1, <1>7, <3>1, <3>2
  <2>5. IsFiniteSet(Asked(b.batches, gen)) /\ b.inFlight = Cardinality(Asked(b.batches, gen))
    BY DEF SoundBuffer
  <2> HIDE DEF f
  <2> QED BY <2>3, <2>4, <2>5, FS_AddElement
<1>10. b.inFlight + 1 <= FetchConcurrency
  BY <1>1, PrefetchConstants DEF SoundBuffer
<1>11. Width(bs, end + 1) < MaxBuffered + FetchSize
  <2>1. bs # <<>> /\ 1 \in 1 .. n + 1
    BY <1>1, <1>6
  <2>2. Width(bs, end + 1) = (end + 1) - bs[1].start
    BY <2>1 DEF Width
  <2>3. CASE b.batches = <<>>
    <3>1. bs[1].start = b.next
      BY <1>5, <1>6, <2>3
    <3> QED BY <1>1, <1>2, <2>2, <3>1, PrefetchConstants
  <2>4. CASE b.batches # <<>>
    <3>1. 1 \in 1 .. n
      BY <1>1, <2>4
    <3>2. bs[1] = b.batches[1] /\ b.batches[1].start \in Nat
      BY <1>6, <1>7, <3>1
    <3>3. Blocks(b.batches) = Width(b.batches, b.next)
      BY <1>1, BlocksInOrder
    <3>4. Width(b.batches, b.next) = b.next - b.batches[1].start
      BY <2>4 DEF Width
    <3>5. b.next - b.batches[1].start < MaxBuffered
      BY <2>4, <3>3, <3>4
    <3>6. ASSUME NEW s \in Nat PROVE b.next - s < MaxBuffered => (end + 1) - s < MaxBuffered + FetchSize
      BY <1>1, <1>2, PrefetchConstants
    <3> QED BY <2>2, <3>2, <3>5, <3>6
  <2> QED BY <2>3, <2>4
<1>12. SoundBuffer(c, gen)
  BY <1>1, <1>2, <1>3, <1>6, <1>8, <1>9, <1>10, <1>11 DEF SoundBuffer
<1>13. b.next < c.next /\ Len(c.batches) = n + 1
       /\ (\A i \in 1 .. n : c.batches[i] = b.batches[i]) /\ c.batches[n + 1] = new
  BY <1>1, <1>2, <1>3, <1>6
<1> QED BY <1>5, <1>12, <1>13 DEF c

\* The buffer c begins with the batches of b; the others are new.
Extends(b, c) ==
  /\ b.next <= c.next /\ Len(b.batches) <= Len(c.batches)
  /\ \A i \in 1 .. Len(b.batches) : c.batches[i] = b.batches[i]
  /\ \A i \in Len(b.batches) + 1 .. Len(c.batches) :
       b.next <= c.batches[i].start /\ ~c.batches[i].loaded /\ ~c.batches[i].failed
  /\ Len(c.batches) = Len(b.batches) => c = b
  /\ Len(c.batches) > Len(b.batches) => c.batches[Len(b.batches) + 1].start = b.next

(***************************************************************************)
(* Wherever the loop of pump stops, the buffer is sound, begins with what  *)
(* it was and reaches beyond the wanted height.                            *)
(***************************************************************************)
LEMMA PumpSound ==
  ASSUME NEW b, NEW gen \in Nat, SoundBuffer(b, gen), NEW at \in Nat, NEW lim \in Int,
         b.next <= at => b.batches = <<>> /\ b.inFlight = 0 /\ b.next = at,
         NEW c \in Pump(b, at, lim)
  PROVE  SoundBuffer(c, gen) /\ Extends(b, c) /\ (at <= lim => at < c.next)
<1> DEFINE after == Rounds(b, lim)
           Good(k) == SoundBuffer(after[k], gen) /\ Extends(b, after[k])
                      /\ (k # 0 => at < after[k].next)
<1>1. PICK m \in 0 .. lim + 1 : /\ c = after[m] /\ MayStop(after[m], at, lim)
                                /\ \A j \in 0 .. m - 1 : GoesOn(after[j], at, lim)
  BY DEF Pump
<1> HIDE DEF after
<1>2. m \in Nat /\ lim + 1 \in Nat
  BY <1>1
<1>3. /\ after[0] = b
      /\ \A k \in 1 .. m : after[k] = Scheduled(after[k - 1], lim)
  <2>1. \A k \in 1 .. m : k \in 0 .. lim + 1 /\ k # 0
    BY <1>1, <1>2
  <2> QED BY <1>2, <2>1, RoundsFollow DEF after
<1>4. b.next \in Nat /\ Len(b.batches) \in Nat
  BY DEF SoundBuffer
<1>5. Good(0)
  BY <1>3, <1>4 DEF Extends
<1>6. ASSUME NEW k \in 1 .. m, Good(k - 1) PROVE Good(k)
  <2> DEFINE d == after[k - 1]
             e == after[k]
  <2>1. k - 1 \in 0 .. m - 1 /\ e = Scheduled(d, lim)
    BY <1>2, <1>3
  <2>2. GoesOn(d, at, lim) /\ SoundBuffer(d, gen) /\ Extends(b, d)
    BY <1>1, <1>6, <2>1
  <2>3. d.next <= at => d.batches = <<>> /\ d.inFlight = 0 /\ d.next = at
    <3>1. CASE k = 1
      BY <1>3, <3>1
    <3>2. CASE k # 1
      <4>1. at < d.next
        BY <1>6, <3>2
      <4>2. d.next \in Nat
        BY <2>2 DEF SoundBuffer
      <4> QED BY <4>1, <4>2
    <3> QED BY <3>1, <3>2
  <2> HIDE DEF d, e
  <2>4. \/ d.batches = <<>> /\ d.inFlight = 0
        \/ d.inFlight < FetchConcurrency /\ Blocks(d.batches) < MaxBuffered
    BY <2>2, <2>3 DEF GoesOn, MustSchedule, MaySchedule
  <2>5. LET n == Len(d.batches) IN
        /\ SoundBuffer(e, gen) /\ d.next < e.next
        /\ Len(e.batches) = n + 1
        /\ \A i \in 1 .. n : e.batches[i] = d.batches[i]
        /\ e.batches[n + 1].start = d.next
        /\ ~e.batches[n + 1].loaded /\ ~e.batches[n + 1].failed
    BY <2>1, <2>2, <2>4, ScheduledSound DEF GoesOn
  <2>6. d.next \in Nat /\ e.next \in Nat /\ Len(d.batches) \in Nat
    BY <2>2, <2>5 DEF SoundBuffer
  <2>7. at < e.next
    <3>1. at <= d.next
      BY <2>3, <2>6
    <3> QED BY <2>5, <2>6, <3>1
  <2>8. Extends(b, e)
    <3> DEFINE n == Len(b.batches)
               l == Len(d.batches)
    <3>1. /\ b.next <= d.next /\ n <= l
          /\ \A i \in 1 .. n : d.batches[i] = b.batches[i]
          /\ \A i \in n + 1 .. l :
               b.next <= d.batches[i].start /\ ~d.batches[i].loaded /\ ~d.batches[i].failed
          /\ l = n => d = b
          /\ l > n => d.batches[n + 1].start = b.next
      BY <2>2 DEF Extends
    <3>2. b.next <= e.next /\ Len(e.batches) = l + 1 /\ n <= l + 1
      BY <1>4, <2>5, <2>6, <3>1
    <3>3. \A i \in 1 .. n : e.batches[i] = b.batches[i]
      BY <1>4, <2>5, <2>6, <3>1
    <3>4. ASSUME NEW i \in n + 1 .. l + 1
          PROVE  b.next <= e.batches[i].start /\ ~e.batches[i].loaded /\ ~e.batches[i].failed
      <4>1. CASE i = l + 1
        BY <1>4, <2>5, <2>6, <3>1, <4>1
      <4>2. CASE i # l + 1
        <5>1. i \in n + 1 .. l /\ i \in 1 .. l
          BY <1>4, <2>6, <4>2
        <5> QED BY <2>5, <3>1, <5>1
      <4> QED BY <4>1, <4>2
    <3>5. e.batches[n + 1].start = b.next
      <4>1. CASE l = n
        BY <2>5, <3>1, <4>1
      <4>2. CASE l > n
        <5>1. n + 1 \in 1 .. l
          BY <1>4, <2>6, <4>2
        <5> QED BY <2>5, <3>1, <4>2, <5>1
      <4> QED BY <1>4, <2>6, <3>1, <4>1, <4>2
    <3>6. Len(e.batches) # n
      BY <1>4, <2>6, <3>1, <3>2
    <3> HIDE DEF n, l
    <3> QED BY <3>2, <3>3, <3>4, <3>5, <3>6 DEF Extends, n, l
  <2> QED BY <2>5, <2>7, <2>8 DEF e
<1>7. Good(m)
  <2> DEFINE D == {k \in 0 .. m : ~Good(k)}
  <2> SUFFICES ASSUME D # {} PROVE FALSE
    BY <1>2
  <2>1. PICK k \in D : \A j \in D : k <= j
    <3>1. D \subseteq Nat
      BY <1>2
    <3> HIDE DEF D
    <3> QED BY <3>1, LeastOf
  <2>2. k # 0
    BY <1>5, <2>1
  <2>3. k \in 1 .. m /\ k - 1 \in 0 .. m /\ k - 1 \notin D
    <3>1. k \in 0 .. m
      BY <2>1
    <3>2. k \in 1 .. m /\ k - 1 \in 0 .. m /\ ~(k <= k - 1)
      BY <1>2, <2>2, <3>1
    <3> HIDE DEF D
    <3> QED BY <2>1, <3>2
  <2> HIDE DEF Good
  <2>4. Good(k - 1)
    BY <2>3
  <2> QED BY <1>6, <2>1, <2>3, <2>4
<1>8. ASSUME at <= lim PROVE at < c.next
  <2>1. c.next \in Nat
    BY <1>1, <1>7 DEF SoundBuffer
  <2> QED BY <1>1, <1>8, <2>1 DEF MayStop, MustSchedule
<1> QED BY <1>1, <1>7, <1>8

LEMMA BatchFields ==
  ASSUME NEW bs \in Seq(ReadBatch)
  PROVE  /\ Len(bs) \in Nat /\ DOMAIN bs = 1 .. Len(bs)
         /\ (bs = <<>>) = (Len(bs) = 0)
         /\ \A i \in 1 .. Len(bs) : /\ bs[i] \in ReadBatch
                                    /\ bs[i].start \in Nat /\ bs[i].end \in Nat
                                    /\ bs[i].loaded \in BOOLEAN /\ bs[i].failed \in BOOLEAN
<1>1. \A i \in 1 .. Len(bs) : bs[i] \in ReadBatch
  OBVIOUS
<1> QED BY <1>1 DEF ReadBatch

(***************************************************************************)
(* Aligning the read-ahead to a height drops the batches behind it, which  *)
(* have all settled: what is asked for stays the same (alignTo).           *)
(***************************************************************************)
LEMMA AlignedSound ==
  ASSUME NEW h \in Nat, SoundBuffer(Buffer, generation), batches # <<>>,
         batches[1].start <= h, h <= nextStart,
         \A i \in DOMAIN batches : batches[i].end < h => batches[i].loaded
  PROVE  LET kept == Aligned(h)  b == [Buffer EXCEPT !.batches = kept] IN
         /\ SoundBuffer(b, generation)
         /\ Asked(kept, generation) = Asked(batches, generation)
         /\ \A i \in 1 .. Len(kept) : h <= kept[i].end
         /\ kept # <<>> => kept[1].start <= h
         /\ b.batches = kept /\ b.inFlight = inFlight /\ b.next = nextStart
         /\ nextStart <= h => kept = <<>> /\ inFlight = 0 /\ nextStart = h
         /\ kept = <<>> => nextStart = h
<1> DEFINE n == Len(batches)
           D == {i \in 1 .. n : batches[i].end < h}
           d == Cardinality(D)
           kept == Aligned(h)
           b == [Buffer EXCEPT !.batches = kept]
<1>1. /\ batches \in Seq(ReadBatch) /\ inFlight \in Nat /\ nextStart \in Nat
      /\ InOrder(batches, nextStart)
      /\ IsFiniteSet(Asked(batches, generation))
      /\ inFlight = Cardinality(Asked(batches, generation))
      /\ inFlight <= FetchConcurrency
      /\ Width(batches, nextStart) < MaxBuffered + FetchSize
  BY DEF SoundBuffer, Buffer
<1>2. /\ n \in Nat \ {0} /\ DOMAIN batches = 1 .. n
      /\ \A i \in 1 .. n : /\ batches[i] \in ReadBatch
                           /\ batches[i].start \in Nat /\ batches[i].end \in Nat
  BY <1>1, BatchFields
<1>3. /\ \A i \in 1 .. n : batches[i].start <= batches[i].end /\ batches[i].end < nextStart
      /\ batches[n].end + 1 = nextStart
      /\ \A i \in 1 .. n, j \in 1 .. n : /\ i < j => batches[i].end < batches[j].start
                                         /\ j = i + 1 => batches[i].end + 1 = batches[j].start
  <2>1. n \in 1 .. n /\ n = Len(batches)
    BY <1>2
  <2> HIDE DEF n
  <2>2. \A i \in 1 .. n :
          /\ batches[i].start <= batches[i].end /\ batches[i].end < nextStart
          /\ i = n => batches[i].end + 1 = nextStart
          /\ \A j \in 1 .. n : /\ i < j => batches[i].end < batches[j].start
                              /\ j = i + 1 => batches[i].end + 1 = batches[j].start
    BY <1>1, <1>2, <2>1 DEF InOrder
  <2>3. \A i \in 1 .. n : batches[i].start <= batches[i].end /\ batches[i].end < nextStart
    BY <2>2
  <2>4. batches[n].end + 1 = nextStart
    BY <2>1, <2>2
  <2>5. ASSUME NEW i \in 1 .. n, NEW j \in 1 .. n
        PROVE  /\ i < j => batches[i].end < batches[j].start
               /\ j = i + 1 => batches[i].end + 1 = batches[j].start
    <3>1. DOMAIN batches = 1 .. n
      BY <1>2
    <3>2. InOrder(batches, nextStart)
      BY <1>1
    <3> QED BY <3>1, <3>2 DEF InOrder
  <2> QED BY <2>3, <2>4, <2>5
<1> HIDE DEF n
<1>4. d \in 0 .. n /\ D = 1 .. d
  <2>1. CASE D = {}
    <3>1. d = 0
      BY <2>1, FS_EmptySet
    <3>2. D = 1 .. d /\ d \in 0 .. n
      <4> HIDE DEF D, d
      <4> QED BY <1>2, <2>1, <3>1
    <3> QED BY <3>2
  <2>2. CASE D # {}
    <3>1. PICK m \in D : \A k \in D : k <= m
      <4>1. D \subseteq Int /\ \A k \in D : k <= n
        BY <1>2
      <4>2. n \in Int
        BY <1>2
      <4> HIDE DEF D
      <4> QED BY <2>2, <4>1, <4>2, GreatestOf
    <3>2. m \in 1 .. n /\ batches[m].end < h
      BY <3>1
    <3>3. D = 1 .. m
      <4>1. ASSUME NEW i \in 1 .. m PROVE i \in D
        <5>1. i \in 1 .. n
          BY <1>2, <3>2
        <5>2. CASE i = m
          BY <3>1, <5>2
        <5>3. CASE i # m
          <6>1. batches[i].end < batches[m].start /\ batches[m].start <= batches[m].end
            BY <1>3, <3>2, <5>1, <5>3
          <6> QED BY <1>2, <3>2, <5>1, <6>1
        <5> QED BY <5>2, <5>3
      <4>2. \A i \in D : i \in 1 .. m
        BY <3>1, <3>2
      <4> HIDE DEF D
      <4> QED BY <4>1, <4>2
    <3>4. d = m
      <4>1. m \in Int /\ 1 <= m
        BY <1>2, <3>2
      <4>2. Cardinality(1 .. m) = m
        BY <4>1, FS_Interval
      <4> QED BY <3>3, <4>2
    <3>5. D = 1 .. d /\ d \in 0 .. n
      <4> HIDE DEF D, d
      <4> QED BY <1>2, <3>2, <3>3, <3>4
    <3> QED BY <3>5
  <2> QED BY <2>1, <2>2
<1>5. kept = SubSeq(batches, d + 1, n)
  BY DEF Aligned, n
<1> HIDE DEF D, d, kept
<1>6. \A i \in 1 .. d : batches[i].end < h
  BY <1>4 DEF D
<1>7. \A i \in d + 1 .. n : i \in 1 .. n /\ h <= batches[i].end
  <2>1. \A i \in d + 1 .. n : i \in 1 .. n /\ i \notin D
    BY <1>2, <1>4
  <2> QED BY <1>2, <2>1 DEF D
<1>8. /\ kept \in Seq(ReadBatch) /\ Len(kept) = n - d
      /\ \A i \in 1 .. n - d : kept[i] = batches[d + i] /\ d + i \in d + 1 .. n
  <2>1. d + 1 \in Int /\ n \in Int /\ \A i \in d + 1 .. n : batches[i] \in ReadBatch
    BY <1>2, <1>4, <1>7
  <2>2. /\ kept \in Seq(ReadBatch)
        /\ Len(kept) = IF d + 1 <= n THEN n - (d + 1) + 1 ELSE 0
        /\ \A i \in 1 .. n - (d + 1) + 1 : kept[i] = batches[(d + 1) + i - 1]
    BY <1>5, <2>1, SubSeqProperties
  <2>3. n - (d + 1) + 1 = n - d /\ \A i \in 1 .. n - d : (d + 1) + i - 1 = d + i
    BY <1>2, <1>4
  <2> QED BY <1>2, <1>4, <2>2, <2>3
<1>9. InOrder(kept, nextStart)
  <2> SUFFICES ASSUME NEW i \in 1 .. n - d
               PROVE  /\ kept[i].start <= kept[i].end /\ kept[i].end < nextStart
                      /\ i = n - d => kept[i].end + 1 = nextStart
                      /\ \A j \in 1 .. n - d :
                           /\ i < j => kept[i].end < kept[j].start
                           /\ j = i + 1 => kept[i].end + 1 = kept[j].start
    BY <1>8, BatchFields DEF InOrder
  <2>1. kept[i] = batches[d + i] /\ d + i \in 1 .. n
    BY <1>7, <1>8
  <2>2. i = n - d => d + i = n
    BY <1>2, <1>4
  <2>3. ASSUME NEW j \in 1 .. n - d
        PROVE  /\ i < j => kept[i].end < kept[j].start
               /\ j = i + 1 => kept[i].end + 1 = kept[j].start
    <3>1. kept[j] = batches[d + j] /\ d + j \in 1 .. n
      BY <1>7, <1>8
    <3>2. (i < j => d + i < d + j) /\ (j = i + 1 => d + j = (d + i) + 1)
      BY <1>2, <1>4
    <3> QED BY <1>3, <2>1, <3>1, <3>2
  <2> QED BY <1>3, <2>1, <2>2, <2>3
<1>10. Asked(kept, generation) = Asked(batches, generation)
  <2> DEFINE fetch(x) == [generation |-> generation, start |-> x.start, end |-> x.end]
  <2>1. DOMAIN kept = 1 .. n - d
    BY <1>8, BatchFields
  <2>2. ASSUME NEW i \in Unsettled(kept) PROVE fetch(kept[i]) \in Asked(batches, generation)
    <3>1. kept[i] = batches[d + i] /\ d + i \in Unsettled(batches)
      BY <1>2, <1>7, <1>8, <2>1 DEF Unsettled
    <3> QED BY <3>1 DEF Asked
  <2>3. ASSUME NEW i \in Unsettled(batches) PROVE fetch(batches[i]) \in Asked(kept, generation)
    <3>1. i \in 1 .. n /\ i \notin 1 .. d
      BY <1>2, <1>6 DEF Unsettled
    <3>2. i - d \in 1 .. n - d /\ d + (i - d) = i
      BY <1>2, <1>4, <3>1
    <3>3. kept[i - d] = batches[i]
      BY <1>8, <3>2
    <3>4. i - d \in Unsettled(kept)
      BY <2>1, <3>2, <3>3 DEF Unsettled
    <3> QED BY <3>3, <3>4 DEF Asked
  <2> QED BY <2>2, <2>3 DEF Asked
<1>11. kept # <<>> => d + 1 \in 1 .. n /\ kept[1] = batches[d + 1] /\ 1 \in 1 .. n - d
  <2>1. kept # <<>> => n - d # 0
    BY <1>8, BatchFields
  <2>2. n - d # 0 => 1 \in 1 .. n - d
    BY <1>2, <1>4
  <2> QED BY <1>7, <1>8, <2>1, <2>2
<1>12. kept # <<>> => kept[1].start <= h
  <2> SUFFICES ASSUME kept # <<>> PROVE batches[d + 1].start <= h
    BY <1>11
  <2>1. CASE d = 0
    BY <2>1
  <2>2. CASE d # 0
    <3>1. d \in 1 .. n /\ d \in 1 .. d /\ d + 1 \in 1 .. n
      BY <1>2, <1>4, <1>11, <2>2
    <3>2. batches[d].end < h /\ batches[d].end + 1 = batches[d + 1].start
      BY <1>3, <1>6, <3>1
    <3> QED BY <1>2, <3>1, <3>2
  <2> QED BY <2>1, <2>2
<1>13. Width(kept, nextStart) < MaxBuffered + FetchSize
  <2>1. CASE kept = <<>>
    <3>1. Width(kept, nextStart) = 0
      BY <2>1 DEF Width
    <3> QED BY <3>1, PrefetchConstants
  <2>2. CASE kept # <<>>
    <3>1. d + 1 \in 1 .. n /\ kept[1] = batches[d + 1]
      BY <1>11, <2>2
    <3>2. batches[1].start <= batches[d + 1].start
      <4>1. CASE d = 0
        BY <1>2, <4>1
      <4>2. CASE d # 0
        <5>1. 1 \in 1 .. n /\ 1 < d + 1
          BY <1>2, <1>4, <4>2
        <5>2. batches[1].start <= batches[1].end /\ batches[1].end < batches[d + 1].start
          BY <1>3, <3>1, <5>1
        <5> QED BY <1>2, <3>1, <5>1, <5>2
      <4> QED BY <4>1, <4>2
    <3>3. Width(kept, nextStart) = nextStart - batches[d + 1].start
          /\ Width(batches, nextStart) = nextStart - batches[1].start
      BY <2>2, <3>1 DEF Width
    <3>4. batches[1].start \in Nat /\ batches[d + 1].start \in Nat
      BY <1>2, <3>1
    <3> DEFINE s == batches[1].start
               t == batches[d + 1].start
    <3>5. /\ s \in Nat /\ t \in Nat /\ s <= t /\ nextStart - s < MaxBuffered + FetchSize
          /\ Width(kept, nextStart) = nextStart - t
      BY <1>1, <3>2, <3>3, <3>4
    <3> HIDE DEF s, t
    <3> QED BY <1>1, <3>5, PrefetchConstants
  <2> QED BY <2>1, <2>2
<1>14. b.batches = kept /\ b.inFlight = inFlight /\ b.next = nextStart
       /\ b = [batches |-> kept, inFlight |-> inFlight, next |-> nextStart]
  BY DEF Buffer
<1>15. SoundBuffer(b, generation)
  <2> HIDE DEF b
  <2> QED BY <1>1, <1>8, <1>9, <1>10, <1>13, <1>14 DEF SoundBuffer
<1>16. ASSUME nextStart <= h PROVE kept = <<>> /\ inFlight = 0 /\ nextStart = h
  <2>1. nextStart = h
    BY <1>1, <1>16
  <2>2. \A i \in 1 .. n : batches[i].end < h
    BY <1>3, <2>1
  <2>3. kept = <<>>
    <3> SUFFICES ASSUME kept # <<>> PROVE FALSE
      OBVIOUS
    <3>1. d + 1 \in 1 .. n /\ d + 1 \in d + 1 .. n
      BY <1>2, <1>4, <1>11
    <3>2. h <= batches[d + 1].end /\ batches[d + 1].end < h /\ batches[d + 1].end \in Nat
      BY <1>2, <1>7, <2>2, <3>1
    <3> QED BY <3>2
  <2>4. Asked(batches, generation) = {}
    BY <1>10, <2>3 DEF Asked, Unsettled
  <2> QED BY <1>1, <2>1, <2>3, <2>4, FS_EmptySet
<1>17. \A i \in 1 .. Len(kept) : h <= kept[i].end
  BY <1>7, <1>8
<1>18. ASSUME kept = <<>> PROVE nextStart = h
  <2>1. n = d
    BY <1>2, <1>4, <1>8, <1>18, BatchFields
  <2>2. n \in 1 .. n /\ n \in 1 .. d
    BY <1>2, <2>1
  <2>3. batches[n].end < h /\ batches[n].end + 1 = nextStart /\ batches[n].end \in Nat
    BY <1>2, <1>3, <1>6, <2>2
  <2> QED BY <1>1, <2>3
<1> QED BY <1>10, <1>12, <1>14, <1>15, <1>16, <1>17, <1>18 DEF kept

\* The fetches of the batches of c that b has not.
NewFetches(b, c, gen) ==
  {[generation |-> gen, start |-> c.batches[i].start, end |-> c.batches[i].end] :
     i \in Len(b.batches) + 1 .. Len(c.batches)}

\* The running fetches fit the buffer b of generation gen.
Matches(S, b, gen) ==
  /\ S \subseteq ReadFetch /\ \A f \in S : f.generation <= gen
  /\ {f \in S : f.generation = gen} = Asked(b.batches, gen)

(***************************************************************************)
(* When the fetches of the new batches are made, the running fetches of    *)
(* the generation are again those that batches wait for (pump).            *)
(***************************************************************************)
LEMMA FetchesFollow ==
  ASSUME NEW gen \in Nat, NEW b, NEW c, SoundBuffer(b, gen), SoundBuffer(c, gen), Extends(b, c),
         NEW S, Matches(S, b, gen)
  PROVE  Matches(S \cup NewFetches(b, c, gen), c, gen)
<1> DEFINE n == Len(b.batches)
           l == Len(c.batches)
           fetch(x) == [generation |-> gen, start |-> x.start, end |-> x.end]
<1>1. /\ b.batches \in Seq(ReadBatch) /\ c.batches \in Seq(ReadBatch)
      /\ n \in Nat /\ l \in Nat /\ DOMAIN b.batches = 1 .. n /\ DOMAIN c.batches = 1 .. l
      /\ \A i \in 1 .. l : c.batches[i].start \in Nat /\ c.batches[i].end \in Nat
  BY BatchFields DEF SoundBuffer
<1>2. /\ n <= l
      /\ \A i \in 1 .. n : c.batches[i] = b.batches[i]
      /\ \A i \in n + 1 .. l : ~c.batches[i].loaded /\ ~c.batches[i].failed
  BY DEF Extends
<1>3. \A i \in n + 1 .. l : i \in 1 .. l
  BY <1>1
<1>4. NewFetches(b, c, gen) \subseteq ReadFetch /\ \A f \in NewFetches(b, c, gen) : f.generation = gen
  BY <1>1, <1>3 DEF NewFetches, ReadFetch
<1> HIDE DEF n, l
<1>5. Unsettled(c.batches) = Unsettled(b.batches) \cup (n + 1 .. l)
  <2>1. \A i \in 1 .. n : i \in 1 .. l
    BY <1>1, <1>2
  <2>2. \A i \in 1 .. l : i \in 1 .. n \/ i \in n + 1 .. l
    BY <1>1
  <2> QED BY <1>1, <1>2, <1>3, <2>1, <2>2 DEF Unsettled
<1>6. \A i \in Unsettled(b.batches) : c.batches[i] = b.batches[i]
  BY <1>1, <1>2 DEF Unsettled
<1>7. Asked(c.batches, gen) = Asked(b.batches, gen) \cup NewFetches(b, c, gen)
  BY <1>5, <1>6 DEF Asked, NewFetches, n, l
<1> QED BY <1>4, <1>7 DEF Matches

(***************************************************************************)
(* What is new in the buffer lies at or above the height that no batch     *)
(* covered.                                                                *)
(***************************************************************************)
LEMMA NewBatchesAreLater ==
  ASSUME NEW gen \in Nat, NEW b, NEW c, SoundBuffer(b, gen), SoundBuffer(c, gen), Extends(b, c)
  PROVE  /\ \A i \in 1 .. Len(b.batches) : i \in 1 .. Len(c.batches)
                                           /\ c.batches[i].start < b.next
         /\ \A i \in 1 .. Len(c.batches) : i \notin 1 .. Len(b.batches) =>
              i \in Len(b.batches) + 1 .. Len(c.batches)
              /\ b.next <= c.batches[i].start /\ b.next <= c.batches[i].end
<1> DEFINE n == Len(b.batches)
           l == Len(c.batches)
<1>1. /\ n \in Nat /\ l \in Nat /\ b.next \in Nat
      /\ DOMAIN b.batches = 1 .. n /\ DOMAIN c.batches = 1 .. l
      /\ \A i \in 1 .. n : b.batches[i].start \in Nat /\ b.batches[i].end \in Nat
      /\ \A i \in 1 .. l : c.batches[i].start \in Nat /\ c.batches[i].end \in Nat
  BY BatchFields DEF SoundBuffer
<1>2. /\ n <= l
      /\ \A i \in 1 .. n : c.batches[i] = b.batches[i]
      /\ \A i \in n + 1 .. l : b.next <= c.batches[i].start
  BY DEF Extends
<1>3. InOrder(b.batches, b.next) /\ InOrder(c.batches, c.next)
  BY DEF SoundBuffer
<1> HIDE DEF n, l
<1>4. ASSUME NEW i \in 1 .. n PROVE i \in 1 .. l /\ c.batches[i].start < b.next
  <2>1. b.batches[i].start <= b.batches[i].end /\ b.batches[i].end < b.next
    BY <1>1, <1>3 DEF InOrder
  <2>2. b.batches[i].start < b.next
    BY <1>1, <2>1
  <2> QED BY <1>1, <1>2, <2>2
<1>5. ASSUME NEW i \in 1 .. l, i \notin 1 .. n
      PROVE  i \in n + 1 .. l /\ b.next <= c.batches[i].start /\ b.next <= c.batches[i].end
  <2>1. i \in n + 1 .. l
    BY <1>1, <1>5
  <2>2. b.next <= c.batches[i].start /\ c.batches[i].start <= c.batches[i].end
    BY <1>1, <1>2, <1>3, <2>1 DEF InOrder
  <2>3. b.next <= c.batches[i].end
    BY <1>1, <2>2
  <2> QED BY <2>1, <2>2, <2>3
<1> QED BY <1>4, <1>5 DEF n, l

(***************************************************************************)
(* Get: the buffer, aligned or fresh, is sound before the read-ahead and   *)
(* reaches beyond the wanted height after it.                              *)
(***************************************************************************)
LEMMA GetStep ==
  ASSUME PrefetchInv, NEW readAhead \in Int, Get(readAhead)
  PROVE  PrefetchInv'
<1> DEFINE kept == [Buffer EXCEPT !.batches = Aligned(wanted)]
           fresh == [batches |-> <<>>, inFlight |-> 0, next |-> wanted]
           gen == IF Covers(wanted) THEN generation ELSE generation + 1
           b == IF gen = generation THEN kept ELSE fresh
<1>1. /\ generation \in Nat /\ wanted \in Nat /\ fetches \subseteq ReadFetch
      /\ \A f \in fetches : f.generation <= generation
      /\ SoundBuffer(Buffer, generation) /\ FetchesOf(generation) = Asked(batches, generation)
      /\ \A i \in DOMAIN batches : batches[i].end < wanted => batches[i].loaded
  BY DEF PrefetchInv
<1>2. nextStart \in Nat
  BY <1>1 DEF SoundBuffer, Buffer
<1>3. PICK c \in Pump(b, wanted, readAhead) : Install(c, gen)
  BY DEF Get
<1>4. /\ wanted <= readAhead /\ limit' = readAhead /\ generation' = gen /\ waiting' = TRUE
      /\ wanted' = wanted
  BY DEF Get
<1> HIDE DEF b, gen
<1>5. gen \in Nat
  BY <1>1 DEF gen
<1>6. /\ SoundBuffer(b, gen) /\ Matches(fetches, b, gen)
      /\ b.next <= wanted => b.batches = <<>> /\ b.inFlight = 0 /\ b.next = wanted
      /\ b.batches = <<>> => b.next = wanted
      /\ \A i \in 1 .. Len(b.batches) : wanted <= b.batches[i].end
      /\ b.batches # <<>> => b.batches[1].start <= wanted
      /\ wanted <= b.next
      /\ gen = generation => b.next = nextStart
      /\ gen # generation => b.batches = <<>>
  <2>1. CASE Covers(wanted)
    <3>1. gen = generation /\ b = kept
      BY <2>1 DEF gen, b
    <3>2. batches # <<>> /\ batches[1].start <= wanted /\ wanted <= nextStart
      <4>1. batches # <<>> /\ wanted >= batches[1].start /\ wanted <= nextStart
        BY <2>1 DEF Covers
      <4>2. batches[1].start \in Nat
        <5>1. batches \in Seq(ReadBatch)
          BY <1>1 DEF SoundBuffer, Buffer
        <5>2. 1 \in 1 .. Len(batches)
          BY <4>1, <5>1, BatchFields
        <5> QED BY <5>1, <5>2, BatchFields
      <4> QED BY <1>1, <4>1, <4>2
    <3>3. LET k == Aligned(wanted)  d == [Buffer EXCEPT !.batches = k] IN
          /\ SoundBuffer(d, generation)
          /\ Asked(k, generation) = Asked(batches, generation)
          /\ \A i \in 1 .. Len(k) : wanted <= k[i].end
          /\ k # <<>> => k[1].start <= wanted
          /\ d.batches = k /\ d.inFlight = inFlight /\ d.next = nextStart
          /\ nextStart <= wanted => k = <<>> /\ inFlight = 0 /\ nextStart = wanted
          /\ k = <<>> => nextStart = wanted
      BY <1>1, <3>2, AlignedSound
    <3>4. Matches(fetches, b, gen)
      BY <1>1, <3>1, <3>3 DEF Matches, FetchesOf
    <3> HIDE DEF kept
    <3> QED BY <3>1, <3>2, <3>3, <3>4 DEF kept
  <2>2. CASE ~Covers(wanted)
    <3>1. gen = generation + 1 /\ gen # generation /\ b = fresh
      BY <1>1, <2>2 DEF gen, b
    <3>2. b.batches = <<>> /\ b.inFlight = 0 /\ b.next = wanted
      BY <3>1
    <3>3. Asked(b.batches, gen) = {}
      BY <3>2 DEF Asked, Unsettled
    <3>4. SoundBuffer(b, gen)
      <4>1. InOrder(b.batches, b.next) /\ Width(b.batches, b.next) = 0
        BY <3>2 DEF InOrder, Width
      <4>2. b \in [batches : Seq(ReadBatch), inFlight : Nat, next : Nat]
        BY <1>1, <3>1
      <4>3. IsFiniteSet(Asked(b.batches, gen)) /\ Cardinality(Asked(b.batches, gen)) = 0
        BY <3>3, FS_EmptySet
      <4> QED BY <3>2, <4>1, <4>2, <4>3, PrefetchConstants DEF SoundBuffer
    <3>5. Matches(fetches, b, gen)
      <4>1. \A f \in fetches : f.generation \in Nat
        BY <1>1 DEF ReadFetch
      <4>2. \A f \in fetches : f.generation <= gen /\ f.generation # gen
        BY <1>1, <3>1, <4>1
      <4> QED BY <1>1, <3>3, <4>2 DEF Matches
    <3> QED BY <1>1, <3>1, <3>2, <3>4, <3>5
  <2> QED BY <2>1, <2>2
<1> HIDE DEF kept, fresh
<1>7. SoundBuffer(c, gen) /\ Extends(b, c) /\ wanted < c.next
  BY <1>1, <1>3, <1>4, <1>5, <1>6, PumpSound
<1>8. Matches(fetches \cup NewFetches(b, c, gen), c, gen)
  BY <1>5, <1>6, <1>7, FetchesFollow
<1>9. /\ \A i \in 1 .. Len(b.batches) : i \in 1 .. Len(c.batches) /\ c.batches[i].start < b.next
      /\ \A i \in 1 .. Len(c.batches) : i \notin 1 .. Len(b.batches) =>
           i \in Len(b.batches) + 1 .. Len(c.batches)
           /\ b.next <= c.batches[i].start /\ b.next <= c.batches[i].end
  BY <1>5, <1>6, <1>7, NewBatchesAreLater
<1>10. /\ c.batches \in Seq(ReadBatch) /\ b.batches \in Seq(ReadBatch)
       /\ Len(b.batches) \in Nat /\ Len(c.batches) \in Nat /\ b.next \in Nat /\ c.next \in Nat
       /\ DOMAIN c.batches = 1 .. Len(c.batches)
       /\ \A i \in 1 .. Len(c.batches) : c.batches[i].start \in Nat /\ c.batches[i].end \in Nat
  BY <1>6, <1>7, BatchFields DEF SoundBuffer
<1>11. batches' = c.batches /\ inFlight' = c.inFlight /\ nextStart' = c.next
  BY <1>3 DEF Install
<1>12. fetches' = fetches \cup NewFetches(b, c, gen)
  <2> DEFINE I == {i \in 1 .. Len(c.batches) : c.batches[i].start >= nextStart \/ gen # generation}
  <2>1. fetches' = fetches \cup
          {[generation |-> gen, start |-> c.batches[i].start, end |-> c.batches[i].end] : i \in I}
    BY <1>3 DEF Install
  <2>2. ASSUME NEW i \in Len(b.batches) + 1 .. Len(c.batches) PROVE i \in I
    <3>1. i \in 1 .. Len(c.batches) /\ i \notin 1 .. Len(b.batches)
      BY <1>10
    <3> QED BY <1>2, <1>6, <1>9, <1>10, <3>1
  <2>3. ASSUME NEW i \in I PROVE i \in Len(b.batches) + 1 .. Len(c.batches)
    <3>1. CASE gen = generation
      <4>1. nextStart = b.next /\ i \in 1 .. Len(c.batches) /\ b.next <= c.batches[i].start
        BY <1>2, <1>6, <1>10, <3>1
      <4>2. i \notin 1 .. Len(b.batches)
        BY <1>9, <1>10, <4>1
      <4> QED BY <1>9, <4>1, <4>2
    <3>2. CASE gen # generation
      <4>1. i \notin 1 .. Len(b.batches)
        BY <1>6, <3>2
      <4> QED BY <1>9, <4>1
    <3> QED BY <3>1, <3>2
  <2>4. I = Len(b.batches) + 1 .. Len(c.batches)
    <3> HIDE DEF I
    <3> QED BY <2>2, <2>3
  <2> HIDE DEF I
  <2> QED BY <2>1, <2>4 DEF NewFetches
<1>13. \A i \in 1 .. Len(c.batches) : ~(c.batches[i].end < wanted)
  <2> SUFFICES ASSUME NEW i \in 1 .. Len(c.batches) PROVE wanted <= c.batches[i].end
    BY <1>1, <1>10
  <2>1. CASE i \in 1 .. Len(b.batches)
    BY <1>6, <1>7, <2>1 DEF Extends
  <2>2. CASE i \notin 1 .. Len(b.batches)
    BY <1>1, <1>6, <1>9, <1>10, <2>2
  <2> QED BY <2>1, <2>2
<1>14. c.batches # <<>> /\ c.batches[1].start <= wanted
  <2>1. CASE b.batches = <<>>
    <3>1. b.next = wanted /\ Len(b.batches) = 0
      BY <1>6, <1>10, <2>1, BatchFields
    <3>2. Len(c.batches) # 0
      <4> SUFFICES ASSUME Len(c.batches) = 0 PROVE FALSE
        OBVIOUS
      <4>1. c = b
        BY <1>7, <3>1 DEF Extends
      <4> QED BY <1>1, <1>7, <3>1, <4>1
    <3>3. c.batches[1].start = b.next
      <4>1. Len(c.batches) > Len(b.batches) /\ Len(b.batches) + 1 = 1
        BY <1>10, <3>1, <3>2
      <4> QED BY <1>7, <4>1 DEF Extends
    <3> QED BY <1>1, <1>10, <3>1, <3>2, <3>3, BatchFields
  <2>2. CASE b.batches # <<>>
    <3>1. 1 \in 1 .. Len(b.batches)
      BY <1>10, <2>2, BatchFields
    <3>2. c.batches[1] = b.batches[1] /\ 1 \in 1 .. Len(c.batches)
      BY <1>7, <1>9, <3>1 DEF Extends
    <3>3. Len(c.batches) # 0
      BY <1>10, <3>2
    <3> QED BY <1>6, <1>10, <2>2, <3>2, <3>3, BatchFields
  <2> QED BY <2>1, <2>2
<1>15. Buffer' = c
  BY <1>7, <1>11 DEF Buffer, SoundBuffer
<1>16. SoundBuffer(Buffer, generation)'
  BY <1>4, <1>7, <1>15 DEF SoundBuffer, Asked, Unsettled, InOrder, Width
<1>17. /\ fetches' \subseteq ReadFetch /\ \A f \in fetches' : f.generation <= generation'
       /\ FetchesOf(generation)' = Asked(batches, generation)'
  BY <1>4, <1>8, <1>11, <1>12 DEF Matches, FetchesOf, Asked, Unsettled
<1> QED BY <1>1, <1>4, <1>5, <1>7, <1>10, <1>11, <1>13, <1>14, <1>16, <1>17 DEF PrefetchInv

(***************************************************************************)
(* A fetch of this generation that settles leaves the fetches that batches *)
(* wait for; one of an earlier generation settles into the void (settle).  *)
(***************************************************************************)
LEMMA SettleStep ==
  ASSUME PrefetchInv, NEW f \in fetches, Settle(f)
  PROVE  PrefetchInv'
<1> DEFINE n == Len(batches)
<1>1. /\ generation \in Nat /\ wanted \in Nat /\ fetches \subseteq ReadFetch /\ limit \in Int
      /\ waiting \in BOOLEAN
      /\ \A g \in fetches : g.generation <= generation
      /\ SoundBuffer(Buffer, generation) /\ FetchesOf(generation) = Asked(batches, generation)
      /\ \A i \in DOMAIN batches : batches[i].end < wanted => batches[i].loaded
      /\ batches # <<>> => wanted <= nextStart
      /\ waiting => batches # <<>> /\ batches[1].start <= wanted /\ wanted < nextStart
  BY DEF PrefetchInv
<1>2. UNCHANGED <<generation, limit, wanted, waiting>>
  BY DEF Settle
<1>3. /\ batches \in Seq(ReadBatch) /\ inFlight \in Nat /\ nextStart \in Nat
      /\ InOrder(batches, nextStart)
      /\ IsFiniteSet(Asked(batches, generation))
      /\ inFlight = Cardinality(Asked(batches, generation))
      /\ inFlight <= FetchConcurrency
      /\ Width(batches, nextStart) < MaxBuffered + FetchSize
  BY <1>1 DEF SoundBuffer, Buffer
<1>4. /\ n \in Nat /\ DOMAIN batches = 1 .. n
      /\ \A i \in 1 .. n : /\ batches[i] \in ReadBatch
                           /\ batches[i].start \in Nat /\ batches[i].end \in Nat
  BY <1>3, BatchFields
<1>5. CASE f.generation # generation
  <2>1. fetches' = fetches \ {f} /\ UNCHANGED <<batches, inFlight, nextStart>>
    BY <1>5 DEF Settle, SettleCounts
  <2>2. FetchesOf(generation)' = FetchesOf(generation)
    BY <1>2, <1>5, <2>1 DEF FetchesOf
  <2>3. SoundBuffer(Buffer, generation)' /\ Asked(batches, generation)' = Asked(batches, generation)
    BY <1>1, <1>2, <2>1 DEF SoundBuffer, Buffer, Asked, Unsettled, InOrder, Width
  <2> QED BY <1>1, <1>2, <2>1, <2>2, <2>3 DEF PrefetchInv
<1>6. CASE f.generation = generation
  <2>1. PICK k \in Unsettled(batches) :
          f = [generation |-> generation, start |-> batches[k].start, end |-> batches[k].end]
    BY <1>1, <1>6 DEF FetchesOf, Asked
  <2>2. k \in 1 .. n /\ ~batches[k].loaded /\ ~batches[k].failed
    BY <1>4, <2>1 DEF Unsettled
  <2> DEFINE filled(ok) == [i \in 1 .. n |->
                              IF batches[i].start = f.start
                              THEN [batches[i] EXCEPT !.loaded = ok, !.failed = ~ok]
                              ELSE batches[i]]
             before(ok) == [batches |-> filled(ok), inFlight |-> inFlight - 1, next |-> nextStart]
  <2>3. batches # <<>> /\ 1 \in 1 .. n
    BY <1>3, <1>4, <2>2, BatchFields
  <2>4. PICK ok \in BOOLEAN :
          \E p \in (IF ok THEN Pump(before(ok), batches[1].start, limit) ELSE {before(ok)}) :
            /\ batches' = p.batches /\ inFlight' = p.inFlight /\ nextStart' = p.next
            /\ fetches' = (fetches \ {f}) \cup
                 {[generation |-> generation, start |-> p.batches[i].start,
                   end |-> p.batches[i].end] : i \in n + 1 .. Len(p.batches)}
    BY <1>6, <2>3 DEF Settle, SettleCounts
  <2> DEFINE fl == filled(ok)
             b == before(ok)
  <2>5. PICK p \in (IF ok THEN Pump(b, batches[1].start, limit) ELSE {b}) :
            /\ batches' = p.batches /\ inFlight' = p.inFlight /\ nextStart' = p.next
            /\ fetches' = (fetches \ {f}) \cup
                 {[generation |-> generation, start |-> p.batches[i].start,
                   end |-> p.batches[i].end] : i \in n + 1 .. Len(p.batches)}
    BY <2>4
  <2>6. /\ b.batches = fl /\ b.inFlight = inFlight - 1 /\ b.next = nextStart
        /\ b = [batches |-> fl, inFlight |-> inFlight - 1, next |-> nextStart]
    OBVIOUS
  <2> HIDE DEF n, b
  <2>7. \A i \in 1 .. n : batches[i].start = batches[k].start => i = k
    <3> SUFFICES ASSUME NEW i \in 1 .. n, i # k PROVE batches[i].start # batches[k].start
      OBVIOUS
    <3>1. batches[i].start <= batches[i].end /\ batches[k].start <= batches[k].end
      BY <1>3, <1>4, <2>2 DEF InOrder
    <3>2. CASE i < k
      <4>1. batches[i].end < batches[k].start
        BY <1>3, <1>4, <2>2, <3>2 DEF InOrder
      <4> QED BY <1>4, <2>2, <3>1, <4>1
    <3>3. CASE k < i
      <4>1. batches[k].end < batches[i].start
        BY <1>3, <1>4, <2>2, <3>3 DEF InOrder
      <4> QED BY <1>4, <2>2, <3>1, <4>1
    <3> QED BY <1>4, <2>2, <3>2, <3>3
  <2>8. /\ DOMAIN fl = 1 .. n
        /\ \A i \in 1 .. n : i # k => fl[i] = batches[i]
        /\ fl[k] = [batches[k] EXCEPT !.loaded = ok, !.failed = ~ok]
    <3>1. \A i \in 1 .. n : (batches[i].start = f.start) = (i = k)
      BY <2>1, <2>2, <2>7
    <3> QED BY <2>2, <3>1
  <2> HIDE DEF fl
  <2>9. /\ fl[k] \in ReadBatch /\ fl[k].start = batches[k].start /\ fl[k].end = batches[k].end
        /\ fl[k].loaded = ok /\ fl[k].failed = ~ok
    <3>1. batches[k] \in ReadBatch
      BY <1>4, <2>2
    <3> QED BY <2>8, <3>1 DEF ReadBatch
  <2>10. fl \in Seq(ReadBatch) /\ Len(fl) = n
    <3>1. \A i \in 1 .. n : fl[i] \in ReadBatch
      BY <1>4, <2>8, <2>9
    <3>2. fl = [i \in 1 .. n |-> fl[i]]
      BY DEF fl
    <3>3. n \in Nat
      BY <1>4
    <3> HIDE DEF n
    <3> QED BY <3>1, <3>2, <3>3
  <2>11. \A i \in 1 .. n : fl[i].start = batches[i].start /\ fl[i].end = batches[i].end
    BY <2>8, <2>9
  <2>12. InOrder(fl, nextStart)
    BY <1>3, <1>4, <2>8, <2>10, <2>11 DEF InOrder, n
  <2>13. Asked(fl, generation) = Asked(batches, generation) \ {f}
    <3>1. Unsettled(fl) = Unsettled(batches) \ {k}
      BY <1>4, <2>2, <2>8, <2>9 DEF Unsettled
    <3>2. \A i \in Unsettled(batches) : i \in 1 .. n
      BY <1>4 DEF Unsettled
    <3>3. \A i \in Unsettled(batches) \ {k} : fl[i] = batches[i] /\ batches[i].start # f.start
      BY <2>1, <2>7, <2>8, <3>2
    <3>4. Asked(fl, generation)
            = {[generation |-> generation, start |-> batches[i].start, end |-> batches[i].end] :
                 i \in Unsettled(batches) \ {k}}
      BY <3>1, <3>3 DEF Asked
    <3> QED BY <2>1, <3>3, <3>4 DEF Asked
  <2>14. f \in Asked(batches, generation)
    BY <2>1 DEF Asked
  <2>15. /\ IsFiniteSet(Asked(fl, generation))
         /\ inFlight - 1 = Cardinality(Asked(fl, generation)) /\ inFlight - 1 \in Nat
    <3>1. /\ IsFiniteSet(Asked(batches, generation) \ {f})
          /\ Cardinality(Asked(batches, generation) \ {f}) = inFlight - 1
      BY <1>3, <2>14, FS_RemoveElement
    <3> QED BY <2>13, <3>1, FS_CardinalityType
  <2>16. Width(fl, nextStart) < MaxBuffered + FetchSize
    <3>1. fl # <<>>
      BY <2>3, <2>10, BatchFields DEF n
    <3>2. fl[1].start = batches[1].start
      BY <2>3, <2>11
    <3>3. Width(fl, nextStart) = Width(batches, nextStart)
      BY <2>3, <3>1, <3>2 DEF Width
    <3> QED BY <1>3, <3>3
  <2>17. SoundBuffer(b, generation)
    <3>1. inFlight - 1 <= FetchConcurrency
      BY <1>3, PrefetchConstants
    <3>2. b \in [batches : Seq(ReadBatch), inFlight : Nat, next : Nat]
      BY <1>3, <2>6, <2>10, <2>15
    <3> QED BY <2>6, <2>12, <2>15, <2>16, <3>1, <3>2 DEF SoundBuffer
  <2>18. Matches(fetches \ {f}, b, generation)
    BY <1>1, <2>6, <2>13 DEF Matches, FetchesOf
  <2>19. ~(nextStart <= batches[1].start)
    <3>1. batches[1].start <= batches[1].end /\ batches[1].end < nextStart
      BY <1>3, <1>4, <2>3 DEF InOrder
    <3> QED BY <1>3, <1>4, <2>3, <3>1
  <2>20. SoundBuffer(p, generation) /\ Extends(b, p)
    <3>1. CASE ok
      <4>1. p \in Pump(b, batches[1].start, limit)
        BY <2>5, <3>1
      <4>2. batches[1].start \in Nat
        BY <1>4, <2>3
      <4>3. ~(b.next <= batches[1].start)
        BY <2>6, <2>19
      <4> QED BY <1>1, <2>17, <4>1, <4>2, <4>3, PumpSound
    <3>2. CASE ~ok
      <4>1. p = b
        BY <2>5, <3>2
      <4> QED BY <1>3, <1>4, <2>6, <2>10, <2>17, <4>1 DEF Extends
    <3> QED BY <3>1, <3>2
  <2>21. fetches' = (fetches \ {f}) \cup NewFetches(b, p, generation)
    <3>1. Len(b.batches) = n
      BY <2>6, <2>10
    <3> QED BY <2>5, <3>1 DEF NewFetches
  <2>22. Matches(fetches', p, generation)
    BY <1>1, <2>17, <2>18, <2>20, <2>21, FetchesFollow
  <2>23. /\ \A i \in 1 .. n : i \in 1 .. Len(p.batches) /\ p.batches[i] = fl[i]
         /\ \A i \in 1 .. Len(p.batches) : i \notin 1 .. n => nextStart <= p.batches[i].end
         /\ p.batches \in Seq(ReadBatch) /\ DOMAIN p.batches = 1 .. Len(p.batches)
         /\ \A i \in 1 .. Len(p.batches) : p.batches[i].end \in Nat
         /\ nextStart <= p.next /\ p.next \in Nat
    <3>1. Len(b.batches) = n
      BY <2>6, <2>10
    <3>2. p.batches \in Seq(ReadBatch) /\ p.next \in Nat
      BY <2>20 DEF SoundBuffer
    <3> QED BY <1>1, <2>6, <2>17, <2>20, <3>1, <3>2, NewBatchesAreLater, BatchFields DEF Extends
  <2>24. ASSUME NEW i \in 1 .. Len(p.batches), p.batches[i].end < wanted
         PROVE  p.batches[i].loaded
    <3>1. i \in 1 .. n
      BY <1>1, <1>3, <2>3, <2>23, <2>24
    <3>2. batches[i].end < wanted
      BY <2>11, <2>23, <2>24, <3>1
    <3>3. batches[i].loaded
      BY <1>1, <1>4, <3>1, <3>2
    <3> QED BY <2>2, <2>8, <2>23, <3>1, <3>3
  <2>25. p.batches # <<>> /\ p.batches[1].start = batches[1].start
    <3>1. 1 \in 1 .. Len(p.batches) /\ p.batches[1] = fl[1]
      BY <2>3, <2>23
    <3> QED BY <2>3, <2>11, <2>23, <3>1, BatchFields
  <2>26. Buffer' = p
    BY <2>5, <2>20 DEF Buffer, SoundBuffer
  <2>27. SoundBuffer(Buffer, generation)'
    BY <1>2, <2>20, <2>26 DEF SoundBuffer, Asked, Unsettled, InOrder, Width
  <2>28. /\ fetches' \subseteq ReadFetch /\ \A g \in fetches' : g.generation <= generation'
         /\ FetchesOf(generation)' = Asked(batches, generation)'
    BY <1>2, <2>5, <2>22 DEF Matches, FetchesOf, Asked, Unsettled
  <2>29. /\ wanted <= p.next
         /\ waiting => wanted < p.next /\ p.batches[1].start <= wanted
    BY <1>1, <1>3, <2>3, <2>23, <2>25
  <2> QED BY <1>1, <1>2, <2>5, <2>23, <2>24, <2>25, <2>27, <2>28, <2>29 DEF PrefetchInv
<1> QED BY <1>5, <1>6

(***************************************************************************)
(* A reset drops the batches; the fetches of the new generation have not   *)
(* begun (snapshotFrom, backfillLoaderFor).                                *)
(***************************************************************************)
LEMMA ResetStep ==
  ASSUME PrefetchInv, DeliverError \/ ChangeSource
  PROVE  PrefetchInv'
<1>1. /\ generation \in Nat /\ wanted \in Nat /\ fetches \subseteq ReadFetch /\ limit \in Int
      /\ \A g \in fetches : g.generation <= generation
      /\ SoundBuffer(Buffer, generation)
  BY DEF PrefetchInv
<1>2. /\ generation' = generation + 1 /\ batches' = <<>> /\ inFlight' = 0 /\ waiting' = FALSE
      /\ UNCHANGED <<limit, nextStart, fetches, wanted>>
  <2>1. waiting \in BOOLEAN
    BY DEF PrefetchInv
  <2> QED BY <2>1 DEF DeliverError, ChangeSource
<1>3. nextStart \in Nat
  BY <1>1 DEF SoundBuffer, Buffer
<1>4. Asked(batches, generation)' = {}
  BY <1>2 DEF Asked, Unsettled
<1>5. \A g \in fetches : g.generation \in Nat
  BY <1>1 DEF ReadFetch
<1>6. FetchesOf(generation)' = {} /\ \A g \in fetches' : g.generation <= generation'
  BY <1>1, <1>2, <1>5 DEF FetchesOf
<1>7. SoundBuffer(Buffer, generation)'
  <2> DEFINE b == [batches |-> <<>>, inFlight |-> 0, next |-> nextStart]
  <2>1. Buffer' = b /\ generation + 1 \in Nat
    BY <1>1, <1>2 DEF Buffer
  <2>2. b \in [batches : Seq(ReadBatch), inFlight : Nat, next : Nat]
        /\ b.batches = <<>> /\ b.inFlight = 0 /\ b.next = nextStart
    BY <1>3
  <2> HIDE DEF b
  <2>3. Asked(b.batches, generation + 1) = {}
    BY <2>2 DEF Asked, Unsettled
  <2>4. InOrder(b.batches, b.next) /\ Width(b.batches, b.next) = 0
    BY <2>2 DEF InOrder, Width
  <2>5. IsFiniteSet(Asked(b.batches, generation + 1))
        /\ Cardinality(Asked(b.batches, generation + 1)) = 0
    BY <2>3, FS_EmptySet
  <2>6. SoundBuffer(b, generation + 1)
    BY <2>2, <2>4, <2>5, PrefetchConstants DEF SoundBuffer
  <2> QED BY <1>2, <2>1, <2>6 DEF SoundBuffer, Asked, Unsettled, InOrder, Width
<1>8. generation' \in Nat /\ batches' = <<>> /\ waiting' = FALSE /\ DOMAIN batches' = {}
  BY <1>1, <1>2
<1> QED BY <1>1, <1>2, <1>4, <1>6, <1>7, <1>8 DEF PrefetchInv

(***************************************************************************)
(* The consumer takes its height and goes on to the next, or falls back to *)
(* a lower one: the batches behind it have all been taken.                 *)
(***************************************************************************)
LEMMA ConsumerStep ==
  ASSUME PrefetchInv, Deliver \/ PlanAgain
  PROVE  PrefetchInv'
<1>1. /\ generation \in Nat /\ wanted \in Nat /\ fetches \subseteq ReadFetch /\ limit \in Int
      /\ \A g \in fetches : g.generation <= generation
      /\ SoundBuffer(Buffer, generation) /\ FetchesOf(generation) = Asked(batches, generation)
      /\ \A i \in DOMAIN batches : batches[i].end < wanted => batches[i].loaded
      /\ batches # <<>> => wanted <= nextStart
      /\ waiting => batches # <<>> /\ batches[1].start <= wanted /\ wanted < nextStart
  BY DEF PrefetchInv
<1>2. UNCHANGED <<batches, generation, inFlight, limit, nextStart, fetches>>
  BY DEF Deliver, PlanAgain
<1>3. /\ SoundBuffer(Buffer, generation)' /\ (FetchesOf(generation) = Asked(batches, generation))'
  BY <1>1, <1>2 DEF SoundBuffer, Buffer, FetchesOf, Asked, Unsettled, InOrder, Width
<1>4. batches \in Seq(ReadBatch) /\ nextStart \in Nat /\ InOrder(batches, nextStart)
  BY <1>1 DEF SoundBuffer, Buffer
<1>5. /\ DOMAIN batches = 1 .. Len(batches)
      /\ \A i \in DOMAIN batches : batches[i].start \in Nat /\ batches[i].end \in Nat
  BY <1>4, BatchFields
<1>6. CASE Deliver
  <2>1. /\ waiting /\ waiting' = FALSE /\ wanted' = wanted + 1
    BY <1>6 DEF Deliver
  <2>2. PICK i \in Holding : batches[i].loaded
    BY <1>6 DEF Deliver
  <2>3. i \in DOMAIN batches /\ batches[i].start <= wanted /\ wanted <= batches[i].end
    <3>1. i \in 1 .. Len(batches) /\ wanted \in batches[i].start .. batches[i].end
      BY <2>2 DEF Holding
    <3> QED BY <1>1, <1>5, <3>1
  <2>4. ASSUME NEW j \in DOMAIN batches, batches[j].end < wanted + 1 PROVE batches[j].loaded
    <3>1. CASE batches[j].end < wanted
      BY <1>1, <3>1
    <3>2. CASE ~(batches[j].end < wanted)
      <4>1. batches[j].end = wanted
        BY <1>1, <1>5, <2>4, <3>2
      <4>2. j = i
        <5>1. batches[j].start <= batches[j].end
          BY <1>4 DEF InOrder
        <5>2. ~(i < j) /\ ~(j < i)
          <6>1. i < j => batches[i].end < batches[j].start
            BY <1>4, <2>3 DEF InOrder
          <6>2. j < i => batches[j].end < batches[i].start
            BY <1>4, <2>3 DEF InOrder
          <6> QED BY <1>1, <1>5, <2>3, <4>1, <5>1, <6>1, <6>2
        <5> QED BY <1>5, <2>3, <5>2
      <4> QED BY <2>2, <4>2
    <3> QED BY <3>1, <3>2
  <2>5. wanted + 1 \in Nat /\ wanted + 1 <= nextStart
    BY <1>1, <1>4, <2>1
  <2> QED BY <1>1, <1>2, <1>3, <2>1, <2>4, <2>5 DEF PrefetchInv
<1>7. CASE PlanAgain
  <2>1. wanted' \in 0 .. wanted - 1 /\ ~waiting /\ waiting' = waiting
    BY <1>7 DEF PlanAgain
  <2>2. wanted' \in Nat /\ wanted' < wanted
    BY <1>1, <2>1
  <2>3. \A i \in DOMAIN batches : batches[i].end < wanted' => batches[i].end < wanted
    BY <1>1, <1>5, <2>2
  <2>4. batches # <<>> => wanted' <= nextStart
    BY <1>1, <1>4, <2>2
  <2> QED BY <1>1, <1>2, <1>3, <2>1, <2>2, <2>3, <2>4 DEF PrefetchInv
<1> QED BY <1>6, <1>7

PrefetchSpec == PrefetchInit /\ [][PrefetchNext]_prefetchVars

LEMMA PrefetchStarts == PrefetchInit => PrefetchInv
<1> SUFFICES ASSUME PrefetchInit PROVE PrefetchInv
  OBVIOUS
<1>1. /\ batches = <<>> /\ generation = 0 /\ inFlight = 0 /\ limit = -1 /\ nextStart = 0
      /\ fetches = {} /\ wanted = 0 /\ waiting = FALSE
  BY DEF PrefetchInit
<1>2. Asked(batches, generation) = {} /\ FetchesOf(generation) = {}
  BY <1>1 DEF Asked, Unsettled, FetchesOf
<1>3. InOrder(batches, nextStart) /\ Width(batches, nextStart) = 0
  BY <1>1 DEF InOrder, Width
<1>4. /\ Buffer.batches = batches /\ Buffer.inFlight = inFlight /\ Buffer.next = nextStart
      /\ Buffer \in [batches : Seq(ReadBatch), inFlight : Nat, next : Nat]
  BY <1>1 DEF Buffer
<1>5. IsFiniteSet(Asked(batches, generation)) /\ Cardinality(Asked(batches, generation)) = 0
  BY <1>2, FS_EmptySet
<1>6. SoundBuffer(Buffer, generation)
  <2> HIDE DEF Buffer
  <2> QED BY <1>1, <1>3, <1>4, <1>5, PrefetchConstants DEF SoundBuffer
<1>7. DOMAIN batches = {} /\ limit \in Int /\ generation \in Nat /\ wanted \in Nat
      /\ waiting = FALSE
  BY <1>1
<1> QED BY <1>1, <1>2, <1>6, <1>7 DEF PrefetchInv

LEMMA PrefetchSteps == PrefetchInv /\ [PrefetchNext]_prefetchVars => PrefetchInv'
<1> SUFFICES ASSUME PrefetchInv, [PrefetchNext]_prefetchVars PROVE PrefetchInv'
  OBVIOUS
<1>1. CASE \E readAhead \in {LastHeight - 1, LastHeight} : Get(readAhead)
  <2>1. LastHeight - 1 \in Int /\ LastHeight \in Int
    BY PrefetchConstants
  <2> QED BY <1>1, <2>1, GetStep
<1>2. CASE \E f \in fetches : Settle(f)
  BY <1>2, SettleStep
<1>3. CASE DeliverError \/ ChangeSource
  BY <1>3, ResetStep
<1>4. CASE Deliver \/ PlanAgain
  BY <1>4, ConsumerStep
<1>5. CASE UNCHANGED prefetchVars
  BY <1>5 DEF prefetchVars, PrefetchInv, SoundBuffer, Buffer, FetchesOf, Asked, Unsettled,
              InOrder, Width
<1> QED BY <1>1, <1>2, <1>3, <1>4, <1>5 DEF PrefetchNext

(***************************************************************************)
(* The counter of fetches in flight is the number of fetches of this       *)
(* generation that run, although fetches of earlier generations settle at  *)
(* any time, and the read-ahead stays within its bounds in blocks and in   *)
(* concurrency (pump, settle, hasBudget).                                  *)
(***************************************************************************)
THEOREM ReadAheadStaysAccounted == PrefetchSpec => []ReadAheadIsAccounted
<1>1. PrefetchInv => ReadAheadIsAccounted
  <2> SUFFICES ASSUME PrefetchInv PROVE ReadAheadIsAccounted
    OBVIOUS
  <2>1. SoundBuffer(Buffer, generation) /\ FetchesOf(generation) = Asked(batches, generation)
    BY DEF PrefetchInv
  <2>2. /\ batches \in Seq(ReadBatch) /\ nextStart \in Nat /\ InOrder(batches, nextStart)
        /\ inFlight = Cardinality(Asked(batches, generation)) /\ inFlight <= FetchConcurrency
        /\ Width(batches, nextStart) < MaxBuffered + FetchSize
    BY <2>1 DEF SoundBuffer, Buffer
  <2>3. InFlightIsExact
    BY <2>1, <2>2 DEF InFlightIsExact, FetchesOf
  <2>4. Blocks(batches) < MaxBuffered + FetchSize
    BY <2>2, BlocksInOrder
  <2>5. ASSUME NEW i \in 1 .. Len(batches) - 1
        PROVE  batches[i].end + 1 = batches[i + 1].start
    <3>1. i \in DOMAIN batches /\ i + 1 \in DOMAIN batches
      BY <2>2, BatchFields
    <3> QED BY <2>2, <3>1 DEF InOrder
  <2> QED BY <2>2, <2>3, <2>4, <2>5 DEF ReadAheadIsAccounted, ReadAheadIsBounded
<1> QED BY <1>1, PrefetchStarts, PrefetchSteps, PTL DEF PrefetchSpec

(***************************************************************************)
(* A consumer that waits always waits for a batch that is there and has    *)
(* settled or is being fetched: no reset, failure or realignment makes it  *)
(* wait for nothing (get, batchFor, snapshotFrom).                         *)
(***************************************************************************)
THEOREM EveryWaitIsAnswered == PrefetchSpec => []WaitIsAnswered
<1>1. PrefetchInv => WaitIsAnswered
  <2> SUFFICES ASSUME PrefetchInv, waiting PROVE
        \E i \in Holding :
          batches[i].loaded \/ batches[i].failed
          \/ [generation |-> generation, start |-> batches[i].start, end |-> batches[i].end]
               \in fetches
    BY DEF WaitIsAnswered
  <2> DEFINE n == Len(batches)
             S == {i \in 1 .. n : wanted <= batches[i].end}
  <2>1. /\ wanted \in Nat /\ batches # <<>> /\ batches[1].start <= wanted /\ wanted < nextStart
        /\ FetchesOf(generation) = Asked(batches, generation)
        /\ SoundBuffer(Buffer, generation)
    BY DEF PrefetchInv
  <2>2. batches \in Seq(ReadBatch) /\ nextStart \in Nat /\ InOrder(batches, nextStart)
    BY <2>1 DEF SoundBuffer, Buffer
  <2>3. /\ n \in Nat \ {0} /\ DOMAIN batches = 1 .. n
        /\ \A i \in 1 .. n : batches[i].start \in Nat /\ batches[i].end \in Nat
    BY <2>1, <2>2, BatchFields
  <2>4. n \in S
    <3>1. n \in 1 .. n
      BY <2>3
    <3>2. batches[n].end + 1 = nextStart
      BY <2>2, <2>3, <3>1 DEF InOrder
    <3>3. wanted <= batches[n].end
      BY <2>1, <2>2, <2>3, <3>1, <3>2
    <3> QED BY <3>1, <3>3
  <2>5. PICK m \in S : \A k \in S : m <= k
    <3>1. S \subseteq Nat
      BY <2>3
    <3> HIDE DEF S
    <3> QED BY <2>4, <3>1, LeastOf
  <2>6. m \in 1 .. n /\ wanted <= batches[m].end
    BY <2>5
  <2>7. batches[m].start <= wanted
    <3>1. CASE m = 1
      BY <2>1, <3>1
    <3>2. CASE m # 1
      <4>1. m - 1 \in 1 .. n /\ m = (m - 1) + 1 /\ ~(m <= m - 1)
        BY <2>3, <2>6, <3>2
      <4>2. m - 1 \notin S
        BY <2>5, <4>1
      <4>3. ~(wanted <= batches[m - 1].end)
        BY <4>1, <4>2
      <4>4. batches[m - 1].end + 1 = batches[m].start
        BY <2>2, <2>3, <2>6, <4>1 DEF InOrder
      <4>5. batches[m - 1].end \in Nat
        BY <2>3, <4>1
      <4> DEFINE e == batches[m - 1].end
      <4>6. e \in Nat /\ ~(wanted <= e) /\ e + 1 = batches[m].start
        BY <4>3, <4>4, <4>5
      <4> HIDE DEF e
      <4> QED BY <2>1, <4>6
    <3> QED BY <3>1, <3>2
  <2>8. m \in Holding
    BY <2>1, <2>3, <2>6, <2>7 DEF Holding
  <2>9. m \in Unsettled(batches) =>
          [generation |-> generation, start |-> batches[m].start, end |-> batches[m].end] \in fetches
    BY <2>1 DEF Asked, FetchesOf
  <2> QED BY <2>3, <2>6, <2>8, <2>9 DEF Unsettled
<1> QED BY <1>1, PrefetchStarts, PrefetchSteps, PTL DEF PrefetchSpec
=============================================================================
