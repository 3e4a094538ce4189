---------------------------- MODULE RawBlockSync ----------------------------
(***************************************************************************)
(* Raw sync: a window of heights is cut into batches, rounds of batches    *)
(* run side by side, each batch fetches its blocks, stores every snapshot, *)
(* then the block metadata, then the transaction refs, and is retried when *)
(* any of that fails.  After a round the highest contiguous height is      *)
(* reported as the sync tail.                                              *)
(*                                                                         *)
(* A round ends when all its batches are done or one has failed for good.  *)
(* In the second case the others are not stopped: they go on in the        *)
(* background, and the next call of the indexer runs beside them.          *)
(*                                                                         *)
(* Blocks are their heights.  The writes of the tail and of the metadata   *)
(* are commits of one database, in order.                                  *)
(***************************************************************************)
EXTENDS Integers, FiniteSets

CONSTANTS
  BatchSize,       \* settings.syncBatchSize
  MaxConcurrency,  \* settings.syncConcurrency
  RampUp,          \* successes after which the concurrency is raised
  Attempts,        \* settings.syncRetryAttempts
  RefreshDepth,    \* settings.coreReprocessDepth: heights stored again online
  SyncTop,         \* height of the node
  MaxFailures      \* bound: failed attempts

ASSUME SyncConstants ==
  /\ BatchSize \in Nat \ {0} /\ MaxConcurrency \in Nat \ {0} /\ RampUp \in Nat \ {0}
  /\ Attempts \in Nat \ {0} /\ RefreshDepth \in Nat
  /\ SyncTop \in Nat /\ MaxFailures \in Nat

VARIABLES
  raw,         \* heights whose snapshot raw storage holds
  blockRows,   \* heights with a row of core_blocks
  indexed,     \* heights whose transactions have refs
  syncTail,    \* the sync tail the indexer has recorded
  call,        \* number of the running call of sync, or of the last one
  active,      \* a call is running
  syncFirst,       \* first height of the call
  syncCursor,      \* first height of the call that no round has taken yet
  frontier,    \* ContiguousFrontier of the call
  jobs,        \* the batches that run, those of earlier calls included
  concurrency, \* AdaptiveConcurrencyController
  streak,
  failures     \* failed attempts so far

stores == <<raw, blockRows, indexed>>
syncVars == <<stores, syncTail, call, active, syncFirst, syncCursor, frontier, jobs,
              concurrency, streak, failures>>

Smaller(a, b) == IF a < b THEN a ELSE b
Larger(a, b)  == IF a > b THEN a ELSE b

\* clampConcurrency
Clamp(n) == Larger(1, Smaller(MaxConcurrency, n))

\* A batch: its heights, the attempt, the step it is at, snapshots to store.
HeightsIn(j) == j.start .. j.end
Mine == {j \in jobs : j.call = call}

SyncInit ==
  /\ raw = {} /\ blockRows = {} /\ indexed = {}
  /\ syncTail = -1
  /\ call = 0 /\ active = FALSE /\ syncFirst = 0 /\ syncCursor = 0 /\ frontier = -1
  /\ jobs = {}
  /\ concurrency = MaxConcurrency /\ streak = 0
  /\ failures = 0

-----------------------------------------------------------------------------

\* sync: in the backfill the window starts above the tail, online it also
\* covers the heights a reorganization may have replaced.
StartCall ==
  /\ ~active /\ syncTail < SyncTop
  /\ active' = TRUE
  /\ call' = call + 1
  /\ syncFirst' \in {syncTail + 1, Larger(0, Smaller(syncTail + 1, SyncTop - RefreshDepth + 1))}
  /\ syncCursor' = syncFirst'
  /\ frontier' = syncFirst' - 1
  /\ UNCHANGED <<stores, syncTail, jobs, concurrency, streak, failures>>

\* chunk and slice: the round takes as many batches as the concurrency allows.
StartRound ==
  /\ active /\ Mine = {} /\ syncCursor <= SyncTop
  /\ LET starts == {s \in syncCursor .. SyncTop : \E n \in 0 .. concurrency - 1 :
                      s = syncCursor + n * BatchSize}
         batch(s) == [call |-> call, start |-> s, end |-> Smaller(SyncTop, s + BatchSize - 1),
                      attempt |-> 1, at |-> "fetch", left |-> {}]
     IN  /\ jobs' = jobs \cup {batch(s) : s \in starts}
         /\ syncCursor' = syncCursor + concurrency * BatchSize
  /\ UNCHANGED <<stores, syncTail, call, active, syncFirst, frontier, concurrency, streak,
                 failures>>

\* Batch j goes on as k.
Becomes(j, k) == jobs' = (jobs \ {j}) \cup {k}

\* getBlockSnapshots answers with every block asked for.
Fetch(j) ==
  /\ j.at = "fetch"
  /\ Becomes(j, [j EXCEPT !.at = "store", !.left = HeightsIn(j)])
  /\ UNCHANGED <<stores, syncTail, call, active, syncFirst, syncCursor, frontier, concurrency,
                 streak, failures>>

\* storeSnapshot: the puts of a batch run side by side.
Store(j) ==
  /\ j.at = "store"
  /\ \E h \in j.left :
       /\ raw' = raw \cup {h}
       /\ Becomes(j, [j EXCEPT !.left = @ \ {h},
                               !.at = IF j.left = {h} THEN "meta" ELSE @])
  /\ UNCHANGED <<blockRows, indexed, syncTail, call, active, syncFirst, syncCursor, frontier,
                 concurrency, streak, failures>>

UpsertCoreBlocks(j) ==
  /\ j.at = "meta"
  /\ blockRows' = blockRows \cup HeightsIn(j)
  /\ Becomes(j, [j EXCEPT !.at = "refs"])
  /\ UNCHANGED <<raw, indexed, syncTail, call, active, syncFirst, syncCursor, frontier,
                 concurrency, streak, failures>>

RecordSuccess ==
  /\ streak' = IF streak + 1 >= RampUp THEN 0 ELSE streak + 1
  /\ concurrency' = IF streak + 1 >= RampUp THEN Clamp(concurrency + 1) ELSE concurrency

UpsertTransactionRefs(j) ==
  /\ j.at = "refs"
  /\ indexed' = indexed \cup HeightsIn(j)
  /\ RecordSuccess
  /\ IF j \in Mine THEN Becomes(j, [j EXCEPT !.at = "done"]) ELSE jobs' = jobs \ {j}
  /\ UNCHANGED <<raw, blockRows, syncTail, call, active, syncFirst, syncCursor, frontier, failures>>

\* Variant: half of one is none.
HalveToNothing == streak' = 0 /\ concurrency' = concurrency \div 2

RecordFailure == streak' = 0 /\ concurrency' = Clamp(concurrency \div 2)

\* Any step of a batch fails; snapshots whose put was under way may land.  The
\* batch starts over, or gives up and with it the call; the batches that run
\* beside it are left to themselves, those that are done are forgotten.
BatchFails(j) ==
  /\ failures < MaxFailures
  /\ failures' = failures + 1
  /\ j.at # "done"
  /\ \E landed \in SUBSET j.left : raw' = raw \cup landed
  /\ RecordFailure
  /\ IF j.attempt < Attempts
     THEN /\ Becomes(j, [j EXCEPT !.attempt = @ + 1, !.at = "fetch", !.left = {}])
          /\ UNCHANGED active
     ELSE /\ jobs' = {k \in jobs \ {j} : j \notin Mine \/ k.at # "done"}
          /\ active' = IF j \in Mine THEN FALSE ELSE active
  /\ UNCHANGED <<blockRows, indexed, syncTail, call, syncFirst, syncCursor, frontier>>

Completed == UNION {HeightsIn(j) : j \in Mine}

\* ContiguousFrontier.markCompleted
NextFrontier ==
  CHOOSE f \in frontier .. SyncTop :
    /\ \A h \in frontier + 1 .. f : h \in Completed
    /\ f + 1 \notin Completed

\* checkpointSyncTail: not below the tail.
RecordedTail(f) == IF f <= syncTail THEN syncTail ELSE f

\* Variant: the frontier is reported when the round starts to store.
ReportEarly ==
  /\ active /\ Mine # {} /\ \A j \in Mine : j.at \in {"meta", "refs", "done"}
  /\ frontier' = NextFrontier
  /\ syncTail' = IF syncCursor > SyncTop THEN SyncTop ELSE RecordedTail(frontier')
  /\ jobs' = jobs \ Mine
  /\ active' = (syncCursor <= SyncTop)
  /\ UNCHANGED <<stores, call, syncFirst, syncCursor, concurrency, streak, failures>>

\* All batches of the round are done: the frontier is reported, and after the
\* last round the end of the window is recorded.
RoundDone ==
  /\ active /\ Mine # {} /\ \A j \in Mine : j.at = "done"
  /\ frontier' = NextFrontier
  /\ syncTail' = IF syncCursor > SyncTop THEN SyncTop ELSE RecordedTail(frontier')
  /\ jobs' = jobs \ Mine
  /\ active' = (syncCursor <= SyncTop)
  /\ UNCHANGED <<stores, call, syncFirst, syncCursor, concurrency, streak, failures>>

JobStep ==
  \E j \in jobs : Fetch(j) \/ Store(j) \/ UpsertCoreBlocks(j) \/ UpsertTransactionRefs(j)

SyncStep == StartCall \/ StartRound \/ JobStep \/ RoundDone

SyncNext == SyncStep \/ \E j \in jobs : BatchFails(j)

-----------------------------------------------------------------------------

\* A recorded sync tail covers only blocks that are complete: the snapshot is
\* in raw storage, the metadata row exists and the transactions are indexed,
\* whatever batches failed, were retried or still run for an earlier call.
SyncTailIsStored == 0 .. syncTail \subseteq raw \cap blockRows \cap indexed

\* Failures that end leave no height behind: the window is stored.
SyncCompletes == <>(syncTail = SyncTop)
=============================================================================
