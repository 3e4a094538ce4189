--------------------------- MODULE BlockPrefetcher --------------------------
(***************************************************************************)
(* The read-ahead of the backfill: batches of heights fetched ahead of one *)
(* consumer that asks for every height in turn, falls back when a window   *)
(* is planned again, and changes the source of blocks.                     *)
(*                                                                         *)
(* A fetch cannot be cancelled.  After a reset the fetches of the earlier  *)
(* generation still run and settle, possibly beside fetches of the same    *)
(* heights.  What a block weighs is left out: whether the weight budget    *)
(* admits another batch is a free choice.                                  *)
(***************************************************************************)
EXTENDS Integers, Sequences, FiniteSets

CONSTANTS
  FetchSize,        \* options.batchSize
  FetchConcurrency, \* options.concurrency
  MaxBuffered,      \* options.maxBufferedBlocks
  LastHeight,       \* bound: highest block
  MaxGeneration,    \* bound: number of resets
  MaxRewinds        \* bound: times a window is planned again from lower down

ASSUME PrefetchConstants ==
  /\ FetchSize \in Nat \ {0} /\ FetchConcurrency \in Nat \ {0}
  /\ MaxBuffered \in Nat \ {0} /\ LastHeight \in Nat /\ MaxGeneration \in Nat
  /\ MaxRewinds \in Nat

VARIABLES
  batches,    \* sequence of the batches at or above wanted
  generation,
  inFlight,   \* the counter of fetches in flight
  limit,      \* height the read-ahead may go to
  nextStart,  \* first height no batch covers
  fetches,    \* the fetches that really run: generation and first height
  wanted,     \* height the consumer asks for, or will ask for next
  waiting,    \* it awaits the batch that holds it
  rewinds     \* times the consumer went back

prefetchVars == <<batches, generation, inFlight, limit, nextStart, fetches, wanted,
                  waiting, rewinds>>

Lesser(a, b) == IF a < b THEN a ELSE b

PrefetchInit ==
  /\ batches = <<>> /\ generation = 0 /\ inFlight = 0
  /\ limit = -1 /\ nextStart = 0
  /\ fetches = {}
  /\ wanted = 0 /\ waiting = FALSE
  /\ rewinds = 0

-----------------------------------------------------------------------------

\* bufferedBlocks
Blocks(bs) ==
  LET upTo[n \in 0 .. Len(bs)] ==
        IF n = 0 THEN 0 ELSE upTo[n - 1] + (bs[n].end - bs[n].start + 1)
  IN  upTo[Len(bs)]

\* The read-ahead as a record, for the loop of pump.
Buffer == [batches |-> batches, inFlight |-> inFlight, next |-> nextStart]

\* schedule: one more batch, cut off at the limit.
Scheduled(b, lim) ==
  LET end == Lesser(lim, b.next + FetchSize - 1)
  IN  [batches  |-> Append(b.batches, [start |-> b.next, end |-> end, loaded |-> FALSE,
                                       failed |-> FALSE]),
       inFlight |-> b.inFlight + 1,
       next     |-> end + 1]

\* Variant: the batch of the wanted height waits for the budget like any other.
MustBudget(b, at) == FALSE

\* shouldSchedule: the batch that holds the wanted height is fetched whatever the
\* budget, the others within it.
MustSchedule(b, at) == b.next <= at

\* hasBudget, without the weight
MaySchedule(b, at) ==
  b.inFlight < FetchConcurrency /\ Blocks(b.batches) < MaxBuffered

\* The buffers the loop of pump goes through: that after k rounds. Each round
\* schedules at least one height, so that there are at most lim + 1.
Rounds(b, lim) ==
  LET after[k \in 0 .. lim + 1] == IF k = 0 THEN b ELSE Scheduled(after[k - 1], lim)
  IN  after

GoesOn(b, at, lim) == b.next <= lim /\ (MustSchedule(b, at) \/ MaySchedule(b, at))
MayStop(b, at, lim) == b.next > lim \/ ~MustSchedule(b, at)

\* pump: every buffer the loop may stop at, the weight being anything.
Pump(b, at, lim) ==
  LET after == Rounds(b, lim)
  IN  {after[k] : k \in {k \in 0 .. lim + 1 :
                          /\ \A j \in 0 .. k - 1 : GoesOn(after[j], at, lim)
                          /\ MayStop(after[k], at, lim)}}

\* The buffer becomes b; what is new in it is being fetched.
Install(b, gen) ==
  /\ batches' = b.batches /\ inFlight' = b.inFlight /\ nextStart' = b.next
  /\ fetches' = fetches \cup
       {[generation |-> gen, start |-> b.batches[i].start, end |-> b.batches[i].end] :
          i \in {i \in 1 .. Len(b.batches) : b.batches[i].start >= nextStart
                                             \/ gen # generation}}

\* covers
Covers(h) == batches # <<>> /\ h >= batches[1].start /\ h <= nextStart

\* alignTo: the batches are in order, so that those behind the height come first.
Aligned(h) ==
  SubSeq(batches, Cardinality({i \in 1 .. Len(batches) : batches[i].end < h}) + 1, Len(batches))

\* get: align the buffer to the height, read ahead, wait.
Get(readAhead) ==
  /\ ~waiting /\ wanted <= readAhead
  /\ limit' = readAhead
  /\ LET kept == [Buffer EXCEPT !.batches = Aligned(wanted)]
         fresh == [batches |-> <<>>, inFlight |-> 0, next |-> wanted]
         gen == IF Covers(wanted) THEN generation ELSE generation + 1
     IN  /\ gen <= MaxGeneration
         /\ \E b \in Pump(IF gen = generation THEN kept ELSE fresh, wanted, readAhead) :
              Install(b, gen)
         /\ generation' = gen
  /\ waiting' = TRUE
  /\ UNCHANGED <<wanted, rewinds>>

\* Variant: a fetch of an earlier generation is counted as well.
SettleAnyGeneration(f) == TRUE

\* settle: fetches of an earlier generation settle into the void.
SettleCounts(f) == f.generation = generation

\* A fetch answers or fails.
Settle(f) ==
  /\ \E ok \in BOOLEAN :
       IF ~SettleCounts(f)
       THEN /\ fetches' = fetches \ {f}
            /\ UNCHANGED <<batches, inFlight, nextStart>>
       ELSE LET filled == [i \in 1 .. Len(batches) |->
                             IF batches[i].start = f.start
                             THEN [batches[i] EXCEPT !.loaded = ok, !.failed = ~ok]
                             ELSE batches[i]]
                b == [batches |-> filled, inFlight |-> inFlight - 1, next |-> nextStart]
                at == IF batches = <<>> THEN f.start ELSE batches[1].start
            IN  \E p \in (IF ok THEN Pump(b, at, limit) ELSE {b}) :
                  /\ batches' = p.batches /\ inFlight' = p.inFlight
                  /\ nextStart' = p.next
                  /\ fetches' = (fetches \ {f}) \cup
                       {[generation |-> generation, start |-> p.batches[i].start,
                         end |-> p.batches[i].end] :
                           i \in Len(batches) + 1 .. Len(p.batches)}
  /\ UNCHANGED <<generation, limit, wanted, waiting, rewinds>>

\* batchFor
Holding == {i \in 1 .. Len(batches) : wanted \in batches[i].start .. batches[i].end}

\* snapshotFrom: the batch of the wanted height has settled with its blocks.
Deliver ==
  /\ waiting
  /\ \E i \in Holding : batches[i].loaded
  /\ waiting' = FALSE
  /\ wanted' = wanted + 1
  /\ UNCHANGED <<batches, generation, inFlight, limit, nextStart, fetches, rewinds>>

\* snapshotFrom: its fetch failed, the read-ahead is dropped and the window is
\* planned again from where the consumer stands or from lower down.
DeliverError ==
  /\ waiting
  /\ \E i \in Holding : batches[i].failed
  /\ generation < MaxGeneration
  /\ generation' = generation + 1
  /\ batches' = <<>> /\ inFlight' = 0
  /\ waiting' = FALSE
  /\ UNCHANGED <<limit, nextStart, fetches, wanted, rewinds>>

\* The next window starts at or below the last block that was served.
PlanAgain ==
  /\ ~waiting /\ rewinds < MaxRewinds /\ wanted > 0
  /\ wanted' \in 0 .. wanted - 1
  /\ rewinds' = rewinds + 1
  /\ UNCHANGED <<batches, generation, inFlight, limit, nextStart, fetches, waiting>>

\* backfillLoaderFor: another source of blocks, the read-ahead is dropped.
ChangeSource ==
  /\ ~waiting /\ generation < MaxGeneration
  /\ generation' = generation + 1
  /\ batches' = <<>> /\ inFlight' = 0
  /\ UNCHANGED <<limit, nextStart, fetches, wanted, waiting, rewinds>>

PrefetchNext ==
  \/ \E readAhead \in {LastHeight - 1, LastHeight} : Get(readAhead)
  \/ \E f \in fetches : Settle(f)
  \/ Deliver \/ DeliverError \/ PlanAgain \/ ChangeSource

-----------------------------------------------------------------------------

\* The counter that bounds the fetches in flight counts exactly the fetches of
\* this generation that run: no fetch that settles after a reset is subtracted
\* from the fetches that replaced it, and none is forgotten when the batch of a
\* running fetch falls below the wanted height.
InFlightIsExact ==
  inFlight = Cardinality({f \in fetches : f.generation = generation})

\* The batch the consumer waits for exists and is loaded, failed or being
\* fetched: it never waits for a fetch that nobody makes.
WaitIsAnswered ==
  waiting => \E i \in Holding :
    batches[i].loaded \/ batches[i].failed
    \/ [generation |-> generation, start |-> batches[i].start, end |-> batches[i].end]
         \in fetches

\* The read-ahead stays within one batch of its bound in blocks and, although the
\* batch of the consumer is fetched regardless, within the concurrency.
ReadAheadIsBounded ==
  /\ Blocks(batches) < MaxBuffered + FetchSize
  /\ inFlight <= FetchConcurrency
  /\ \A i \in 1 .. Len(batches) - 1 : batches[i].end + 1 = batches[i + 1].start

\* The budget of the read-ahead is kept, and kept by a count that is right: a
\* count that drifts would let it grow or stop it for good.
ReadAheadIsAccounted == InFlightIsExact /\ ReadAheadIsBounded
=============================================================================
