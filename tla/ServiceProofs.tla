----------------------------- MODULE ServiceProofs -----------------------------
(***************************************************************************)
(* What is proved of the parts that serve the API beside the indexer, for  *)
(* all values of their constants: the cache of the mempool page, the calls *)
(* to the node, the rate limiter of an API key, the budget of its          *)
(* analytics queries and the facts these read, mempool watches with their  *)
(* limit and what they see, the lookup of a transaction, and the access    *)
(* control in front of them.  The parts share no state; each has a         *)
(* section.                                                                *)
(***************************************************************************)
EXTENDS MempoolCache, RpcGateway, ApiKeyRateLimiter, AnalyticsQueries, MempoolWatch,
        TransactionLookup, AccessControl, FiniteSetTheorems, TLAPS

-----------------------------------------------------------------------------
\* The mempool cache.

(***************************************************************************)
(* A load that neither failed nor is the cached one began a lifetime of an *)
(* entry ago, so that the next load may begin; the cached one has not      *)
(* failed.                                                                 *)
(***************************************************************************)
Loads == [began : Nat, state : {"running", "loaded", "failed"}]
LoadInv == loads \in Seq(Loads)
CacheInv ==
  /\ LoadInv /\ cacheClock \in Nat /\ entry \in 0 .. Len(loads)
  /\ \A n \in DOMAIN loads :
       /\ loads[n].began <= cacheClock
       /\ n = entry => loads[n].state # "failed"
       /\ n = entry \/ loads[n].state = "failed" \/ loads[n].began + TtlTicks <= cacheClock

(***************************************************************************)
(* Every load began at some time.                                          *)
(***************************************************************************)
LEMMA LoadsBegan == LoadInv => \A n \in DOMAIN loads : loads[n].began \in Nat
<1> SUFFICES ASSUME LoadInv, NEW n \in DOMAIN loads
             PROVE  loads[n].began \in Nat
  OBVIOUS
<1>1. loads[n] \in Loads
  BY DEF LoadInv
<1> QED BY <1>1 DEF Loads

(***************************************************************************)
(* One of the loads ends: the others stay, and it keeps the time it began. *)
(***************************************************************************)
LEMMA LoadReplaced ==
  ASSUME LoadInv, NEW n \in DOMAIN loads, NEW end \in {"loaded", "failed"},
         loads' = [loads EXCEPT ![n].state = end]
  PROVE  /\ LoadInv' /\ DOMAIN loads' = DOMAIN loads /\ Len(loads') = Len(loads)
         /\ \A m \in DOMAIN loads :
              /\ loads'[m].began = loads[m].began
              /\ loads'[m].state = IF m = n THEN end ELSE loads[m].state
<1> DEFINE ended == [began |-> loads[n].began, state |-> end]
<1>1. /\ Len(loads) \in Nat /\ DOMAIN loads = 1 .. Len(loads)
      /\ \A m \in DOMAIN loads : loads[m] \in Loads
  BY DEF LoadInv
<1>2. \A r \in Loads : [r EXCEPT !.state = end] = [began |-> r.began, state |-> end]
  BY DEF Loads
<1>3. loads' = [loads EXCEPT ![n] = ended]
  BY <1>1, <1>2
<1>4. ended \in Loads
  BY <1>1 DEF Loads
<1> HIDE DEF ended
<1>5. LoadInv'
  BY <1>3, <1>4 DEF LoadInv
<1>6. DOMAIN loads' = DOMAIN loads /\ \A m \in DOMAIN loads : loads'[m] = IF m = n THEN ended ELSE loads[m]
  BY <1>1, <1>3
<1>7. Len(loads') = Len(loads)
  BY <1>1, <1>5, <1>6 DEF LoadInv
<1> QED BY <1>5, <1>6, <1>7 DEF ended

(***************************************************************************)
(* What holds of the cache holds always, and requests share loads that     *)
(* have not failed.                                                        *)
(***************************************************************************)
LEMMA CacheInvariance == CacheSpec => [](CacheInv /\ LoadsAreShared)
<1> DEFINE Inv == CacheInv /\ LoadsAreShared
<1> USE CacheAssumption DEF LoadsAreShared, OneLoadPerLifetime, FailuresAreNotServed
<1>1. CacheInit => Inv
  BY DEF CacheInit, CacheInv, LoadInv
<1>2. Inv /\ [CacheNext]_cacheVars => Inv'
  <2> SUFFICES ASSUME CacheInv, LoadsAreShared, [CacheNext]_cacheVars
               PROVE  CacheInv' /\ LoadsAreShared'
    OBVIOUS
  <2>t. LoadInv /\ cacheClock \in Nat /\ entry \in 0 .. Len(loads)
    BY DEF CacheInv
  <2>1. CASE ListMempool /\ Fresh
    <3>1. joined' = [load |-> entry, state |-> loads[entry].state]
          /\ UNCHANGED <<loads, entry, cacheClock>>
      BY <2>1 DEF ListMempool
    <3>2. entry \in DOMAIN loads
      BY <2>1, <2>t DEF Fresh, LoadInv
    <3>3. joined'.state # "failed"
      BY <3>1, <3>2 DEF CacheInv
    <3> QED BY <3>1, <3>3 DEF CacheInv, LoadInv
  <2>2. CASE ListMempool /\ ~Fresh
    <3> DEFINE new == [began |-> cacheClock, state |-> "running"]
    <3>1. /\ loads' = Append(loads, new) /\ entry' = Len(loads) + 1
          /\ joined' = [load |-> Len(loads) + 1, state |-> "running"]
          /\ UNCHANGED cacheClock
      BY <2>2 DEF ListMempool
    <3>2. /\ LoadInv' /\ Len(loads) \in Nat /\ Len(loads') = Len(loads) + 1
          /\ DOMAIN loads = 1 .. Len(loads) /\ DOMAIN loads' = 1 .. Len(loads) + 1
          /\ \A n \in 1 .. Len(loads) : loads'[n] = loads[n]
          /\ loads'[Len(loads) + 1] = new
      <4>1. new \in Loads
        BY <2>t DEF Loads
      <4> HIDE DEF new
      <4> QED BY <2>t, <3>1, <4>1 DEF LoadInv
    <3>3. \A n \in 1 .. Len(loads) : loads[n].began \in Nat
      BY LoadsBegan, <2>t, <3>2
    <3>4. \A n \in 1 .. Len(loads) :
            loads[n].state = "failed" \/ loads[n].began + TtlTicks <= cacheClock
      BY <2>2, <2>t, <3>2, <3>3 DEF CacheInv, Fresh
    <3>5. CacheInv'
      <4>1. \A n \in DOMAIN loads' :
              /\ loads'[n].began <= cacheClock
              /\ n = Len(loads) + 1 => loads'[n].state # "failed"
              /\ n = Len(loads) + 1 \/ loads'[n].state = "failed"
                   \/ loads'[n].began + TtlTicks <= cacheClock
        BY <2>t, <3>2, <3>4 DEF CacheInv
      <4> QED BY <2>t, <3>1, <3>2, <4>1 DEF CacheInv
    <3>6. OneLoadPerLifetime'
      <4> SUFFICES ASSUME NEW m \in DOMAIN loads', NEW n \in DOMAIN loads', m < n,
                          loads'[n].began < loads'[m].began + TtlTicks
                   PROVE  loads'[m].state = "failed"
        BY DEF OneLoadPerLifetime
      <4>1. m \in 1 .. Len(loads)
        BY <3>2
      <4>2. CASE n \in 1 .. Len(loads)
        BY <3>2, <4>1, <4>2
      <4>3. CASE n = Len(loads) + 1
        <5>1. loads'[n].began = cacheClock /\ loads'[m] = loads[m]
          BY <3>2, <4>1, <4>3
        <5> QED BY <2>t, <3>3, <3>4, <4>1, <5>1
      <4> QED BY <3>2, <4>2, <4>3
    <3> QED BY <3>1, <3>5, <3>6
  <2>3. CASE LoadEnds \/ LoadFails
    <3>1. PICK n \in DOMAIN loads, end \in {"loaded", "failed"} :
            /\ loads[n].state = "running" /\ loads' = [loads EXCEPT ![n].state = end]
            /\ entry' = IF end = "failed" /\ entry = n THEN 0 ELSE entry
            /\ UNCHANGED <<cacheClock, joined>>
      BY <2>3 DEF LoadEnds, LoadFails, EntryAfterFailure
    <3>2. /\ LoadInv' /\ DOMAIN loads' = DOMAIN loads /\ Len(loads') = Len(loads)
          /\ \A m \in DOMAIN loads :
               /\ loads'[m].began = loads[m].began
               /\ loads'[m].state = IF m = n THEN end ELSE loads[m].state
      BY <2>t, <3>1, LoadReplaced
    <3>3. CacheInv'
      <4>1. entry' \in 0 .. Len(loads)
        BY <2>t, <3>1 DEF LoadInv
      <4>2. \A m \in DOMAIN loads :
              /\ loads[m].began <= cacheClock
              /\ m = entry' => loads'[m].state # "failed"
              /\ m = entry' \/ loads'[m].state = "failed"
                   \/ loads[m].began + TtlTicks <= cacheClock
        BY <3>1, <3>2 DEF CacheInv
      <4> QED BY <2>t, <3>1, <3>2, <4>1, <4>2 DEF CacheInv
    <3> QED BY <3>1, <3>2, <3>3
  <2>4. CASE CacheTick
    <3>1. UNCHANGED <<loads, entry, joined>> /\ cacheClock' = cacheClock + 1
      BY <2>4 DEF CacheTick
    <3>2. \A n \in DOMAIN loads : loads[n].began \in Nat
      BY LoadsBegan, <2>t
    <3> QED BY <2>t, <3>1, <3>2 DEF CacheInv, LoadInv
  <2>5. CASE UNCHANGED cacheVars
    BY <2>5 DEF cacheVars, CacheInv, LoadInv
  <2> QED BY <2>1, <2>2, <2>3, <2>4, <2>5 DEF CacheNext
<1> QED BY <1>1, <1>2, PTL DEF CacheSpec

(***************************************************************************)
(* The node is asked for its mempool once per lifetime of an entry, but    *)
(* for loads that failed, and no request is given one that had: the late   *)
(* failure of a replaced load leaves the entry of its successor.           *)
(***************************************************************************)
THEOREM MempoolLoadsAreShared == CacheSpec => []LoadsAreShared
BY CacheInvariance, PTL

-----------------------------------------------------------------------------
\* The calls to the node.

(***************************************************************************)
(* What is at most c when it is counted in steps of d is at most the       *)
(* number of such steps in c.                                              *)
(***************************************************************************)
LEMMA StepsWithin ==
  ASSUME NEW n \in Nat, NEW c \in Nat, NEW d \in Nat \ {0}, n * d <= c + d
  PROVE  n <= 1 + c \div d
<1> DEFINE q == c \div d
<1>1. q \in Nat /\ c < q * d + d
  OBVIOUS
<1> HIDE DEF q
<1>2. n * d < (q + 2) * d
  BY <1>1
<1>3. n < q + 2
  BY <1>1, <1>2
<1> QED BY <1>1, <1>3 DEF q

(***************************************************************************)
(* The slots of an endpoint are an interval apart: the one that is         *)
(* reserved lies as many intervals after the start as batches were sent    *)
(* before it.                                                              *)
(***************************************************************************)
RateInv ==
  /\ rpcClock \in Nat /\ sent \in Nat /\ nextSlotAt \in Nat /\ slotAt \in Nat \cup {-1}
  /\ slotAt = -1 => sent * IntervalTicks <= nextSlotAt
  /\ slotAt # -1 => /\ sent * IntervalTicks <= slotAt
                    /\ sent * IntervalTicks + IntervalTicks <= nextSlotAt
  /\ sent * IntervalTicks <= rpcClock + IntervalTicks

(***************************************************************************)
(* It is kept.                                                             *)
(***************************************************************************)
LEMMA RateInvariance == RpcSpec => []RateInv
<1> USE RpcAssumption
<1>1. RpcInit => RateInv
  BY DEF RpcInit, RateInv
<1>2. RateInv /\ [RpcNext]_rpcVars => RateInv'
  <2> SUFFICES ASSUME RateInv, [RpcNext]_rpcVars
               PROVE  RateInv'
    OBVIOUS
  <2>t. /\ rpcClock \in Nat /\ sent \in Nat /\ nextSlotAt \in Nat /\ slotAt \in Nat \cup {-1}
        /\ IntervalTicks \in Nat \ {0} /\ sent * IntervalTicks \in Nat
    BY DEF RateInv
  <2>1. CASE ReserveSlot
    <3>1. /\ slotAt = -1 /\ slotAt' = Later(rpcClock, nextSlotAt)
          /\ nextSlotAt' = Later(rpcClock, nextSlotAt) + IntervalTicks
          /\ UNCHANGED <<rpcClock, sent>>
      BY <2>1 DEF ReserveSlot, NextSlot
    <3>2. Later(rpcClock, nextSlotAt) \in Nat /\ nextSlotAt <= Later(rpcClock, nextSlotAt)
      BY <2>t DEF Later
    <3> DEFINE slot == Later(rpcClock, nextSlotAt)
    <3> HIDE DEF slot
    <3>3. /\ slot \in Nat /\ nextSlotAt <= slot /\ slotAt' = slot
          /\ nextSlotAt' = slot + IntervalTicks
      BY <3>1, <3>2 DEF slot
    <3>4. sent * IntervalTicks <= nextSlotAt
      BY <3>1 DEF RateInv
    <3>5. sent * IntervalTicks <= rpcClock + IntervalTicks
      BY DEF RateInv
    <3>6. RateInv'
      <4> DEFINE done == sent * IntervalTicks
      <4>1. done \in Nat /\ done <= nextSlotAt /\ done <= rpcClock + IntervalTicks
        BY <2>t, <3>4, <3>5
      <4>2. UNCHANGED done
        BY <3>1
      <4> HIDE DEF done
      <4>3. /\ done <= slot /\ done + IntervalTicks <= slot + IntervalTicks
            /\ slot + IntervalTicks \in Nat /\ slot # -1
        BY <2>t, <3>3, <4>1
      <4> QED BY <2>t, <3>1, <3>3, <4>1, <4>2, <4>3 DEF RateInv, done
    <3> QED BY <3>6
  <2>2. CASE Send
    <3>1. /\ slotAt # -1 /\ slotAt <= rpcClock /\ slotAt' = -1 /\ sent' = sent + 1
          /\ UNCHANGED <<rpcClock, nextSlotAt>>
      BY <2>2, <2>t DEF Send
    <3>2. /\ sent * IntervalTicks <= slotAt
          /\ sent * IntervalTicks + IntervalTicks <= nextSlotAt
      BY <3>1 DEF RateInv
    <3>3. (sent + 1) * IntervalTicks = sent * IntervalTicks + IntervalTicks
      BY <2>t
    <3>4. (sent + 1) * IntervalTicks <= rpcClock + IntervalTicks
      BY <2>t, <3>1, <3>2, <3>3
    <3>5. sent + 1 \in Nat /\ (sent + 1) * IntervalTicks <= nextSlotAt
      BY <2>t, <3>2, <3>3
    <3> QED BY <2>t, <3>1, <3>4, <3>5 DEF RateInv
  <2>3. CASE RpcTick
    <3>1. rpcClock' = rpcClock + 1 /\ UNCHANGED <<sent, nextSlotAt, slotAt>>
      BY <2>3 DEF RpcTick
    <3>2. /\ rpcClock + 1 \in Nat
          /\ sent * IntervalTicks <= (rpcClock + 1) + IntervalTicks
      BY <2>t DEF RateInv
    <3> QED BY <3>1, <3>2 DEF RateInv
  <2>4. CASE UNCHANGED <<rpcClock, sent, nextSlotAt, slotAt>>
    BY <2>4 DEF RateInv
  <2>5. ASSUME NEW c \in Callers,
               \/ Ask(c) \/ Overloaded(c) \/ Retry(c) \/ RpcFails(c) \/ AnswerHashes(c)
               \/ AnswerBlocks(c) \/ AnswerTransactions(c) \/ AnswerSingle(c)
        PROVE  UNCHANGED <<rpcClock, sent, nextSlotAt, slotAt>>
    BY <2>5 DEF Ask, Overloaded, Retry, RpcFails, AnswerHashes, AnswerBlocks,
                AnswerTransactions, AnswerSingle
  <2>6. NodeReorganises \/ UNCHANGED rpcVars => UNCHANGED <<rpcClock, sent, nextSlotAt, slotAt>>
    BY DEF NodeReorganises, rpcVars
  <2> QED BY <2>1, <2>2, <2>3, <2>4, <2>5, <2>6 DEF RpcNext
<1> QED BY <1>1, <1>2, PTL DEF RpcSpec

(***************************************************************************)
(* Whatever late timers, retries and refusals there are, the batches sent  *)
(* never get ahead of one per interval.                                    *)
(***************************************************************************)
THEOREM RateLimitIsKept == RpcSpec => []RateIsKept
<1>1. RateInv => RateIsKept
  <2> SUFFICES ASSUME RateInv
               PROVE  RateIsKept
    OBVIOUS
  <2>1. sent * IntervalTicks <= rpcClock + IntervalTicks /\ rpcClock \in Nat /\ sent \in Nat
    BY DEF RateInv
  <2> QED BY <2>1, RpcAssumption, StepsWithin DEF RateIsKept
<1> QED BY <1>1, RateInvariance, PTL

(***************************************************************************)
(* Of a complete response every call reads its own answer, whatever the    *)
(* order of the entries.                                                   *)
(***************************************************************************)
LEMMA OwnAnswerIsRead ==
  ASSUME NEW answers, NEW entries \in Responses(answers), Complete(entries)
  PROVE  \A k \in Positions : ReadBatch(entries)[k] = answers[k]
<1>1. PICK ids \in [Positions -> Positions] :
        entries = [i \in Positions |-> [id |-> ids[i], result |-> answers[ids[i]]]]
  BY DEF Responses
<1>2. \A i \in Positions : entries[i].id = ids[i] /\ entries[i].result = answers[ids[i]]
  BY <1>1
<1> SUFFICES ASSUME NEW k \in Positions
             PROVE  ReadBatch(entries)[k] = answers[k]
  OBVIOUS
<1> DEFINE spot == CHOOSE i \in Positions : entries[i].id = k
<1>3. \E i \in Positions : entries[i].id = k
  BY DEF Complete
<1>4. spot \in Positions /\ entries[spot].id = k
  BY <1>3
<1>5. ReadBatch(entries)[k] = entries[spot].result
  BY DEF ReadBatch
<1> HIDE DEF spot
<1> QED BY <1>2, <1>4, <1>5

(***************************************************************************)
(* A call has its fields; the hashes with which it asks for blocks are     *)
(* those of its heights, and so is what it returns.                        *)
(***************************************************************************)
IsCall(r) ==
  DOMAIN r = {"at", "asked", "attempt", "until", "hashes", "seen", "result"}
IsOfItsHeight(result) == \A k \in DOMAIN result : result[k].block.height = result[k].height
CallHolds(r) ==
  /\ IsCall(r)
  /\ r.asked = "getblock" => \A k \in Positions : r.hashes[k].height = k
  /\ IsOfItsHeight(r.result)
CallInv ==
  /\ rpcCall = [c \in Callers |-> rpcCall[c]]
  /\ \A c \in Callers : CallHolds(rpcCall[c])

(***************************************************************************)
(* A step that replaces one call by one of which the same holds keeps it.  *)
(***************************************************************************)
LEMMA CallReplaced ==
  ASSUME CallInv, NEW c, NEW r, CallHolds(r), rpcCall' = [rpcCall EXCEPT ![c] = r]
  PROVE  CallInv'
BY DEF CallInv

(***************************************************************************)
(* No call is one.                                                         *)
(***************************************************************************)
LEMMA NoCallHolds ==
  CallHolds(NoRpc) /\ NoRpc.asked = "none" /\ IsOfItsHeight(<< >>)
<1>1. IsCall(NoRpc)
  BY DEF NoRpc, IsCall
<1>2. NoRpc.asked = "none" /\ NoRpc.result = << >>
  BY DEF NoRpc
<1>3. IsOfItsHeight(<< >>)
  BY DEF IsOfItsHeight
<1> QED BY <1>1, <1>2, <1>3 DEF CallHolds

(***************************************************************************)
(* What the steps do with a call: it is sent, put off, queued again, asked *)
(* for something, asked for the blocks of the hashes it got, or ended.     *)
(***************************************************************************)
LEMMA CallChanged ==
  ASSUME NEW r, CallHolds(r), NEW at
  PROVE  /\ \A by : CallHolds([r EXCEPT !.at = at, !.seen = by])
         /\ \A attempt, until :
              CallHolds([r EXCEPT !.at = at, !.attempt = attempt, !.until = until])
         /\ CallHolds([r EXCEPT !.at = at])
         /\ \A asked : asked # "getblock" => CallHolds([r EXCEPT !.at = at, !.asked = asked])
         /\ \A asked, hashes :
              (\A k \in Positions : hashes[k].height = k) =>
                CallHolds([r EXCEPT !.at = at, !.asked = asked, !.hashes = hashes])
         /\ \A result :
              r.asked # "getblock" /\ IsOfItsHeight(result) =>
                CallHolds([r EXCEPT !.at = at, !.result = result])
<1>0. IsCall(r)
  BY DEF CallHolds
<1>1. ASSUME NEW by
      PROVE  CallHolds([r EXCEPT !.at = at, !.seen = by])
  <2> DEFINE n == [r EXCEPT !.at = at, !.seen = by]
  <2>1. IsCall(n) /\ n.asked = r.asked /\ n.hashes = r.hashes /\ n.result = r.result
    BY <1>0 DEF IsCall
  <2> HIDE DEF n
  <2>2. CallHolds(n)
    BY <2>1 DEF CallHolds
  <2> QED BY <2>2 DEF n
<1>2. ASSUME NEW attempt, NEW until
      PROVE  CallHolds([r EXCEPT !.at = at, !.attempt = attempt, !.until = until])
  <2> DEFINE n == [r EXCEPT !.at = at, !.attempt = attempt, !.until = until]
  <2>1. IsCall(n) /\ n.asked = r.asked /\ n.hashes = r.hashes /\ n.result = r.result
    BY <1>0 DEF IsCall
  <2> HIDE DEF n
  <2>2. CallHolds(n)
    BY <2>1 DEF CallHolds
  <2> QED BY <2>2 DEF n
<1>3. CallHolds([r EXCEPT !.at = at])
  <2> DEFINE n == [r EXCEPT !.at = at]
  <2>1. IsCall(n) /\ n.asked = r.asked /\ n.hashes = r.hashes /\ n.result = r.result
    BY <1>0 DEF IsCall
  <2> HIDE DEF n
  <2>2. CallHolds(n)
    BY <2>1 DEF CallHolds
  <2> QED BY <2>2 DEF n
<1>4. ASSUME NEW asked, asked # "getblock"
      PROVE  CallHolds([r EXCEPT !.at = at, !.asked = asked])
  <2> DEFINE n == [r EXCEPT !.at = at, !.asked = asked]
  <2>1. IsCall(n) /\ n.asked = asked /\ n.hashes = r.hashes /\ n.result = r.result
    BY <1>0 DEF IsCall
  <2> HIDE DEF n
  <2>2. CallHolds(n)
    BY <1>4, <2>1 DEF CallHolds
  <2> QED BY <2>2 DEF n
<1>5. ASSUME NEW asked, NEW hashes, \A k \in Positions : hashes[k].height = k
      PROVE  CallHolds([r EXCEPT !.at = at, !.asked = asked, !.hashes = hashes])
  <2> DEFINE n == [r EXCEPT !.at = at, !.asked = asked, !.hashes = hashes]
  <2>1. IsCall(n) /\ n.asked = asked /\ n.hashes = hashes /\ n.result = r.result
    BY <1>0 DEF IsCall
  <2> HIDE DEF n
  <2>2. CallHolds(n)
    BY <1>5, <2>1 DEF CallHolds
  <2> QED BY <2>2 DEF n
<1>6. ASSUME NEW result, r.asked # "getblock", IsOfItsHeight(result)
      PROVE  CallHolds([r EXCEPT !.at = at, !.result = result])
  <2> DEFINE n == [r EXCEPT !.at = at, !.result = result]
  <2>1. IsCall(n) /\ n.asked = r.asked /\ n.hashes = r.hashes /\ n.result = result
    BY <1>0 DEF IsCall
  <2> HIDE DEF n
  <2>2. CallHolds(n)
    BY <1>6, <2>1 DEF CallHolds
  <2> QED BY <2>2 DEF n
<1> QED BY <1>1, <1>2, <1>3, <1>4, <1>5, <1>6

(***************************************************************************)
(* So does the end of a call.                                              *)
(***************************************************************************)
LEMMA CallEnded ==
  ASSUME CallInv, NEW c, NEW result, IsOfItsHeight(result), End(c, result)
  PROVE  CallInv'
<1>1. CallHolds([NoRpc EXCEPT !.at = "ended", !.result = result])
  BY NoCallHolds, CallChanged
<1> QED BY <1>1, CallReplaced DEF End

(***************************************************************************)
(* What is returned is of its call.                                        *)
(***************************************************************************)
LEMMA CallInvariance == RpcSpec => []CallInv
<1>0. IsOfItsHeight(<< >>)
  BY NoCallHolds
<1>1. RpcInit => CallInv
  BY NoCallHolds DEF RpcInit, CallInv
<1>2. CallInv /\ [RpcNext]_rpcVars => CallInv'
  <2> SUFFICES ASSUME CallInv, [RpcNext]_rpcVars
               PROVE  CallInv'
    OBVIOUS
  <2>1. CASE Send
    <3> DEFINE c == Head(waiting)
               was == rpcCall[c]
               new == [was EXCEPT !.at = "sent", !.seen = branch]
    <3>1. rpcCall' = [rpcCall EXCEPT ![c] = new]
      BY <2>1 DEF Send
    <3>2. CASE c \in Callers
      <4>1. CallHolds(was)
        BY <3>2 DEF CallInv
      <4>2. CallHolds(new)
        BY <4>1, CallChanged
      <4> QED BY <3>1, <4>2, CallReplaced
    <3>3. CASE c \notin Callers
      <4>1. rpcCall' = rpcCall
        BY <3>1, <3>3 DEF CallInv
      <4> QED BY <4>1 DEF CallInv
    <3> QED BY <3>2, <3>3
  <2>2. CASE UNCHANGED rpcCall
    BY <2>2 DEF CallInv
  <2>3. ReserveSlot \/ NodeReorganises \/ RpcTick \/ UNCHANGED rpcVars => UNCHANGED rpcCall
    BY DEF ReserveSlot, NodeReorganises, RpcTick, rpcVars
  <2>4. ASSUME NEW c \in Callers, Ask(c)
        PROVE  CallInv'
    <3>1. PICK method \in {"getblockhash", "getrawtransaction", "getblockcount"} :
            rpcCall' = [rpcCall EXCEPT ![c] = [NoRpc EXCEPT !.at = "queued", !.asked = method]]
      BY <2>4 DEF Ask
    <3> DEFINE new == [NoRpc EXCEPT !.at = "queued", !.asked = method]
    <3>2. method # "getblock"
      OBVIOUS
    <3>3. CallHolds(new)
      BY <3>2, NoCallHolds, CallChanged
    <3> QED BY <3>1, <3>3, CallReplaced
  <2>5. ASSUME NEW c \in Callers, Overloaded(c) \/ Retry(c)
        PROVE  CallInv'
    <3> DEFINE was == rpcCall[c]
    <3>0. CallHolds(was)
      BY DEF CallInv
    <3>1. CASE End(c, << >>)
      BY <1>0, <3>1, CallEnded
    <3>2. CASE \E until : rpcCall' = [rpcCall EXCEPT ![c] =
                 [was EXCEPT !.at = "backoff", !.attempt = was.attempt + 1, !.until = until]]
      <4>1. PICK until : rpcCall' = [rpcCall EXCEPT ![c] =
                 [was EXCEPT !.at = "backoff", !.attempt = was.attempt + 1, !.until = until]]
        BY <3>2
      <4>2. CallHolds([was EXCEPT !.at = "backoff", !.attempt = was.attempt + 1,
                                  !.until = until])
        BY <3>0, CallChanged
      <4> QED BY <4>1, <4>2, CallReplaced
    <3>3. CASE rpcCall' = [rpcCall EXCEPT ![c] = [was EXCEPT !.at = "queued"]]
      <4>1. CallHolds([was EXCEPT !.at = "queued"])
        BY <3>0, CallChanged
      <4> QED BY <3>3, <4>1, CallReplaced
    <3>4. Retry(c) => rpcCall' = [rpcCall EXCEPT ![c] = [was EXCEPT !.at = "queued"]]
      BY DEF Retry
    <3>5. Overloaded(c) =>
            \/ End(c, << >>)
            \/ \E until : rpcCall' = [rpcCall EXCEPT ![c] =
                 [was EXCEPT !.at = "backoff", !.attempt = was.attempt + 1, !.until = until]]
      BY DEF Overloaded
    <3> QED BY <2>5, <3>1, <3>2, <3>3, <3>4, <3>5
  <2>6. ASSUME NEW c \in Callers, RpcFails(c) \/ AnswerSingle(c)
        PROVE  CallInv'
    BY <1>0, <2>6, CallEnded DEF RpcFails, AnswerSingle
  <2>7. ASSUME NEW c \in Callers, AnswerHashes(c)
        PROVE  CallInv'
    <3>1. PICK of \in [Positions -> {rpcCall[c].seen, branch}] :
            \E entries \in Responses([k \in Positions |-> [height |-> k, branch |-> of[k]]]) :
              IF Complete(entries)
              THEN rpcCall' = [rpcCall EXCEPT ![c] = [NoRpc EXCEPT
                      !.at = "queued", !.asked = "getblock", !.hashes = ReadBatch(entries)]]
              ELSE End(c, << >>)
      BY <2>7 DEF AnswerHashes
    <3> DEFINE answers == [k \in Positions |-> [height |-> k, branch |-> of[k]]]
    <3>2. PICK entries \in Responses(answers) :
            IF Complete(entries)
            THEN rpcCall' = [rpcCall EXCEPT ![c] = [NoRpc EXCEPT
                    !.at = "queued", !.asked = "getblock", !.hashes = ReadBatch(entries)]]
            ELSE End(c, << >>)
      BY <3>1
    <3>3. CASE Complete(entries)
      <4> DEFINE new == [NoRpc EXCEPT !.at = "queued", !.asked = "getblock",
                                      !.hashes = ReadBatch(entries)]
      <4>2. \A k \in Positions : answers[k].height = k
        OBVIOUS
      <4> HIDE DEF answers
      <4>3. \A k \in Positions : ReadBatch(entries)[k].height = k
        BY <3>3, <4>2, OwnAnswerIsRead
      <4>4. CallHolds(new)
        BY NoCallHolds, <4>3, CallChanged
      <4> QED BY <3>2, <3>3, <4>4, CallReplaced
    <3>4. CASE ~Complete(entries)
      BY <1>0, <3>2, <3>4, CallEnded
    <3> QED BY <3>3, <3>4
  <2>8. ASSUME NEW c \in Callers, AnswerBlocks(c)
        PROVE  CallInv'
    <3>1. PICK entries \in Responses(rpcCall[c].hashes) :
            End(c, IF Complete(entries)
                   THEN DecodeSnapshots(ReadBatch(entries), rpcCall[c].hashes)
                   ELSE << >>)
      BY <2>8 DEF AnswerBlocks
    <3>2. \A k \in Positions : rpcCall[c].hashes[k].height = k
      BY <2>8 DEF AnswerBlocks, CallInv, CallHolds
    <3>3. CASE Complete(entries)
      <4>1. \A k \in Positions : ReadBatch(entries)[k].height = k
        BY <3>2, <3>3, OwnAnswerIsRead
      <4>2. IsOfItsHeight([k \in Positions |-> [height |-> k, block |-> ReadBatch(entries)[k]]])
        BY <4>1 DEF IsOfItsHeight
      <4>3. IsOfItsHeight(DecodeSnapshots(ReadBatch(entries), rpcCall[c].hashes))
        BY <1>0, <4>2 DEF DecodeSnapshots
      <4> QED BY <3>1, <3>3, <4>3, CallEnded
    <3>4. CASE ~Complete(entries)
      BY <1>0, <3>1, <3>4, CallEnded
    <3> QED BY <3>3, <3>4
  <2>9. ASSUME NEW c \in Callers, AnswerTransactions(c)
        PROVE  CallInv'
    <3> DEFINE answers == [k \in Positions |-> [height |-> k, branch |-> 0]]
    <3>1. PICK listed \in SUBSET Positions, entries \in Responses(answers) :
            End(c, IF Complete(entries) /\ listed = Positions
                   THEN [k \in Positions |-> [height |-> k, block |-> ReadBatch(entries)[k]]]
                   ELSE << >>)
      BY <2>9 DEF AnswerTransactions
    <3>2. \A k \in Positions : answers[k].height = k
      OBVIOUS
    <3> HIDE DEF answers
    <3>3. CASE Complete(entries) /\ listed = Positions
      <4>1. \A k \in Positions : ReadBatch(entries)[k].height = k
        BY <3>2, <3>3, OwnAnswerIsRead
      <4>2. IsOfItsHeight([k \in Positions |-> [height |-> k, block |-> ReadBatch(entries)[k]]])
        BY <4>1 DEF IsOfItsHeight
      <4> QED BY <3>1, <3>3, <4>2, CallEnded
    <3>4. CASE ~(Complete(entries) /\ listed = Positions)
      BY <1>0, <3>1, <3>4, CallEnded
    <3> QED BY <3>3, <3>4
  <2> QED BY <2>1, <2>2, <2>3, <2>4, <2>5, <2>6, <2>7, <2>8, <2>9 DEF RpcNext
<1> QED BY <1>1, <1>2, PTL DEF RpcSpec

(***************************************************************************)
(* Whatever the order of the entries of a response and however the chain   *)
(* of the node moves between the two batches, what the gateway returns for *)
(* a height is a block of that height, and for a transaction that          *)
(* transaction.                                                            *)
(***************************************************************************)
THEOREM ResultsOfTheirCalls == RpcSpec => []ResultsAreOfTheirCalls
<1>1. CallInv => ResultsAreOfTheirCalls
  BY DEF CallInv, CallHolds, IsOfItsHeight, ResultsAreOfTheirCalls
<1> QED BY <1>1, CallInvariance, PTL

-----------------------------------------------------------------------------
\* The rate limiter.

(***************************************************************************)
(* The requests let through in a stretch as long as a window, from the     *)
(* i-th one on.                                                            *)
(***************************************************************************)
Stretch(at, i) == {j \in DOMAIN at : j >= i /\ at[j] < at[i] + WindowTicks}
BurstsHold(at) == \A i \in DOMAIN at : Cardinality(Stretch(at, i)) <= 2 * MaxRequests

(***************************************************************************)
(* One more is let through at a time t.  Those before it that are less     *)
(* than a window old are the c of its own window, fewer than its limit,    *)
(* and at most as many as the limit of the window before.                  *)
(***************************************************************************)
LEMMA OneMoreRequest ==
  ASSUME NEW at \in Seq(Nat), NEW t \in Nat, NEW c \in 0 .. MaxRequests - 1, BurstsHold(at),
         \A j \in 1 .. Len(at) : j <= Len(at) - c - MaxRequests => at[j] <= t - WindowTicks
  PROVE  BurstsHold(Append(at, t))
<1> USE LimiterAssumption
<1> DEFINE n == Len(at)
           more == Append(at, t)
<1>1. /\ n \in Nat /\ DOMAIN at = 1 .. n /\ DOMAIN more = 1 .. n + 1 /\ more[n + 1] = t
      /\ \A j \in 1 .. n : more[j] = at[j] /\ at[j] \in Nat
  OBVIOUS
<1> SUFFICES ASSUME NEW i \in 1 .. n + 1
             PROVE  Cardinality(Stretch(more, i)) <= 2 * MaxRequests
  BY <1>1 DEF BurstsHold
<1>t. c \in Nat /\ c < MaxRequests /\ MaxRequests \in Nat /\ WindowTicks \in Nat
  OBVIOUS
<1> HIDE DEF n, more
<1>2. CASE i \in 1 .. n /\ at[i] + WindowTicks <= t
  <2>0. more[i] = at[i] /\ at[i] \in Nat
    BY <1>1, <1>2
  <2>1. \A j \in 1 .. n + 1 :
          j >= i /\ more[j] < more[i] + WindowTicks <=>
            j \in 1 .. n /\ j >= i /\ at[j] < at[i] + WindowTicks
    <3> TAKE j \in 1 .. n + 1
    <3>1. CASE j = n + 1
      BY <1>1, <1>t, <1>2, <2>0, <3>1
    <3>2. CASE j \in 1 .. n
      BY <1>1, <2>0, <3>2
    <3> QED BY <1>1, <3>1, <3>2
  <2>2. 1 .. n \subseteq 1 .. n + 1
    BY <1>1
  <2>3. Stretch(more, i) = Stretch(at, i)
    BY <1>1, <2>1, <2>2, Zenon DEF Stretch
  <2> QED BY <1>1, <1>2, <2>3 DEF BurstsHold
<1>3. CASE ~(i \in 1 .. n /\ at[i] + WindowTicks <= t)
  <2>1. i > n - c - MaxRequests
    <3>1. CASE i = n + 1
      BY <1>1, <1>t, <3>1
    <3>2. CASE i \in 1 .. n
      <4>1. ~(at[i] <= t - WindowTicks)
        BY <1>1, <1>t, <1>3, <3>2
      <4> QED BY <1>1, <1>t, <3>2, <4>1 DEF n
    <3> QED BY <1>1, <3>1, <3>2
  <2> DEFINE first == n - c - MaxRequests + 1
  <2>2. first \in Int /\ n + 1 \in Int /\ first <= n + 1 /\ (n + 1) - first + 1 = c + MaxRequests + 1
    BY <1>1, <1>t
  <2>3. Stretch(more, i) \subseteq first .. n + 1
    BY <1>1, <1>t, <2>1 DEF Stretch
  <2> HIDE DEF first
  <2>4. IsFiniteSet(first .. n + 1) /\ Cardinality(first .. n + 1) = c + MaxRequests + 1
    BY <2>2, FS_Interval
  <2> DEFINE S == Stretch(more, i)
             all == first .. n + 1
  <2>5. S \in SUBSET all /\ IsFiniteSet(all) /\ Cardinality(all) = c + MaxRequests + 1
    BY <2>3, <2>4
  <2> HIDE DEF S, all
  <2>6. IsFiniteSet(S) /\ Cardinality(S) <= Cardinality(all)
    BY <2>5, FS_Subset
  <2>7. Cardinality(S) \in Nat
    BY <2>6, FS_CardinalityType
  <2>8. Cardinality(S) <= 2 * MaxRequests
    BY <1>t, <2>5, <2>6, <2>7
  <2> QED BY <2>8 DEF S
<1> QED BY <1>2, <1>3

(***************************************************************************)
(* What is told to a caller that is refused suffices: the seconds are      *)
(* rounded up.                                                             *)
(***************************************************************************)
LEMMA SecondsSuffice ==
  ASSUME now \in Nat, NEW at \in Nat
  PROVE  SecondsUntil(at) \in Nat /\ at <= now + SecondsUntil(at) * SecondTicks
<1> USE LimiterAssumption
<1> DEFINE late == at - now + SecondTicks - 1
           up == late \div SecondTicks
<1>1. late \in Int /\ SecondTicks \in Nat \ {0}
  OBVIOUS
<1>2. up \in Int /\ late < up * SecondTicks + SecondTicks
  BY <1>1
<1>3. SecondsUntil(at) = IF up < 1 THEN 1 ELSE up
  BY DEF SecondsUntil
<1>4. at - now <= up * SecondTicks
  <2> DEFINE all == up * SecondTicks
  <2>1. all \in Int /\ late < all + SecondTicks
    BY <1>1, <1>2
  <2> HIDE DEF all
  <2> QED BY <2>1 DEF all
<1> HIDE DEF up, late
<1>5. CASE up < 1
  <2>1. up * SecondTicks <= SecondTicks
    BY <1>1, <1>2, <1>5
  <2> DEFINE all == up * SecondTicks
  <2>2. all \in Int
    BY <1>1, <1>2
  <2> HIDE DEF all
  <2>3. at <= now + SecondTicks
    BY <1>1, <1>4, <2>1, <2>2 DEF all
  <2>4. 1 * SecondTicks = SecondTicks
    BY <1>1
  <2> QED BY <1>3, <1>5, <2>3, <2>4
<1>6. CASE ~(up < 1)
  <2>1. up \in Nat /\ SecondsUntil(at) = up
    BY <1>2, <1>3, <1>6
  <2> DEFINE all == up * SecondTicks
  <2>2. all \in Int
    BY <1>1, <1>2
  <2>3. at <= now + all
    <3> HIDE DEF all
    <3> QED BY <1>4, <2>2 DEF all
  <2> QED BY <2>1, <2>3
<1> QED BY <1>5, <1>6

(***************************************************************************)
(* The window of the subject ends at resetAt: the last count requests are  *)
(* of it and at most as many as the limit of the window before, which      *)
(* ended when it began or earlier.                                         *)
(***************************************************************************)
PastHolds(at, count, resetAt) ==
  /\ count <= Len(at)
  /\ \A j \in 1 .. Len(at) :
       /\ at[j] < resetAt
       /\ j <= Len(at) - count => at[j] < resetAt - WindowTicks
       /\ j <= Len(at) - count - MaxRequests => at[j] < resetAt - 2 * WindowTicks

(***************************************************************************)
(* A refusal was made before the window ends; it names a time at which it  *)
(* is over, or was made in an earlier one.                                 *)
(***************************************************************************)
RefusalHolds(r, resetAt) ==
  /\ r.at \in Nat /\ r.after \in Nat /\ r.at < resetAt
  /\ resetAt <= r.at + r.after * SecondTicks \/ resetAt - WindowTicks > r.at

(***************************************************************************)
(* There is one window at most, and none before the first request.         *)
(***************************************************************************)
Windows == [count : 0 .. MaxRequests, resetAt : Nat]
LimiterInv ==
  /\ now \in Nat /\ allowedAt \in Seq(Nat) /\ BurstsHold(allowedAt)
  /\ window = {} => allowedAt = << >> /\ refusal = {}
  /\ \A w \in window :
       /\ window = {w} /\ w \in Windows /\ w.resetAt - WindowTicks <= now
       /\ PastHolds(allowedAt, w.count, w.resetAt)
       /\ \A r \in refusal : RefusalHolds(r, w.resetAt)

(***************************************************************************)
(* A request is let through in a window that is active.                    *)
(***************************************************************************)
LEMMA WindowGoesOn ==
  ASSUME LimiterInv, NEW w \in window, now < w.resetAt, w.count < MaxRequests,
         window' = {[w EXCEPT !.count = w.count + 1]}, allowedAt' = Append(allowedAt, now),
         UNCHANGED <<now, refusal>>
  PROVE  LimiterInv'
<1> USE LimiterAssumption
<1> DEFINE n == Len(allowedAt)
           new == [w EXCEPT !.count = w.count + 1]
           c == w.count
           end == w.resetAt
<1>1. /\ c \in 0 .. MaxRequests - 1 /\ end \in Nat /\ now \in Nat /\ end - WindowTicks <= now
      /\ now < end
  <2>1. w \in Windows /\ w.resetAt - WindowTicks <= now /\ now \in Nat
    BY DEF LimiterInv
  <2>2. w.count \in 0 .. MaxRequests /\ w.resetAt \in Nat
    BY <2>1 DEF Windows
  <2> QED BY <2>1, <2>2
<1>2. new \in Windows /\ new.count = c + 1 /\ new.resetAt = end
  <2>1. w \in Windows
    BY DEF LimiterInv
  <2>2. w.count + 1 \in 0 .. MaxRequests
    BY <1>1
  <2> QED BY <2>1, <2>2 DEF Windows
<1>3. PastHolds(allowedAt, c, end)
  BY DEF LimiterInv
<1> HIDE DEF new, c, end
<1>p. /\ c <= n
      /\ \A j \in 1 .. n :
           /\ allowedAt[j] < end
           /\ j <= n - c => allowedAt[j] < end - WindowTicks
           /\ j <= n - c - MaxRequests => allowedAt[j] < end - 2 * WindowTicks
  BY <1>3 DEF PastHolds
<1>q. c \in Nat /\ c < MaxRequests /\ MaxRequests \in Nat /\ WindowTicks \in Nat
  BY <1>1
<1>4. /\ n \in Nat /\ allowedAt \in Seq(Nat) /\ allowedAt' \in Seq(Nat) /\ Len(allowedAt') = n + 1
      /\ \A j \in 1 .. n : allowedAt'[j] = allowedAt[j] /\ allowedAt[j] \in Nat
      /\ allowedAt'[n + 1] = now
  BY <1>1 DEF LimiterInv
<1> HIDE DEF n
<1>5. BurstsHold(allowedAt')
  <2>1. \A j \in 1 .. n : j <= n - c - MaxRequests => allowedAt[j] <= now - WindowTicks
    <3> TAKE j \in 1 .. n
    <3>1. CASE j <= n - c - MaxRequests
      <4>1. allowedAt[j] < end - 2 * WindowTicks /\ allowedAt[j] \in Nat
        BY <1>p, <1>4, <3>1
      <4> QED BY <1>1, <1>q, <4>1
    <3> QED BY <3>1
  <2>2. BurstsHold(allowedAt)
    BY DEF LimiterInv
  <2> QED BY <1>1, <1>4, <2>1, <2>2, OneMoreRequest DEF n
<1>6. PastHolds(allowedAt', c + 1, end)
  <2>1. c + 1 <= n + 1
    BY <1>p, <1>q, <1>4
  <2>2. ASSUME NEW j \in 1 .. n + 1
        PROVE  /\ allowedAt'[j] < end
               /\ j <= (n + 1) - (c + 1) => allowedAt'[j] < end - WindowTicks
               /\ j <= (n + 1) - (c + 1) - MaxRequests => allowedAt'[j] < end - 2 * WindowTicks
    <3>1. CASE j = n + 1
      BY <1>1, <1>4, <3>1
    <3>2. CASE j \in 1 .. n
      <4>1. /\ allowedAt[j] < end
            /\ j <= n - c => allowedAt[j] < end - WindowTicks
            /\ j <= n - c - MaxRequests => allowedAt[j] < end - 2 * WindowTicks
        BY <1>p, <3>2
      <4>2. allowedAt'[j] = allowedAt[j] /\ allowedAt[j] \in Nat
        BY <1>4, <3>2
      <4>3. /\ j <= (n + 1) - (c + 1) => j <= n - c
            /\ j <= (n + 1) - (c + 1) - MaxRequests => j <= n - c - MaxRequests
        <5>1. n \in Nat /\ c \in Nat /\ MaxRequests \in Nat /\ j \in Nat
          BY <1>4, <1>q, <3>2
        <5> HIDE LimiterAssumption
        <5> QED BY <5>1
      <4> QED BY <4>1, <4>2, <4>3
    <3> QED BY <1>4, <3>1, <3>2
  <2> QED BY <1>4, <2>1, <2>2 DEF PastHolds
<1>7. window' = {new} /\ \A r \in refusal : RefusalHolds(r, end)
  BY DEF LimiterInv, new, end
<1> QED BY <1>1, <1>2, <1>4, <1>5, <1>6, <1>7 DEF LimiterInv

(***************************************************************************)
(* A request is let through as the first one of a window.                  *)
(***************************************************************************)
LEMMA WindowBegins ==
  ASSUME LimiterInv, \A w \in window : w.resetAt <= now,
         window' = {[count |-> 1, resetAt |-> now + WindowTicks]},
         allowedAt' = Append(allowedAt, now), UNCHANGED <<now, refusal>>
  PROVE  LimiterInv'
<1> USE LimiterAssumption
<1> DEFINE n == Len(allowedAt)
           new == [count |-> 1, resetAt |-> now + WindowTicks]
<1>0. now \in Nat /\ allowedAt \in Seq(Nat)
  BY DEF LimiterInv
<1>1. new \in Windows /\ new.count = 1 /\ new.resetAt = now + WindowTicks
  BY <1>0 DEF Windows
<1>2. /\ n \in Nat /\ allowedAt' \in Seq(Nat) /\ Len(allowedAt') = n + 1
      /\ \A j \in 1 .. n : allowedAt'[j] = allowedAt[j] /\ allowedAt[j] \in Nat
      /\ allowedAt'[n + 1] = now
  BY <1>0
<1> HIDE DEF new, n
<1>3. \A j \in 1 .. n :
        /\ allowedAt[j] < now
        /\ j <= n - MaxRequests => allowedAt[j] < now - WindowTicks
  <2>1. CASE window = {}
    <3>1. n = 0
      BY <2>1 DEF LimiterInv, n
    <3> QED BY <3>1
  <2>2. CASE window # {}
    <3>1. PICK w \in window : TRUE
      BY <2>2
    <3>2. w \in Windows /\ PastHolds(allowedAt, w.count, w.resetAt) /\ w.resetAt <= now
      BY <3>1 DEF LimiterInv
    <3>3. w.count \in Nat /\ w.count <= MaxRequests /\ w.resetAt \in Nat
      BY <3>2 DEF Windows
    <3>4. \A j \in 1 .. n :
            allowedAt[j] < w.resetAt
            /\ (j <= n - w.count => allowedAt[j] < w.resetAt - WindowTicks)
      BY <3>2 DEF PastHolds, n
    <3> TAKE j \in 1 .. n
    <3>5. allowedAt[j] \in Nat /\ allowedAt[j] < now
      BY <1>0, <1>2, <3>2, <3>3, <3>4
    <3>6. CASE j <= n - MaxRequests
      <4>1. j <= n - w.count
        BY <1>2, <3>3, <3>6
      <4>2. allowedAt[j] < w.resetAt - WindowTicks
        BY <3>4, <4>1
      <4> QED BY <1>0, <3>2, <3>3, <3>5, <4>2
    <3> QED BY <3>5, <3>6
  <2> QED BY <2>1, <2>2
<1>4. BurstsHold(allowedAt')
  <2>1. \A j \in 1 .. n : j <= n - 0 - MaxRequests => allowedAt[j] <= now - WindowTicks
    BY <1>0, <1>2, <1>3
  <2>2. 0 \in 0 .. MaxRequests - 1 /\ BurstsHold(allowedAt)
    BY DEF LimiterInv
  <2> QED BY <1>0, <2>1, <2>2, OneMoreRequest DEF n
<1>5. PastHolds(allowedAt', 1, now + WindowTicks)
  <2>1. ASSUME NEW j \in 1 .. n + 1
        PROVE  /\ allowedAt'[j] < now + WindowTicks
               /\ j <= (n + 1) - 1 => allowedAt'[j] < (now + WindowTicks) - WindowTicks
               /\ j <= (n + 1) - 1 - MaxRequests =>
                    allowedAt'[j] < (now + WindowTicks) - 2 * WindowTicks
    <3>1. CASE j = n + 1
      BY <1>0, <1>2, <3>1
    <3>2. CASE j \in 1 .. n
      BY <1>0, <1>2, <1>3, <3>2
    <3> QED BY <1>2, <3>1, <3>2
  <2> QED BY <1>2, <2>1 DEF PastHolds
<1>6. \A r \in refusal : RefusalHolds(r, now + WindowTicks)
  <2> SUFFICES ASSUME NEW r \in refusal
               PROVE  RefusalHolds(r, now + WindowTicks)
    OBVIOUS
  <2>1. PICK w \in window : TRUE
    BY DEF LimiterInv
  <2>2. w \in Windows /\ RefusalHolds(r, w.resetAt) /\ w.resetAt <= now
    BY <2>1 DEF LimiterInv
  <2>3. w.resetAt \in Nat
    BY <2>2 DEF Windows
  <2>4. r.at \in Nat /\ r.after \in Nat /\ r.at < now
    BY <1>0, <2>2, <2>3 DEF RefusalHolds
  <2> QED BY <1>0, <2>4 DEF RefusalHolds
<1>7. window' = {new}
  BY DEF new
<1>8. (now + WindowTicks) - WindowTicks <= now
  BY <1>0
<1> QED BY <1>0, <1>1, <1>2, <1>4, <1>5, <1>6, <1>7, <1>8 DEF LimiterInv

(***************************************************************************)
(* It is kept.                                                             *)
(***************************************************************************)
LEMMA LimiterInvariance == LimiterSpec => []LimiterInv
<1> USE LimiterAssumption
<1>1. LimiterInit => LimiterInv
  BY DEF LimiterInit, LimiterInv, BurstsHold
<1>2. LimiterInv /\ [LimiterNext]_limiterVars => LimiterInv'
  <2> SUFFICES ASSUME LimiterInv, [LimiterNext]_limiterVars
               PROVE  LimiterInv'
    OBVIOUS
  <2>t. now \in Nat
    BY DEF LimiterInv
  <2>1. CASE Consume /\ \E w \in window : now < w.resetAt
    <3>1. PICK w \in window : now < w.resetAt
      BY <2>1
    <3>2. window = {w} /\ w \in Windows
      BY <3>1 DEF LimiterInv
    <3>3. CurrentWindow = w
      BY <3>1, <3>2 DEF CurrentWindow, IsActive
    <3>4. CASE w.count < MaxRequests
      <4>1. /\ window' = {[w EXCEPT !.count = w.count + 1]}
            /\ allowedAt' = Append(allowedAt, now) /\ UNCHANGED <<now, refusal>>
        BY <2>1, <3>3, <3>4 DEF Consume, WithinLimit
      <4> QED BY <3>1, <3>4, <4>1, WindowGoesOn
    <3>5. CASE ~(w.count < MaxRequests)
      <4>1. /\ window' = {w} /\ UNCHANGED <<now, allowedAt>>
            /\ refusal' = {[at |-> now, after |-> SecondsUntil(w.resetAt)]}
        BY <2>1, <3>3, <3>5 DEF Consume, WithinLimit
      <4>2. w.resetAt \in Nat
        BY <3>2 DEF Windows
      <4>3. /\ SecondsUntil(w.resetAt) \in Nat
            /\ w.resetAt <= now + SecondsUntil(w.resetAt) * SecondTicks
        BY <2>t, <4>2, SecondsSuffice
      <4>4. RefusalHolds([at |-> now, after |-> SecondsUntil(w.resetAt)], w.resetAt)
        BY <2>t, <3>1, <4>3 DEF RefusalHolds
      <4> QED BY <3>2, <4>1, <4>4 DEF LimiterInv
    <3> QED BY <3>4, <3>5
  <2>2. CASE Consume /\ ~\E w \in window : now < w.resetAt
    <3>1. CurrentWindow = [count |-> 0, resetAt |-> now + WindowTicks]
      BY <2>2 DEF CurrentWindow, IsActive
    <3>2. CurrentWindow.count = 0 /\ CurrentWindow.count < MaxRequests
      BY <3>1
    <3>3. [CurrentWindow EXCEPT !.count = CurrentWindow.count + 1]
            = [count |-> 1, resetAt |-> now + WindowTicks]
      BY <3>1
    <3>4. /\ window' = {[count |-> 1, resetAt |-> now + WindowTicks]}
          /\ allowedAt' = Append(allowedAt, now) /\ UNCHANGED <<now, refusal>>
      BY <2>2, <3>2, <3>3 DEF Consume, WithinLimit
    <3>5. \A w \in window : w.resetAt <= now
      <4> SUFFICES ASSUME NEW w \in window
                   PROVE  w.resetAt <= now
        OBVIOUS
      <4>1. w \in Windows
        BY DEF LimiterInv
      <4>2. w.resetAt \in Nat
        BY <4>1 DEF Windows
      <4> QED BY <2>t, <2>2, <4>2
    <3> QED BY <3>4, <3>5, WindowBegins
  <2>3. CASE Advance
    <3>1. now' = now + 1 /\ UNCHANGED <<window, allowedAt, refusal>>
      BY <2>3 DEF Advance
    <3>2. now + 1 \in Nat /\ \A w \in window : w.resetAt - WindowTicks <= now + 1
      <4>1. \A w \in window : w.resetAt \in Nat /\ w.resetAt - WindowTicks <= now
        BY DEF LimiterInv, Windows
      <4> QED BY <2>t, <4>1
    <3> QED BY <3>1, <3>2 DEF LimiterInv
  <2>4. CASE UNCHANGED limiterVars
    BY <2>4 DEF limiterVars, LimiterInv
  <2> QED BY <2>1, <2>2, <2>3, <2>4 DEF LimiterNext
<1> QED BY <1>1, <1>2, PTL DEF LimiterSpec

(***************************************************************************)
(* Any stretch of time as long as a window sees at most twice the policy's *)
(* requests, and a refused caller that waits the seconds it was told finds *)
(* its window over.                                                        *)
(***************************************************************************)
THEOREM LimitsAreKeptAlways == LimiterSpec => []LimitsAreKept
<1> USE LimiterAssumption
<1>1. LimiterInv => LimitsAreKept
  <2> SUFFICES ASSUME LimiterInv
               PROVE  AtMostTwoBursts /\ WaitingIsEnough
    BY DEF LimitsAreKept
  <2>1. AtMostTwoBursts
    BY DEF LimiterInv, BurstsHold, Stretch, AtMostTwoBursts
  <2>2. WaitingIsEnough
    <3> SUFFICES ASSUME NEW r \in refusal, NEW w \in window,
                        now >= r.at + r.after * SecondTicks,
                        ~(w.resetAt - WindowTicks > r.at), now < w.resetAt
                 PROVE  FALSE
      BY DEF WaitingIsEnough, IsActive
    <3>1. w \in Windows /\ RefusalHolds(r, w.resetAt) /\ now \in Nat
      BY DEF LimiterInv
    <3>2. w.resetAt \in Nat
      BY <3>1 DEF Windows
    <3> DEFINE told == r.at + r.after * SecondTicks
    <3>3. told \in Nat /\ w.resetAt <= told
      BY <3>1 DEF RefusalHolds
    <3>4. told <= now
      BY <3>1, <3>3
    <3> HIDE DEF told
    <3> QED BY <3>1, <3>2, <3>3, <3>4
  <2> QED BY <2>1, <2>2
<1> QED BY <1>1, LimiterInvariance, PTL

-----------------------------------------------------------------------------
\* The mempool watches.

(***************************************************************************)
(* Who has counted the watches holds the lock until its own is inserted,   *)
(* and found room for one; meanwhile nobody else inserts, and the others   *)
(* only go.                                                                *)
(***************************************************************************)
WatchLimitInv ==
  /\ session = [s \in Sessions |-> session[s]] /\ registry \subseteq Sessions
  /\ Cardinality(registry) <= MaxWatches
  /\ \A s \in Sessions :
       session[s] = "counted" => createLock = s /\ Cardinality(registry) < MaxWatches

(***************************************************************************)
(* The sessions can be counted, and so can any of them.                    *)
(***************************************************************************)
LEMMA SessionsAreFinite ==
  ASSUME NEW S \in SUBSET Sessions, NEW T \in SUBSET S
  PROVE  /\ IsFiniteSet(S) /\ Cardinality(S) \in Nat /\ Cardinality(T) \in Nat
         /\ Cardinality(T) <= Cardinality(S)
<1>1. IsFiniteSet(Sessions)
  BY WatchConstants, FS_Interval DEF Sessions
<1>2. IsFiniteSet(S)
  BY <1>1, FS_Subset
<1>3. IsFiniteSet(T) /\ Cardinality(T) <= Cardinality(S)
  BY <1>2, FS_Subset
<1> QED BY <1>2, <1>3, FS_CardinalityType

(***************************************************************************)
(* A step after which the watches are some of those there were, and nobody *)
(* has counted who had not, keeps it.                                      *)
(***************************************************************************)
LEMMA WatchesGo ==
  ASSUME WatchLimitInv, registry' \subseteq registry,
         session' = [s \in Sessions |-> session'[s]],
         \A s \in Sessions : session'[s] = "counted" => session[s] = "counted" /\ createLock' = createLock
  PROVE  WatchLimitInv'
<1>1. registry \in SUBSET Sessions /\ registry' \in SUBSET registry
  BY DEF WatchLimitInv
<1>2. /\ Cardinality(registry) \in Nat /\ Cardinality(registry') \in Nat
      /\ Cardinality(registry') <= Cardinality(registry)
  BY <1>1, SessionsAreFinite
<1>3. MaxWatches \in Nat
  BY WatchConstants
<1>4. Cardinality(registry') <= MaxWatches
  BY <1>2, <1>3 DEF WatchLimitInv
<1>5. Cardinality(registry) < MaxWatches => Cardinality(registry') < MaxWatches
  BY <1>2, <1>3
<1>6. \A s \in Sessions :
        session'[s] = "counted" => createLock' = s /\ Cardinality(registry) < MaxWatches
  BY DEF WatchLimitInv
<1> QED BY <1>1, <1>4, <1>5, <1>6 DEF WatchLimitInv

(***************************************************************************)
(* It is kept.                                                             *)
(***************************************************************************)
LEMMA WatchLimitInvariance == WatchSpec => []WatchLimitInv
<1>1. WatchInit => WatchLimitInv
  BY WatchConstants, FS_EmptySet DEF WatchInit, WatchLimitInv
<1>2. WatchLimitInv /\ [WatchNext]_watchVars => WatchLimitInv'
  <2> SUFFICES ASSUME WatchLimitInv, [WatchNext]_watchVars
               PROVE  WatchLimitInv'
    OBVIOUS
  <2>t. session = [s \in Sessions |-> session[s]] /\ registry \subseteq Sessions
    BY DEF WatchLimitInv
  <2>0. UNCHANGED <<session, registry, createLock>> => WatchLimitInv'
    BY DEF WatchLimitInv
  <2>1. ASSUME NEW s \in Sessions, OpenSession(s)
        PROVE  WatchLimitInv'
    <3>1. /\ session' = [session EXCEPT ![s] = "refused"]
             \/ session' = [session EXCEPT ![s] = "checked"]
          /\ UNCHANGED <<registry, createLock>>
      BY <2>1 DEF OpenSession
    <3> QED BY <2>t, <3>1, WatchesGo
  <2>2. ASSUME NEW s \in Sessions, CountWatches(s)
        PROVE  WatchLimitInv'
    <3>1. createLock = NoLock /\ registry' = registry \ old
      BY <2>2 DEF CountWatches, CreateLockFree
    <3>2. \A o \in Sessions : session[o] # "counted"
      BY <3>1 DEF WatchLimitInv, NoLock, Sessions
    <3>3. CASE Cardinality(registry \ old) >= MaxWatches
      <4>1. session' = [session EXCEPT ![s] = "refused"]
        BY <2>2, <3>3 DEF CountWatches
      <4>2. \A o \in Sessions : session'[o] # "counted"
        BY <2>t, <3>2, <4>1
      <4> QED BY <2>t, <3>1, <4>1, <4>2, WatchesGo
    <3>4. CASE ~(Cardinality(registry \ old) >= MaxWatches)
      <4>1. session' = [session EXCEPT ![s] = "counted"] /\ createLock' = s
        BY <2>2, <3>4 DEF CountWatches
      <4>2. registry \in SUBSET Sessions /\ registry \ old \in SUBSET registry
        BY <2>t
      <4>3. Cardinality(registry \ old) \in Nat /\ MaxWatches \in Nat
        BY <4>2, SessionsAreFinite, WatchConstants
      <4>4. Cardinality(registry') < MaxWatches /\ Cardinality(registry') <= MaxWatches
        BY <3>1, <3>4, <4>3
      <4>5. \A o \in Sessions : session'[o] = "counted" => o = s
        BY <2>t, <3>2, <4>1
      <4> QED BY <2>t, <3>1, <4>1, <4>2, <4>4, <4>5 DEF WatchLimitInv
    <3> QED BY <3>3, <3>4
  <2>3. ASSUME NEW s \in Sessions, InsertWatch(s)
        PROVE  WatchLimitInv'
    <3>1. /\ session[s] = "counted" /\ registry' = registry \cup {s}
          /\ session' = [session EXCEPT ![s] = "inserted"]
      BY <2>3 DEF InsertWatch
    <3>2. Cardinality(registry) < MaxWatches /\ MaxWatches \in Nat
      BY <3>1, WatchConstants DEF WatchLimitInv
    <3>3. \A o \in Sessions : session'[o] # "counted"
      BY <2>t, <3>1 DEF WatchLimitInv
    <3>4. IsFiniteSet(registry) /\ Cardinality(registry) \in Nat
      BY <2>t, SessionsAreFinite
    <3>5. Cardinality(registry \cup {s}) \in {Cardinality(registry), Cardinality(registry) + 1}
      BY <3>4, FS_AddElement
    <3>6. Cardinality(registry') <= MaxWatches
      BY <3>1, <3>2, <3>4, <3>5
    <3> QED BY <2>t, <3>1, <3>3, <3>6 DEF WatchLimitInv
  <2>4. ASSUME NEW s \in Sessions, AnnounceWatch(s) \/ EndSession(s)
        PROVE  WatchLimitInv'
    <3>1. /\ session' = [session EXCEPT ![s] = "open"] \/ session' = [session EXCEPT ![s] = "ended"]
          /\ registry' \subseteq registry /\ UNCHANGED createLock
      BY <2>4 DEF AnnounceWatch, EndSession
    <3> QED BY <2>t, <3>1, WatchesGo
  <2>5. ASSUME NEW s \in Sessions, Elapse(s)
        PROVE  UNCHANGED <<session, registry, createLock>>
    BY <2>5 DEF Elapse
  <2>6. CASE StartRefresh
    <3>1. registry' \subseteq registry /\ UNCHANGED <<session, createLock>>
      BY <2>6 DEF StartRefresh
    <3> QED BY <2>t, <3>1, WatchesGo
  <2>7. CASE ApiDies
    <3>1. /\ \A s \in Sessions : session'[s] # "counted"
          /\ session' = [s \in Sessions |-> session'[s]] /\ UNCHANGED registry
      BY <2>7 DEF ApiDies
    <3> QED BY <3>1, WatchesGo
  <2>8. DeliverChanged \/ RefreshFails \/ StartPoll \/ FinishSynchronize \/ Overflow
          \/ SynchronizeFails \/ HydrationFails \/ StatusExpires \/ UNCHANGED watchVars
        => UNCHANGED <<session, registry, createLock>>
    BY DEF DeliverChanged, RefreshFails, StartPoll, FinishSynchronize, Overflow,
           SynchronizeFails, HydrationFails, AbandonSynchronize, StatusExpires, watchVars,
           apiVars
  <2>9. ASSUME NEW t \in Txs, HandleRawTx(t) \/ RawTxFails(t) \/ TxArrives(t) \/ TxLeaves(t)
        PROVE  UNCHANGED <<session, registry, createLock>>
    BY <2>9 DEF HandleRawTx, RawTxFails, TxArrives, TxLeaves, apiVars
  <2>10. ASSUME NEW e \in appears, DeliverAppear(e)
         PROVE  UNCHANGED <<session, registry, createLock>>
    BY <2>10 DEF DeliverAppear
  <2>11. ASSUME NEW p \in {"api", "indexer"}, BusFails(p)
         PROVE  UNCHANGED <<session, registry, createLock>>
    BY <2>11 DEF BusFails
  <2> QED BY <2>0, <2>1, <2>2, <2>3, <2>4, <2>5, <2>6, <2>7, <2>8, <2>9, <2>10, <2>11
          DEF WatchNext, SessionNext, DetectorNext
<1> QED BY <1>1, <1>2, PTL DEF WatchSpec

(***************************************************************************)
(* An API key has at most so many watches, however many sessions are       *)
(* opened at once, expire or die between the count and the insert.         *)
(***************************************************************************)
THEOREM WatchLimitAlwaysHolds == WatchSpec => []WatchLimitHolds
<1>1. WatchLimitInv => WatchLimitHolds
  BY DEF WatchLimitInv, WatchLimitHolds
<1> QED BY <1>1, WatchLimitInvariance, PTL

-----------------------------------------------------------------------------
\* The analytics queries.

(***************************************************************************)
(* A height at which a block has been as deep as the reprocess depth below *)
(* the highest tail there was, or below the first block.                   *)
(***************************************************************************)
IsSettled(t, top) == t \in Int /\ (t <= top - FactsDepth \/ t <= -1)

(***************************************************************************)
(* Who has read the finalized tail has read a settled one.                 *)
(***************************************************************************)
QueryHolds(r, top) ==
  /\ DOMAIN r = {"at", "tail", "ready", "factsTail"}
  /\ r.at = "idle" => r = NoQuery
  /\ r.at \notin {"idle", "tail"} => IsSettled(r.tail, top)
Running == {q \in Queries : query[q] # NoQuery}
QueriesInv ==
  /\ query = [q \in Queries |-> query[q]]
  /\ \A q \in Queries : QueryHolds(query[q], highest)
  /\ activeQueries = Cardinality(Running) /\ activeQueries <= MaxConcurrent

(***************************************************************************)
(* The indexer's tail is at most the reprocess depth below the highest     *)
(* one, every block up to it has its facts unless the script owes them,    *)
(* and what is published is settled.                                       *)
(***************************************************************************)
FactsInv ==
  /\ factTip \in Int /\ highest \in Int /\ owed \in Int
  /\ factTip <= highest /\ highest - FactsDepth <= factTip /\ -1 <= factTip
  /\ facts = [h \in FactHeights |-> facts[h]]
  /\ \A h \in FactHeights : h <= factTip /\ facts[h] = "none" => h <= owed
  /\ finalTail # Unset => IsSettled(finalTail, highest)
  /\ DOMAIN script = {"at", "through"} /\ (script.at # "idle" => script.through \in Int)

(***************************************************************************)
(* No query is idle.                                                       *)
(***************************************************************************)
LEMMA NoQueryIs == \A top : QueryHolds(NoQuery, top) /\ NoQuery.at = "idle"
BY DEF QueryHolds, NoQuery

(***************************************************************************)
(* A query in flight goes on.                                              *)
(***************************************************************************)
LEMMA QueryGoesOn ==
  ASSUME QueriesInv, NEW q \in Queries, query[q].at # "idle", NEW r, r.at # "idle",
         QueryHolds(r, highest), query' = [query EXCEPT ![q] = r],
         UNCHANGED <<activeQueries, highest>>
  PROVE  QueriesInv'
<1>1. query = [o \in Queries |-> query[o]]
  BY DEF QueriesInv
<1>2. query[q] # NoQuery /\ r # NoQuery
  BY NoQueryIs
<1>3. query' = [o \in Queries |-> query'[o]] /\ \A o \in Queries : query'[o] = IF o = q THEN r ELSE query[o]
  BY <1>1
<1>4. Running' = Running
  BY <1>2, <1>3 DEF Running
<1> QED BY <1>3, <1>4 DEF QueriesInv

(***************************************************************************)
(* A query ends: it gives back its slot, and no other one.                 *)
(***************************************************************************)
LEMMA QueryEnds ==
  ASSUME QueriesInv, NEW q \in Queries, query[q].at # "idle", Finish(q), UNCHANGED highest
  PROVE  QueriesInv'
<1>1. query = [o \in Queries |-> query[o]]
  BY DEF QueriesInv
<1>2. query[q] # NoQuery
  BY NoQueryIs
<1>3. query' = [o \in Queries |-> query'[o]]
      /\ \A o \in Queries : query'[o] = IF o = q THEN NoQuery ELSE query[o]
  BY <1>1 DEF Finish
<1>4. Running' = Running \ {q} /\ q \in Running
  BY <1>2, <1>3 DEF Running
<1>5. IsFiniteSet(Running)
  BY AnalyticsAssumption, FS_Subset DEF Running
<1>6. Cardinality(Running') = Cardinality(Running) - 1 /\ Cardinality(Running) \in Nat
      /\ Cardinality(Running') \in Nat
  BY <1>4, <1>5, FS_RemoveElement, FS_CardinalityType
<1>7. activeQueries' = Cardinality(Running')
  <2> DEFINE n == Cardinality(Running)
             m == Cardinality(Running')
  <2>1. n \in Nat /\ m \in Nat /\ m = n - 1
    BY <1>6
  <2>2. activeQueries' = IF n <= 1 THEN 0 ELSE n - 1
    BY DEF Finish, ReleaseConcurrency, QueriesInv
  <2> HIDE DEF n, m
  <2>3. activeQueries' = m
    BY <2>1, <2>2
  <2> QED BY <2>3 DEF m
<1>8. activeQueries' <= MaxConcurrent
  <2>1. Cardinality(Running) <= MaxConcurrent /\ MaxConcurrent \in Nat
    BY AnalyticsAssumption DEF QueriesInv
  <2> DEFINE n == Cardinality(Running)
             m == Cardinality(Running')
  <2>2. n \in Nat /\ m \in Nat /\ m = n - 1 /\ activeQueries' = m /\ n <= MaxConcurrent
    BY <1>6, <1>7, <2>1
  <2> HIDE DEF n, m
  <2> QED BY <2>1, <2>2
<1> QED BY <1>3, <1>7, <1>8, NoQueryIs DEF QueriesInv

(***************************************************************************)
(* A query takes a slot that is free.                                      *)
(***************************************************************************)
LEMMA QueryBegins ==
  ASSUME QueriesInv, NEW q \in Queries, query[q] = NoQuery, activeQueries < MaxConcurrent,
         activeQueries' = activeQueries + 1, query' = [query EXCEPT ![q].at = "tail"],
         UNCHANGED highest
  PROVE  QueriesInv'
<1> DEFINE r == [NoQuery EXCEPT !.at = "tail"]
<1>1. query = [o \in Queries |-> query[o]]
  BY DEF QueriesInv
<1>2. DOMAIN r = {"at", "tail", "ready", "factsTail"} /\ r.at = "tail"
  BY DEF NoQuery
<1> HIDE DEF r
<1>3. r # NoQuery /\ QueryHolds(r, highest)
  BY <1>2, NoQueryIs DEF QueryHolds
<1>4. query' = [query EXCEPT ![q] = r]
  BY <1>1 DEF r
<1>5. query' = [o \in Queries |-> query'[o]] /\ \A o \in Queries : query'[o] = IF o = q THEN r ELSE query[o]
  BY <1>1, <1>4
<1>6. Running' = Running \cup {q} /\ q \notin Running
  BY <1>3, <1>5 DEF Running
<1>7. IsFiniteSet(Running)
  BY AnalyticsAssumption, FS_Subset DEF Running
<1>8. Cardinality(Running') = Cardinality(Running) + 1 /\ Cardinality(Running) \in Nat
  BY <1>6, <1>7, FS_AddElement, FS_CardinalityType
<1>9. activeQueries' = Cardinality(Running')
  BY <1>8 DEF QueriesInv
<1>10. activeQueries' <= MaxConcurrent
  <2>1. activeQueries \in Nat /\ MaxConcurrent \in Nat
    BY <1>8, AnalyticsAssumption DEF QueriesInv
  <2> QED BY <2>1
<1> QED BY <1>3, <1>5, <1>9, <1>10 DEF QueriesInv

(***************************************************************************)
(* What is settled stays so.                                               *)
(***************************************************************************)
LEMMA SettledStays ==
  ASSUME NEW top \in Int, NEW higher \in Int, top <= higher
  PROVE  /\ \A t : IsSettled(t, top) => IsSettled(t, higher)
         /\ \A r : QueryHolds(r, top) => QueryHolds(r, higher)
<1>1. \A t : IsSettled(t, top) => IsSettled(t, higher)
  BY AnalyticsAssumption DEF IsSettled
<1> QED BY <1>1 DEF QueryHolds

(***************************************************************************)
(* A step of a query keeps what holds of the queries.                      *)
(***************************************************************************)
LEMMA QueryStep ==
  ASSUME QueriesInv, FactsInv, NEW q \in Queries,
         \/ Begin(q) \/ RequireFinalizedTail(q) \/ ReadReady(q) \/ ReadFactsTail(q)
         \/ Preflight(q) \/ Execute(q)
  PROVE  QueriesInv'
<1> DEFINE was == query[q]
<1>0. UNCHANGED highest
  BY DEF Begin, RequireFinalizedTail, ReadReady, ReadFactsTail, Preflight, Execute,
         QueryUnchanged
<1>t. query = [o \in Queries |-> query[o]] /\ QueryHolds(was, highest)
  BY DEF QueriesInv
<1>d. DOMAIN was = {"at", "tail", "ready", "factsTail"}
  BY <1>t DEF QueryHolds
<1>1. CASE Begin(q)
  <2>1. CASE Refuse(q)
    BY <1>0, <2>1 DEF Refuse, QueriesInv, Running
  <2>2. CASE ~Refuse(q)
    <3>1. /\ query[q] = NoQuery /\ activeQueries < MaxConcurrent
          /\ activeQueries' = activeQueries + 1 /\ query' = [query EXCEPT ![q].at = "tail"]
      BY <1>1, <2>2 DEF Begin
    <3> QED BY <1>0, <3>1, QueryBegins
  <2> QED BY <2>1, <2>2
<1>2. CASE RequireFinalizedTail(q)
  <2>1. was.at = "tail"
    BY <1>2 DEF RequireFinalizedTail
  <2>2. CASE finalTail = Unset
    <3>1. Finish(q)
      BY <1>2, <2>2 DEF RequireFinalizedTail
    <3> QED BY <1>0, <2>1, <3>1, QueryEnds
  <2>3. CASE finalTail # Unset
    <3> DEFINE new == [was EXCEPT !.at = "ready", !.tail = finalTail]
    <3>1. query' = [query EXCEPT ![q] = new] /\ UNCHANGED activeQueries
      <4>1. query' = [query EXCEPT ![q].at = "ready", ![q].tail = finalTail]
            /\ UNCHANGED activeQueries
        BY <1>2, <2>3 DEF RequireFinalizedTail
      <4> QED BY <1>t, <4>1
    <3>2. /\ DOMAIN new = {"at", "tail", "ready", "factsTail"}
          /\ new.at = "ready" /\ new.tail = finalTail
      BY <1>d
    <3> HIDE DEF new, was
    <3>3. IsSettled(finalTail, highest)
      BY <2>3 DEF FactsInv
    <3>4. QueryHolds(new, highest)
      BY <3>2, <3>3 DEF QueryHolds
    <3> QED BY <1>0, <2>1, <3>1, <3>2, <3>4, QueryGoesOn DEF was
  <2> QED BY <2>2, <2>3
<1>3. CASE ReadReady(q)
  <2>1. was.at \in {"ready", "readyLast"} /\ UNCHANGED activeQueries
    BY <1>3 DEF ReadReady
  <2> DEFINE new == [was EXCEPT !.ready = factsReady,
                                !.at = IF was.at = "ready" THEN "tailLast" ELSE "check"]
  <2>2. query' = [query EXCEPT ![q] = new]
    BY <1>t, <1>d, <1>3 DEF ReadReady
  <2>3. /\ DOMAIN new = {"at", "tail", "ready", "factsTail"}
        /\ new.at \in {"tailLast", "check"} /\ new.tail = was.tail
    BY <1>d
  <2> HIDE DEF new, was
  <2>4. IsSettled(was.tail, highest)
    BY <1>t, <2>1 DEF QueryHolds
  <2>5. QueryHolds(new, highest)
    BY <2>3, <2>4 DEF QueryHolds
  <2>6. query[q].at # "idle" /\ new.at # "idle"
    BY <2>1, <2>3 DEF was
  <2> QED BY <1>0, <2>1, <2>2, <2>5, <2>6, QueryGoesOn
<1>4. CASE ReadFactsTail(q)
  <2>1. was.at \in {"ready", "tailLast"} /\ UNCHANGED activeQueries
    BY <1>4 DEF ReadFactsTail
  <2> DEFINE new == [was EXCEPT !.factsTail = factsTail,
                                !.at = IF was.at = "ready" THEN "readyLast" ELSE "check"]
  <2>2. query' = [query EXCEPT ![q] = new]
    BY <1>t, <1>d, <1>4 DEF ReadFactsTail
  <2>3. /\ DOMAIN new = {"at", "tail", "ready", "factsTail"}
        /\ new.at \in {"readyLast", "check"} /\ new.tail = was.tail
    BY <1>d
  <2> HIDE DEF new, was
  <2>4. IsSettled(was.tail, highest)
    BY <1>t, <2>1 DEF QueryHolds
  <2>5. QueryHolds(new, highest)
    BY <2>3, <2>4 DEF QueryHolds
  <2>6. query[q].at # "idle" /\ new.at # "idle"
    BY <2>1, <2>3 DEF was
  <2> QED BY <1>0, <2>1, <2>2, <2>5, <2>6, QueryGoesOn
<1>5. CASE Preflight(q)
  <2>1. was.at = "check"
    BY <1>5 DEF Preflight
  <2>2. CASE Finish(q)
    BY <1>0, <2>1, <2>2, QueryEnds
  <2>3. CASE ~Finish(q)
    <3> DEFINE new == [was EXCEPT !.at = "execute"]
    <3>1. query' = [query EXCEPT ![q] = new] /\ UNCHANGED activeQueries
      BY <1>5, <2>3 DEF Preflight
    <3>2. /\ DOMAIN new = {"at", "tail", "ready", "factsTail"}
          /\ new.at = "execute" /\ new.tail = was.tail
      BY <1>d
    <3> HIDE DEF new, was
    <3>3. IsSettled(was.tail, highest)
      BY <1>t, <2>1 DEF QueryHolds
    <3>4. QueryHolds(new, highest)
      BY <3>2, <3>3 DEF QueryHolds
    <3>5. query[q].at # "idle" /\ new.at # "idle"
      BY <2>1, <3>2 DEF was
    <3> QED BY <1>0, <3>1, <3>4, <3>5, QueryGoesOn
  <2> QED BY <2>2, <2>3
<1>6. CASE Execute(q)
  <2>1. query[q].at # "idle" /\ Finish(q)
    BY <1>6 DEF Execute
  <2> QED BY <1>0, <2>1, QueryEnds
<1> QED BY <1>1, <1>2, <1>3, <1>4, <1>5, <1>6

(***************************************************************************)
(* The queries are left alone by the steps of the indexer and of the       *)
(* script.                                                                 *)
(***************************************************************************)
LEMMA QueriesStay ==
  ASSUME QueriesInv, FactsInv, UNCHANGED <<query, activeQueries>>,
         highest' \in Int, highest <= highest'
  PROVE  QueriesInv'
<1>1. \A q \in Queries : QueryHolds(query[q], highest')
  BY SettledStays DEF QueriesInv, FactsInv
<1>2. Running' = Running
  BY DEF Running
<1> QED BY <1>1, <1>2 DEF QueriesInv

(***************************************************************************)
(* The steps of the indexer and of the script keep what holds of the       *)
(* facts, and the highest tail only rises.                                 *)
(***************************************************************************)
LEMMA FactsStep ==
  ASSUME FactsInv,
         \/ ApplyFacts \/ GoOnline \/ RewindFacts \/ ReadReadiness \/ PublishProgress
         \/ StartBackfill \/ DeleteFacts \/ InsertFacts \/ WriteFactsTail \/ DeclareReady
         \/ ScriptDies
  PROVE  /\ FactsInv' /\ highest' \in Int /\ highest <= highest'
         /\ UNCHANGED <<query, activeQueries>>
<1> USE AnalyticsAssumption
<1>u. UNCHANGED <<query, activeQueries>>
  BY DEF ApplyFacts, GoOnline, RewindFacts, ReadReadiness, PublishProgress, StartBackfill,
         DeleteFacts, InsertFacts, WriteFactsTail, DeclareReady, ScriptDies
<1>t. /\ factTip \in Int /\ highest \in Int /\ owed \in Int
      /\ factTip <= highest /\ highest - FactsDepth <= factTip /\ -1 <= factTip
      /\ FactHeights \subseteq Nat
  BY DEF FactsInv, FactHeights
<1>f. /\ facts = [h \in FactHeights |-> facts[h]]
      /\ \A h \in FactHeights : h <= factTip /\ facts[h] = "none" => h <= owed
  BY DEF FactsInv
<1>s. DOMAIN script = {"at", "through"} /\ (script.at # "idle" => script.through \in Int)
  BY DEF FactsInv
<1>1. CASE ApplyFacts
  <2> DEFINE tip == factTip + 1
  <2>1. /\ factTip' = tip /\ highest' = IF tip > highest THEN tip ELSE highest
        /\ facts' = [facts EXCEPT ![tip] = IF onlineStage THEN "exact" ELSE "rough"]
        /\ UNCHANGED <<finalTail, script, owed>>
    BY <1>1 DEF ApplyFacts
  <2>2. /\ tip \in Int /\ -1 <= tip /\ highest' \in Int /\ highest <= highest' /\ tip <= highest'
        /\ highest' - FactsDepth <= tip
    BY <1>t, <2>1
  <2>3. facts' = [h \in FactHeights |-> facts'[h]]
    BY <1>f, <2>1
  <2>4. \A h \in FactHeights : h # tip => facts'[h] = facts[h]
    BY <1>f, <2>1
  <2>5. \A h \in FactHeights : h = tip => facts'[h] # "none"
    BY <1>f, <2>1
  <2>6. \A h \in FactHeights : h <= tip /\ h # tip => h <= factTip
    BY <1>t
  <2>7. \A h \in FactHeights : h <= tip /\ facts'[h] = "none" => h <= owed
    BY <1>f, <2>4, <2>5, <2>6
  <2>8. finalTail # Unset => IsSettled(finalTail, highest')
    BY <1>t, <2>2, SettledStays DEF FactsInv
  <2> HIDE DEF tip
  <2> QED BY <1>t, <1>s, <1>u, <2>1, <2>2, <2>3, <2>7, <2>8 DEF FactsInv
<1>2. CASE GoOnline \/ ReadReadiness \/ DeclareReady \/ WriteFactsTail
  <2>1. UNCHANGED <<factTip, highest, owed, facts, finalTail>>
    BY <1>2 DEF GoOnline, ReadReadiness, DeclareReady, WriteFactsTail
  <2>2. DOMAIN script' = {"at", "through"} /\ (script'.at # "idle" => script'.through \in Int)
    <3>1. CASE GoOnline \/ ReadReadiness
      BY <1>s, <3>1 DEF GoOnline, ReadReadiness
    <3>2. CASE DeclareReady
      BY <3>2 DEF DeclareReady, NoScript
    <3>3. CASE WriteFactsTail
      BY <1>s, <3>3 DEF WriteFactsTail
    <3> QED BY <1>2, <3>1, <3>2, <3>3
  <2> QED BY <1>t, <1>u, <2>1, <2>2 DEF FactsInv
<1>3. CASE RewindFacts
  <2>1. PICK h \in FactHeights :
          /\ h <= factTip /\ h > highest - FactsDepth
          /\ facts' = [g \in FactHeights |-> IF g >= h THEN "none" ELSE facts[g]]
          /\ factTip' = h - 1
    BY <1>3 DEF RewindFacts
  <2>2. UNCHANGED <<highest, owed, finalTail, script>>
    BY <1>3 DEF RewindFacts
  <2>3. /\ h - 1 \in Int /\ h - 1 <= highest /\ highest - FactsDepth <= h - 1 /\ -1 <= h - 1
    BY <1>t, <2>1
  <2>4. \A g \in FactHeights : g <= h - 1 => ~(g >= h) /\ g <= factTip
    BY <1>t, <2>1
  <2>5. \A g \in FactHeights : g <= h - 1 /\ facts'[g] = "none" => g <= owed
    BY <1>f, <2>1, <2>4
  <2>6. facts' = [g \in FactHeights |-> facts'[g]]
    BY <2>1
  <2> QED BY <1>t, <1>s, <1>u, <2>1, <2>2, <2>3, <2>5, <2>6 DEF FactsInv
<1>4. CASE PublishProgress
  <2>1. finalTail' = FinalizedTail /\ UNCHANGED <<factTip, highest, owed, facts, script>>
    BY <1>4 DEF PublishProgress
  <2>2. IsSettled(FinalizedTail, highest)
    BY <1>t DEF FinalizedTail, IsSettled
  <2> QED BY <1>t, <1>s, <1>f, <1>u, <2>1, <2>2 DEF FactsInv
<1>5. CASE StartBackfill
  <2>1. PICK through \in FactHeights \cup {finalTail} :
          through # Unset /\ script' = [at |-> "delete", through |-> through]
    BY <1>5 DEF StartBackfill
  <2>2. UNCHANGED <<factTip, highest, owed, facts, finalTail>>
    BY <1>5 DEF StartBackfill
  <2>3. through \in Int
    BY <1>t, <2>1 DEF FactsInv, IsSettled
  <2> QED BY <1>t, <1>u, <2>1, <2>2, <2>3 DEF FactsInv
<1>6. CASE DeleteFacts
  <2> DEFINE through == script.through
  <2>1. /\ script.at = "delete" /\ script' = [script EXCEPT !.at = "insert"]
        /\ facts' = [h \in FactHeights |-> IF h <= through THEN "none" ELSE facts[h]]
        /\ owed' = IF through > owed THEN through ELSE owed
        /\ UNCHANGED <<factTip, highest, finalTail>>
    BY <1>6 DEF DeleteFacts
  <2>2. through \in Int
    BY <1>s, <2>1
  <2>3. DOMAIN script' = {"at", "through"} /\ script'.through = through
    BY <1>s, <2>1
  <2> HIDE DEF through
  <2>4. owed' \in Int /\ owed <= owed' /\ through <= owed'
    BY <1>t, <2>1, <2>2
  <2>5. \A h \in FactHeights : h <= through \/ h <= owed => h <= owed'
    BY <1>t, <2>2, <2>4
  <2>6. \A h \in FactHeights : h <= factTip /\ facts'[h] = "none" => h <= owed'
    BY <1>f, <2>1, <2>5
  <2>7. facts' = [h \in FactHeights |-> facts'[h]]
    BY <2>1
  <2> QED BY <1>t, <1>u, <2>1, <2>2, <2>3, <2>4, <2>6, <2>7 DEF FactsInv
<1>7. CASE InsertFacts
  <2> DEFINE through == script.through
  <2>1. /\ script.at = "insert" /\ script' = [script EXCEPT !.at = "tail"]
        /\ facts' = [h \in FactHeights |->
                       IF h <= through /\ h <= factTip THEN "exact" ELSE facts[h]]
        /\ owed' = IF through >= owed THEN -1 ELSE owed
        /\ UNCHANGED <<factTip, highest, finalTail>>
    BY <1>7 DEF InsertFacts
  <2>2. through \in Int
    BY <1>s, <2>1
  <2>3. DOMAIN script' = {"at", "through"} /\ script'.through = through
    BY <1>s, <2>1
  <2> HIDE DEF through
  <2>4. owed' \in Int
    BY <1>t, <2>1
  <2>5. \A h \in FactHeights : h <= factTip /\ facts'[h] = "none" =>
          facts[h] = "none" /\ ~(h <= through)
    BY <2>1
  <2>6. \A h \in FactHeights : h <= owed /\ ~(h <= through) => owed' = owed
    BY <1>t, <2>1, <2>2
  <2>7. \A h \in FactHeights : h <= factTip /\ facts'[h] = "none" => h <= owed'
    BY <1>f, <2>5, <2>6
  <2>8. facts' = [h \in FactHeights |-> facts'[h]]
    BY <2>1
  <2> QED BY <1>t, <1>u, <2>1, <2>2, <2>3, <2>4, <2>7, <2>8 DEF FactsInv
<1>8. CASE ScriptDies
  <2>1. script' = NoScript /\ UNCHANGED <<factTip, highest, owed, facts, finalTail>>
    BY <1>8 DEF ScriptDies
  <2> QED BY <1>t, <1>u, <2>1 DEF FactsInv, NoScript
<1> QED BY <1>1, <1>2, <1>3, <1>4, <1>5, <1>6, <1>7, <1>8

(***************************************************************************)
(* Both are kept.                                                          *)
(***************************************************************************)
LEMMA AnalyticsInvariance == AnalyticsSpec => [](QueriesInv /\ FactsInv)
<1> USE AnalyticsAssumption
<1>1. AnalyticsInit => QueriesInv /\ FactsInv
  <2> SUFFICES ASSUME AnalyticsInit
               PROVE  QueriesInv /\ FactsInv
    OBVIOUS
  <2>1. Running = {}
    BY DEF AnalyticsInit, Running
  <2>2. QueriesInv
    BY <2>1, NoQueryIs, FS_EmptySet DEF AnalyticsInit, QueriesInv
  <2>3. FactsInv
    BY DEF AnalyticsInit, FactsInv, NoScript, FactHeights
  <2> QED BY <2>2, <2>3
<1>2. QueriesInv /\ FactsInv /\ [AnalyticsNext]_analyticsVars => QueriesInv' /\ FactsInv'
  <2> SUFFICES ASSUME QueriesInv, FactsInv, [AnalyticsNext]_analyticsVars
               PROVE  QueriesInv' /\ FactsInv'
    OBVIOUS
  <2>1. CASE \/ ApplyFacts \/ GoOnline \/ RewindFacts \/ ReadReadiness \/ PublishProgress
             \/ StartBackfill \/ DeleteFacts \/ InsertFacts \/ WriteFactsTail
             \/ DeclareReady \/ ScriptDies
    BY <2>1, FactsStep, QueriesStay
  <2>2. ASSUME NEW q \in Queries,
               \/ Begin(q) \/ RequireFinalizedTail(q) \/ ReadReady(q) \/ ReadFactsTail(q)
               \/ Preflight(q) \/ Execute(q)
        PROVE  QueriesInv' /\ FactsInv'
    <3>1. UNCHANGED <<factTip, highest, owed, facts, finalTail, script>>
      BY <2>2 DEF Begin, RequireFinalizedTail, ReadReady, ReadFactsTail, Preflight, Execute,
                  QueryUnchanged
    <3>2. FactsInv'
      BY <3>1 DEF FactsInv
    <3> QED BY <2>2, <3>2, QueryStep
  <2>3. CASE UNCHANGED analyticsVars
    BY <2>3 DEF analyticsVars, QueriesInv, FactsInv, Running
  <2> QED BY <2>1, <2>2, <2>3 DEF AnalyticsNext
<1> QED BY <1>1, <1>2, PTL DEF AnalyticsSpec

(***************************************************************************)
(* The slots that are taken are those of the queries in flight, whichever  *)
(* way these end, and never more than the limit.                           *)
(***************************************************************************)
THEOREM ConcurrencyStaysExact == AnalyticsSpec => []ConcurrencyIsExact
<1>1. QueriesInv => ConcurrencyIsExact
  BY DEF QueriesInv, Running, ConcurrencyIsExact
<1> QED BY <1>1, AnalyticsInvariance, PTL

(***************************************************************************)
(* As long as the script owes no block its facts, a query that passed its  *)
(* checks reads facts of every block it covers, whatever is rewound and    *)
(* published meanwhile.                                                    *)
(***************************************************************************)
THEOREM OnlyTheScriptEverHidesFacts == AnalyticsSpec => []OnlyTheScriptHidesFacts
<1>1. QueriesInv /\ FactsInv => OnlyTheScriptHidesFacts
  <2> SUFFICES ASSUME QueriesInv, FactsInv, owed = -1, NEW q \in Queries, NEW h \in FactHeights,
                      query[q].at = "execute", h <= query[q].tail, facts[h] = "none"
               PROVE  FALSE
    BY DEF OnlyTheScriptHidesFacts, ReadBy
  <2>1. IsSettled(query[q].tail, highest)
    BY DEF QueriesInv, QueryHolds
  <2>2. h \in Nat
    BY DEF FactHeights
  <2>3. h <= factTip
    BY <2>1, <2>2, AnalyticsAssumption DEF IsSettled, FactsInv
  <2>4. h <= owed
    BY <2>3 DEF FactsInv
  <2> QED BY <2>2, <2>4
<1> QED BY <1>1, AnalyticsInvariance, PTL

-----------------------------------------------------------------------------
\* What the mempool watches see.

(***************************************************************************)
(* The event of a transaction for a session.                               *)
(***************************************************************************)
Event(s, t) == [session |-> s, tx |-> t]

(***************************************************************************)
(* A qualifying transaction has been told to a session: its event is on    *)
(* its way or has arrived, or the session does not wait or listen any      *)
(* more.                                                                   *)
(***************************************************************************)
Told(s, t) ==
  \/ Event(s, t) \in appears
  \/ s \in got \/ s \notin listening
  \/ session[s] \notin {"inserted", "open"}

(***************************************************************************)
(* It has been told, or its event is lost; or the raw transaction has not  *)
(* reached the detector, and a poll will find the transaction unless a     *)
(* refresh has cached it.                                                  *)
(***************************************************************************)
Sent(s, t) == Told(s, t) \/ Event(s, t) \in lost
Heard(s, t) ==
  Sent(s, t) \/ (t \in rawTxs \cup silent /\ (Event(s, t) \in swallowed \/ t \notin cache))

(***************************************************************************)
(* Of a session whose watch the detector could not list every event is     *)
(* lost.                                                                   *)
(***************************************************************************)
Unlisted(s) == \A t \in Txs : Matches(s, t) => Event(s, t) \in lost

(***************************************************************************)
(* The watch of a session that waits is registered until its time is over, *)
(* and the detector knows it, is about to list the watches, failed to list *)
(* them or has lost its subscription; a known watch that is not new heard  *)
(* of every qualifying transaction in the mempool; and what has come into  *)
(* the mempool since a refresh read it is not cached.                      *)
(***************************************************************************)
SessionsHold ==
  /\ session = [s \in Sessions |-> session[s]] /\ registry \cup known \subseteq Sessions
  /\ fresh \subseteq known /\ (work # "refresh" => fresh = {})
  /\ work \in {"idle", "refresh", "poll"}
  /\ \A s \in Sessions :
       /\ s \in registry \cup known => session[s] \in {"inserted", "open", "ended", "dead"}
       /\ session[s] \in {"inserted", "open"} /\ s \notin old => s \in registry
       /\ session[s] = "open" /\ s \notin old =>
            s \in known \/ changed \/ refreshes \/ deaf \/ Unlisted(s)
MempoolHolds ==
  /\ mempool \cup snapshot \cup cache \cup rawTxs \subseteq came
  /\ \A s \in known \ fresh, t \in mempool : Matches(s, t) => Heard(s, t)
  /\ work = "refresh" => mempool \ snapshot \subseteq (rawTxs \cup silent) \ cache
WatchInv == SessionsHold /\ MempoolHolds

(***************************************************************************)
(* A step of a session replaces where it stands.                           *)
(***************************************************************************)
LEMMA SessionMoved ==
  ASSUME SessionsHold, NEW s \in Sessions, NEW at, session' = [session EXCEPT ![s] = at]
  PROVE  /\ session' = [o \in Sessions |-> session'[o]]
         /\ \A o \in Sessions : session'[o] = IF o = s THEN at ELSE session[o]
BY DEF SessionsHold

(***************************************************************************)
(* What is published is on its way or lost, and nothing else changes.      *)
(***************************************************************************)
LEMMA PublishedIsSent ==
  ASSUME NEW events, Publish(events)
  PROVE  /\ appears \subseteq appears' /\ lost \subseteq lost'
         /\ events \subseteq appears' \cup lost'
BY DEF Publish

(***************************************************************************)
(* What is lost stays lost.                                                *)
(***************************************************************************)
LEMMA LostStays ==
  ASSUME [WatchNext]_watchVars
  PROVE  lost \subseteq lost'
<1>1. ASSUME NEW s \in Sessions,
             OpenSession(s) \/ CountWatches(s) \/ InsertWatch(s) \/ AnnounceWatch(s)
             \/ EndSession(s) \/ Elapse(s)
      PROVE  UNCHANGED lost
  BY <1>1 DEF OpenSession, CountWatches, InsertWatch, AnnounceWatch, EndSession, Elapse,
              detectorVars
<1>2. DeliverChanged \/ StartRefresh \/ StartPoll \/ StatusExpires \/ ApiDies => UNCHANGED lost
  BY DEF DeliverChanged, StartRefresh, StartPoll, StatusExpires, ApiDies, detectorVars
<1>3. RefreshFails \/ Overflow \/ SynchronizeFails \/ HydrationFails => lost \subseteq lost'
  BY DEF RefreshFails, Overflow, SynchronizeFails, HydrationFails, AbandonSynchronize
<1>4. FinishSynchronize => lost \subseteq lost'
  BY PublishedIsSent DEF FinishSynchronize
<1>5. ASSUME NEW t \in Txs, HandleRawTx(t)
      PROVE  lost \subseteq lost'
  BY <1>5, PublishedIsSent DEF HandleRawTx
<1>6. ASSUME NEW t \in Txs, RawTxFails(t) \/ TxArrives(t) \/ TxLeaves(t)
      PROVE  UNCHANGED lost
  BY <1>6 DEF RawTxFails, TxArrives, TxLeaves, detectorVars
<1>7. ASSUME NEW e \in appears, DeliverAppear(e)
      PROVE  UNCHANGED lost
  BY <1>7 DEF DeliverAppear, detectorVars
<1>8. ASSUME NEW p \in {"api", "indexer"}, BusFails(p)
      PROVE  lost \subseteq lost'
  BY <1>8 DEF BusFails
<1> QED
  BY <1>1, <1>2, <1>3, <1>4, <1>5, <1>6, <1>7, <1>8
     DEF WatchNext, SessionNext, DetectorNext, watchVars

(***************************************************************************)
(* A step keeps what holds of the sessions and the detector.               *)
(***************************************************************************)
LEMMA SessionsStep ==
  ASSUME SessionsHold, [WatchNext]_watchVars
  PROVE  SessionsHold'
<1>u. \A s \in Sessions : Unlisted(s) => Unlisted(s)'
  BY LostStays DEF Unlisted, Matches, Event
<1> USE DEF SessionsHold
<1>1. ASSUME NEW s \in Sessions, OpenSession(s)
      PROVE  SessionsHold'
  <2>1. /\ session[s] = "idle"
        /\ UNCHANGED <<registry, old, changed, deaf, known, fresh, work, refreshes>>
        /\ \/ session' = [session EXCEPT ![s] = "refused"]
           \/ session' = [session EXCEPT ![s] = "checked"]
    BY <1>1 DEF OpenSession, detectorVars
  <2> QED BY <1>u, <2>1, SessionMoved
<1>2. ASSUME NEW s \in Sessions, CountWatches(s)
      PROVE  SessionsHold'
  <2>1. /\ session[s] = "checked" /\ registry' = registry \ old
        /\ UNCHANGED <<old, changed, deaf, known, fresh, work, refreshes>>
        /\ \/ session' = [session EXCEPT ![s] = "refused"]
           \/ session' = [session EXCEPT ![s] = "counted"]
    BY <1>2 DEF CountWatches, detectorVars
  <2> QED BY <1>u, <2>1, SessionMoved
<1>3. ASSUME NEW s \in Sessions, InsertWatch(s)
      PROVE  SessionsHold'
  <2>1. /\ session[s] = "counted" /\ registry' = registry \cup {s}
        /\ session' = [session EXCEPT ![s] = "inserted"]
        /\ UNCHANGED <<old, changed, deaf, known, fresh, work, refreshes>>
    BY <1>3 DEF InsertWatch, detectorVars
  <2> QED BY <1>u, <2>1, SessionMoved
<1>4. ASSUME NEW s \in Sessions, AnnounceWatch(s)
      PROVE  SessionsHold'
  <2>1. /\ session[s] = "inserted" /\ session' = [session EXCEPT ![s] = "open"]
        /\ changed' = TRUE
        /\ UNCHANGED <<registry, old, deaf, known, fresh, work, refreshes>>
    BY <1>4 DEF AnnounceWatch, detectorVars
  <2> QED BY <1>u, <2>1, SessionMoved
<1>5. ASSUME NEW s \in Sessions, EndSession(s)
      PROVE  SessionsHold'
  <2>1. /\ session[s] = "open" /\ session' = [session EXCEPT ![s] = "ended"]
        /\ changed' = TRUE /\ old' = old \ {s} /\ registry' = registry \ {s}
        /\ UNCHANGED <<deaf, known, fresh, work, refreshes>>
    BY <1>5 DEF EndSession, detectorVars
  <2> QED BY <1>u, <2>1, SessionMoved
<1>6. ASSUME NEW s \in Sessions, Elapse(s)
      PROVE  SessionsHold'
  <2>1. /\ old \subseteq old'
        /\ UNCHANGED <<session, registry, changed, deaf, known, fresh, work, refreshes>>
    BY <1>6 DEF Elapse, detectorVars
  <2> QED BY <1>u, <2>1
<1>7. CASE DeliverChanged
  <2>1. /\ changed' = FALSE /\ refreshes' = (refreshes \/ ~deaf)
        /\ UNCHANGED <<session, registry, old, deaf, known, fresh, work>>
    BY <1>7 DEF DeliverChanged, apiVars
  <2> QED BY <1>u, <2>1
<1>8. CASE StartRefresh
  <2>1. /\ work = "idle" /\ registry' = registry \ old /\ known' = registry \ old
        /\ fresh' = (registry \ old) \ known
        /\ work' = IF registry \ old = {} THEN "idle" ELSE "refresh"
        /\ UNCHANGED <<session, old, changed, deaf>>
    BY <1>8 DEF StartRefresh, NewWatches
  <2>2. work' # "refresh" => fresh' = {}
    BY <2>1
  <2>3. /\ registry' \cup known' \subseteq Sessions /\ fresh' \subseteq known'
        /\ work' \in {"idle", "refresh", "poll"}
    BY <2>1
  <2>4. \A s \in Sessions :
          /\ s \in registry' \cup known' => session[s] \in {"inserted", "open", "ended", "dead"}
          /\ session[s] \in {"inserted", "open"} /\ s \notin old => s \in registry'
          /\ session[s] = "open" /\ s \notin old => s \in known'
    BY <2>1
  <2> QED BY <2>1, <2>2, <2>3, <2>4
<1>9. CASE RefreshFails
  <2>1. /\ lost' = lost \cup Matched(registry \ known, Txs)
        /\ UNCHANGED <<session, registry, old, changed, deaf, known, fresh, work>>
    BY <1>9 DEF RefreshFails, apiVars
  <2>2. \A s \in registry \ known : Unlisted(s)'
    BY <2>1 DEF Unlisted, Matched, Matches, Event
  <2> QED BY <1>u, <2>1, <2>2
<1>10. CASE StartPoll
  <2>1. /\ work = "idle" /\ work' = "poll"
        /\ UNCHANGED <<session, registry, old, changed, deaf, known, fresh, refreshes>>
    BY <1>10 DEF StartPoll, apiVars
  <2> QED BY <1>u, <2>1
<1>11. CASE FinishSynchronize \/ Overflow \/ SynchronizeFails \/ HydrationFails
  <2>1. /\ work' = "idle" /\ fresh' = {}
        /\ UNCHANGED <<session, registry, old, changed, deaf, known, refreshes>>
    BY <1>11 DEF FinishSynchronize, Overflow, SynchronizeFails, HydrationFails,
                 AbandonSynchronize, EndWork, apiVars
  <2> QED BY <1>u, <2>1
<1>12. ASSUME NEW p \in {"api", "indexer"}, BusFails(p)
       PROVE  SessionsHold'
  <2>1. /\ UNCHANGED <<session, registry, old, known, fresh, work, refreshes>>
        /\ deaf' \/ UNCHANGED <<deaf, changed>>
    BY <1>12 DEF BusFails
  <2> QED BY <1>u, <2>1
<1>13. CASE ApiDies
  <2>1. /\ session' = [s \in Sessions |->
                         IF session[s] \in {"checked", "counted", "inserted", "open"}
                         THEN "dead" ELSE session[s]]
        /\ UNCHANGED <<registry, old, changed, deaf, known, fresh, work, refreshes>>
    BY <1>13 DEF ApiDies, detectorVars
  <2>2. \A s \in Sessions :
          /\ session'[s] \notin {"inserted", "open"}
          /\ session[s] \in {"inserted", "open", "ended", "dead"} => session'[s] \in {"ended", "dead"}
    BY <2>1
  <2> QED BY <2>1, <2>2
<1>14. CASE UNCHANGED <<session, registry, old, changed, deaf, known, fresh, work, refreshes>>
  BY <1>u, <1>14
<1>15. StatusExpires \/ UNCHANGED watchVars =>
         UNCHANGED <<session, registry, old, changed, deaf, known, fresh, work, refreshes>>
  BY DEF StatusExpires, apiVars, watchVars
<1>16. ASSUME NEW t \in Txs, HandleRawTx(t) \/ RawTxFails(t) \/ TxArrives(t) \/ TxLeaves(t)
       PROVE  UNCHANGED <<session, registry, old, changed, deaf, known, fresh, work, refreshes>>
  BY <1>16 DEF HandleRawTx, RawTxFails, TxArrives, TxLeaves, apiVars, detectorVars
<1>17. ASSUME NEW e \in appears, DeliverAppear(e)
       PROVE  UNCHANGED <<session, registry, old, changed, deaf, known, fresh, work, refreshes>>
  BY <1>17 DEF DeliverAppear, detectorVars
<1> QED
  BY <1>1, <1>2, <1>3, <1>4, <1>5, <1>6, <1>7, <1>8, <1>9, <1>10, <1>11, <1>12, <1>13, <1>14,
     <1>15, <1>16, <1>17 DEF WatchNext, SessionNext, DetectorNext

(***************************************************************************)
(* What a session has been told, or has been lost, stays so.               *)
(***************************************************************************)
LEMMA SentStays ==
  ASSUME SessionsHold, [WatchNext]_watchVars, NEW s \in known, NEW t, Sent(s, t)
  PROVE  Sent(s, t)'
<1>l. lost \subseteq lost'
  BY LostStays
<1> SUFFICES ASSUME Told(s, t) PROVE Told(s, t)'
  BY <1>l DEF Sent, Event
<1> USE DEF SessionsHold, Told, Event
<1>s. s \in Sessions /\ session[s] \in {"inserted", "open", "ended", "dead"}
  OBVIOUS
<1>1. ASSUME NEW o \in Sessions, OpenSession(o) \/ CountWatches(o) \/ InsertWatch(o) \/ AnnounceWatch(o)
      PROVE  Told(s, t)'
  <2>1. /\ UNCHANGED <<got, appears>>
        /\ listening' \subseteq listening \/ (session[o] = "idle" /\ listening' = listening \cup {o})
    BY <1>1 DEF OpenSession, CountWatches, InsertWatch, AnnounceWatch
  <2>2. \E at : session' = [session EXCEPT ![o] = at]
                /\ (session[o] \in {"idle", "checked", "counted"} \/ (session[o] = "inserted" /\ at = "open"))
    BY <1>1 DEF OpenSession, CountWatches, InsertWatch, AnnounceWatch
  <2>3. session'[s] = session[s] \/ (session[s] = "inserted" /\ session'[s] = "open")
    BY <1>s, <2>2, SessionMoved
  <2>4. s \notin listening => s \notin listening'
    BY <1>s, <2>1
  <2> QED BY <2>1, <2>3, <2>4
<1>2. ASSUME NEW o \in Sessions, EndSession(o)
      PROVE  Told(s, t)'
  <2>1. /\ session' = [session EXCEPT ![o] = "ended"] /\ got' = got \ {o}
        /\ listening' = listening \ {o} /\ UNCHANGED appears
    BY <1>2 DEF EndSession
  <2>2. session'[s] = IF s = o THEN "ended" ELSE session[s]
    BY <1>s, <2>1, SessionMoved
  <2> QED BY <2>1, <2>2
<1>3. ASSUME NEW e \in appears, DeliverAppear(e)
      PROVE  Told(s, t)'
  <2>1. /\ session[e.session] # "inserted" /\ appears' = appears \ {e}
        /\ UNCHANGED <<session, listening>>
        /\ got' = IF session[e.session] = "open" /\ e.session \in listening
                  THEN got \cup {e.session} ELSE got
    BY <1>3 DEF DeliverAppear
  <2>2. CASE e = [session |-> s, tx |-> t]
    <3>1. e.session = s
      BY <2>2
    <3>2. session[s] = "open" /\ s \in listening => s \in got'
      BY <1>s, <2>1, <3>1
    <3> QED BY <2>1, <3>1, <3>2
  <2>3. CASE e # [session |-> s, tx |-> t]
    BY <2>1, <2>3
  <2> QED BY <2>2, <2>3
<1>4. CASE appears \subseteq appears' /\ UNCHANGED <<session, got, listening>>
  BY <1>4
<1>5. ASSUME NEW o \in Sessions, Elapse(o)
      PROVE  appears \subseteq appears' /\ UNCHANGED <<session, got, listening>>
  BY <1>5 DEF Elapse
<1>6. DeliverChanged \/ StartRefresh \/ RefreshFails \/ StartPoll \/ Overflow \/ SynchronizeFails
        \/ HydrationFails \/ StatusExpires \/ UNCHANGED watchVars
        => appears \subseteq appears' /\ UNCHANGED <<session, got, listening>>
  BY DEF DeliverChanged, StartRefresh, RefreshFails, StartPoll, Overflow, SynchronizeFails,
         HydrationFails, AbandonSynchronize, StatusExpires, apiVars, watchVars
<1>7. FinishSynchronize => appears \subseteq appears' /\ UNCHANGED <<session, got, listening>>
  BY PublishedIsSent DEF FinishSynchronize, apiVars
<1>8. ASSUME NEW x \in Txs, HandleRawTx(x) \/ RawTxFails(x) \/ TxArrives(x) \/ TxLeaves(x)
      PROVE  appears \subseteq appears' /\ UNCHANGED <<session, got, listening>>
  BY <1>8, PublishedIsSent DEF HandleRawTx, RawTxFails, TxArrives, TxLeaves, apiVars
<1>9. ASSUME NEW p \in {"api", "indexer"}, BusFails(p)
      PROVE  Told(s, t)'
  <2>1. listening' = {} \/ UNCHANGED <<session, got, listening, appears>>
    BY <1>9 DEF BusFails
  <2> QED BY <2>1
<1>10. CASE ApiDies
  <2>1. listening' = {}
    BY <1>10 DEF ApiDies
  <2> QED BY <2>1
<1> QED
  BY <1>1, <1>2, <1>3, <1>4, <1>5, <1>6, <1>7, <1>8, <1>9, <1>10
     DEF WatchNext, SessionNext, DetectorNext

(***************************************************************************)
(* The event of a transaction and a watch that match is among the matched  *)
(* ones.                                                                   *)
(***************************************************************************)
LEMMA MatchedHasEvent ==
  ASSUME NEW watches, NEW txs, NEW s \in watches, NEW t \in txs, Matches(s, t)
  PROVE  Event(s, t) \in Matched(watches, txs)
BY DEF Matched, Event

(***************************************************************************)
(* A synchronisation that succeeds keeps what holds of the mempool: what   *)
(* it fetched has been sent, or was kept from a known watch by a refresh,  *)
(* a new watch was sent all that is cached now, and what it did not see is *)
(* not cached.                                                             *)
(***************************************************************************)
LEMMA SynchronizeStep ==
  ASSUME SessionsHold, MempoolHolds, FinishSynchronize
  PROVE  MempoolHolds'
<1> DEFINE hydrated == snapshot \ cache
           next == (snapshot \cap cache) \cup hydrated
<1>1. /\ Publish(Published(hydrated, next)) /\ cache' = next
      /\ swallowed' = IF work = "poll" THEN swallowed
                      ELSE swallowed \cup Matched(known \ fresh, hydrated)
      /\ work' = "idle" /\ fresh' = {} /\ snapshot' = {}
      /\ UNCHANGED <<mempool, came, rawTxs, silent, known>> /\ work \in {"refresh", "poll"}
  BY DEF FinishSynchronize, EndWork, nodeVars
<1>2. /\ Published(hydrated, next) \subseteq appears' \cup lost'
      /\ swallowed \subseteq swallowed' /\ cache' = snapshot
  BY <1>1, PublishedIsSent
<1>3. /\ work = "poll" => fresh = {} /\ Published(hydrated, next) = Matched(known, hydrated)
      /\ work = "refresh" => Published(hydrated, next) = Matched(fresh, next)
  BY DEF SessionsHold, Published
<1>4. \A s \in known, t \in mempool : Sent(s, t) => Sent(s, t)'
  BY SentStays DEF WatchNext, DetectorNext
<1>5. \A s, t : Event(s, t) \in appears' \cup lost' => Sent(s, t)'
  BY DEF Sent, Told, Event
<1>6. ASSUME NEW s \in known, NEW t \in mempool, Matches(s, t)
      PROVE  Heard(s, t)'
  <2>1. CASE s \in fresh /\ t \in snapshot
    <3>1. work = "refresh"
      BY <2>1 DEF SessionsHold
    <3>2. Event(s, t) \in Matched(fresh, next)
      BY <1>6, <2>1, MatchedHasEvent
    <3>3. Event(s, t) \in appears' \cup lost'
      BY <1>2, <1>3, <3>1, <3>2
    <3> QED BY <1>5, <3>3 DEF Heard
  <2>2. CASE s \in fresh /\ t \notin snapshot
    <3>1. work = "refresh"
      BY <2>2 DEF SessionsHold
    <3>2. t \in rawTxs \cup silent
      BY <2>2, <3>1 DEF MempoolHolds
    <3> QED BY <1>1, <1>2, <2>2, <3>2 DEF Heard
  <2>3. CASE s \notin fresh /\ Sent(s, t)
    BY <1>4, <1>6, <2>3 DEF Heard
  <2>4. CASE s \notin fresh /\ ~Sent(s, t) /\ t \in hydrated
    <3>1. t \in rawTxs \cup silent
      BY <1>6, <2>4 DEF MempoolHolds, Heard
    <3>2. CASE work = "poll"
      <4>1. Event(s, t) \in appears' \cup lost'
        BY <1>2, <1>3, <1>6, <2>4, <3>2, MatchedHasEvent
      <4> QED BY <1>5, <4>1 DEF Heard
    <3>3. CASE work = "refresh"
      <4>1. Event(s, t) \in Matched(known \ fresh, hydrated)
        BY <1>6, <2>4, MatchedHasEvent
      <4>2. Event(s, t) \in swallowed'
        BY <1>1, <3>3, <4>1
      <4> QED BY <1>1, <3>1, <4>2 DEF Heard, Event
    <3> QED BY <1>1, <3>2, <3>3
  <2>5. CASE s \notin fresh /\ ~Sent(s, t) /\ t \notin hydrated
    <3>1. t \in rawTxs \cup silent /\ (Event(s, t) \in swallowed \/ t \notin cache)
      BY <1>6, <2>5 DEF MempoolHolds, Heard
    <3>2. Event(s, t) \in swallowed' \/ t \notin cache'
      BY <1>2, <2>5, <3>1
    <3> QED BY <1>1, <3>1, <3>2 DEF Heard, Event
  <2> QED BY <2>1, <2>2, <2>3, <2>4, <2>5
<1>7. mempool' \cup snapshot' \cup cache' \cup rawTxs' \subseteq came'
  BY <1>1, <1>2 DEF MempoolHolds
<1>8. work' # "refresh"
  BY <1>1
<1> HIDE DEF hydrated, next
<1> QED BY <1>1, <1>6, <1>7, <1>8 DEF MempoolHolds, Matches

(***************************************************************************)
(* One that is given up keeps it: its new watches have lost what it had    *)
(* read, and the rest is not cached.                                       *)
(***************************************************************************)
LEMMA AbandonStep ==
  ASSUME SessionsHold, MempoolHolds, Overflow \/ SynchronizeFails \/ HydrationFails
  PROVE  MempoolHolds'
<1>1. /\ lost' = lost \cup Matched(fresh, snapshot) /\ cache' \subseteq cache
      /\ work' = "idle" /\ fresh' = {} /\ snapshot' = {}
      /\ UNCHANGED <<mempool, came, rawTxs, silent, known, swallowed>>
  BY DEF Overflow, SynchronizeFails, HydrationFails, AbandonSynchronize, EndWork, nodeVars
<1>2. \A s \in known, t \in mempool : Sent(s, t) => Sent(s, t)'
  BY SentStays DEF WatchNext, DetectorNext
<1>3. ASSUME NEW s \in known, NEW t \in mempool, Matches(s, t)
      PROVE  Heard(s, t)'
  <2>1. CASE s \in fresh /\ t \in snapshot
    <3>1. Event(s, t) \in lost'
      BY <1>1, <1>3, <2>1, MatchedHasEvent
    <3> QED BY <3>1 DEF Heard, Sent, Event
  <2>2. CASE s \in fresh /\ t \notin snapshot
    <3>1. t \in (rawTxs \cup silent) \ cache
      BY <2>2 DEF MempoolHolds, SessionsHold
    <3> QED BY <1>1, <3>1 DEF Heard
  <2>3. CASE s \notin fresh
    <3>1. Heard(s, t)
      BY <1>3, <2>3 DEF MempoolHolds
    <3> QED BY <1>1, <1>2, <1>3, <3>1 DEF Heard, Event
  <2> QED BY <2>1, <2>2, <2>3
<1>4. mempool' \cup snapshot' \cup cache' \cup rawTxs' \subseteq came'
  BY <1>1 DEF MempoolHolds
<1> QED BY <1>1, <1>3, <1>4 DEF MempoolHolds, Matches

(***************************************************************************)
(* Every step keeps what holds of the mempool.                             *)
(***************************************************************************)
LEMMA MempoolStep ==
  ASSUME SessionsHold, MempoolHolds, [WatchNext]_watchVars
  PROVE  MempoolHolds'
<1>t. \A s \in known, t \in mempool : Sent(s, t) => Sent(s, t)'
  BY SentStays
<1>i. work # "refresh" => fresh = {}
  BY DEF SessionsHold
<1>1. CASE StartRefresh
  <2>1. /\ work = "idle" /\ known' = registry \ old /\ fresh' = (registry \ old) \ known
        /\ work' = IF registry \ old = {} THEN "idle" ELSE "refresh"
        /\ snapshot' = IF registry \ old = {} THEN {} ELSE mempool
        /\ UNCHANGED <<mempool, came, rawTxs, silent, cache, swallowed>>
    BY <1>1 DEF StartRefresh, NewWatches, nodeVars
  <2>2. \A s \in known' \ fresh' : s \in known \ fresh
    BY <1>i, <2>1
  <2>3. \A s \in known' \ fresh', t \in mempool : Matches(s, t) => Heard(s, t)'
    BY <1>t, <2>1, <2>2 DEF MempoolHolds, Heard, Event
  <2>4. work' = "refresh" => mempool' \ snapshot' \subseteq (rawTxs' \cup silent') \ cache'
    BY <2>1
  <2>5. mempool' \cup snapshot' \cup cache' \cup rawTxs' \subseteq came'
    BY <2>1 DEF MempoolHolds
  <2> QED BY <2>1, <2>3, <2>4, <2>5 DEF MempoolHolds, Matches
<1>2. ASSUME NEW x \in Txs, HandleRawTx(x)
      PROVE  MempoolHolds'
  <2>1. /\ x \in rawTxs /\ work = "idle" /\ rawTxs' = rawTxs \ {x}
        /\ Publish(Matched(known, {x})) /\ (cache' = cache \/ cache' = cache \cup {x})
        /\ UNCHANGED <<mempool, came, silent, work, known, fresh, snapshot, swallowed>>
    BY <1>2 DEF HandleRawTx
  <2>2. ASSUME NEW s \in known, NEW t \in mempool, Matches(s, t)
        PROVE  Heard(s, t)'
    <3>1. CASE t = x
      <4>1. Event(s, t) \in Matched(known, {x})
        BY <2>2, <3>1, MatchedHasEvent
      <4>2. Event(s, t) \in appears' \cup lost'
        BY <2>1, <4>1, PublishedIsSent
      <4> QED BY <4>2 DEF Heard, Sent, Told, Event
    <3>2. CASE t # x
      <4>1. Heard(s, t)
        BY <1>i, <2>1, <2>2 DEF MempoolHolds
      <4> QED BY <1>t, <2>1, <2>2, <3>2, <4>1 DEF Heard, Event
    <3> QED BY <3>1, <3>2
  <2>3. mempool' \cup snapshot' \cup cache' \cup rawTxs' \subseteq came'
    BY <2>1 DEF MempoolHolds
  <2> QED BY <2>1, <2>2, <2>3 DEF MempoolHolds, Matches
<1>3. ASSUME UNCHANGED <<known, fresh, swallowed, cache>>,
             \A t \in mempool' : t \in mempool \/ t \in rawTxs' \ cache,
             rawTxs \cup silent \subseteq rawTxs' \cup silent',
             came \cup mempool' \cup snapshot' \cup rawTxs' \subseteq came',
             work' = "refresh" => work = "refresh" /\ UNCHANGED snapshot
      PROVE  MempoolHolds'
  <2>1. \A s \in known \ fresh, t \in mempool' : Matches(s, t) => Heard(s, t)'
    BY <1>3, <1>t DEF MempoolHolds, Heard, Event
  <2>2. work' = "refresh" => mempool' \ snapshot' \subseteq (rawTxs' \cup silent') \ cache'
    BY <1>3 DEF MempoolHolds
  <2>3. mempool' \cup snapshot' \cup cache' \cup rawTxs' \subseteq came'
    BY <1>3 DEF MempoolHolds
  <2> QED BY <1>3, <2>1, <2>2, <2>3 DEF MempoolHolds, Matches
<1>4. ASSUME NEW x \in Txs, TxArrives(x) \/ TxLeaves(x) \/ RawTxFails(x)
      PROVE  MempoolHolds'
  <2>1. /\ UNCHANGED <<known, fresh, swallowed, cache, work, snapshot>>
        /\ \A t \in mempool' : t \in mempool \/ (t \in rawTxs' /\ t \notin came)
        /\ rawTxs \cup silent \subseteq rawTxs' \cup silent'
        /\ came' = came \/ came' = came \cup {x}
        /\ mempool' \cup rawTxs' \subseteq mempool \cup rawTxs \cup (came' \ came)
    BY <1>4 DEF TxArrives, TxLeaves, RawTxFails, detectorVars
  <2>2. /\ \A t \in mempool' : t \in mempool \/ t \in rawTxs' \ cache
        /\ came \cup mempool' \cup snapshot' \cup rawTxs' \subseteq came'
    BY <2>1 DEF MempoolHolds
  <2> QED BY <1>3, <2>1, <2>2
<1>5. CASE StartPoll
  <2>1. /\ work' = "poll" /\ snapshot' = mempool
        /\ UNCHANGED <<mempool, came, rawTxs, silent, known, fresh, swallowed, cache>>
    BY <1>5 DEF StartPoll, nodeVars
  <2> QED BY <1>3, <2>1 DEF MempoolHolds
<1>6. CASE UNCHANGED <<nodeVars, known, fresh, swallowed, cache, work, snapshot>>
  BY <1>3, <1>6 DEF MempoolHolds, nodeVars
<1>7. DeliverChanged \/ RefreshFails \/ StatusExpires \/ ApiDies \/ UNCHANGED watchVars
        => UNCHANGED <<nodeVars, known, fresh, swallowed, cache, work, snapshot>>
  BY DEF DeliverChanged, RefreshFails, StatusExpires, ApiDies, detectorVars, watchVars, nodeVars
<1>8. ASSUME NEW e \in appears, DeliverAppear(e)
      PROVE  UNCHANGED <<nodeVars, known, fresh, swallowed, cache, work, snapshot>>
  BY <1>8 DEF DeliverAppear, detectorVars
<1>9. ASSUME NEW p \in {"api", "indexer"}, BusFails(p)
      PROVE  UNCHANGED <<nodeVars, known, fresh, swallowed, cache, work, snapshot>>
  BY <1>9 DEF BusFails
<1>10. ASSUME NEW s \in Sessions,
              OpenSession(s) \/ CountWatches(s) \/ InsertWatch(s) \/ AnnounceWatch(s)
              \/ EndSession(s) \/ Elapse(s)
       PROVE  UNCHANGED <<nodeVars, known, fresh, swallowed, cache, work, snapshot>>
  BY <1>10 DEF OpenSession, CountWatches, InsertWatch, AnnounceWatch, EndSession, Elapse,
               detectorVars
<1> QED
  BY <1>1, <1>2, <1>4, <1>5, <1>6, <1>7, <1>8, <1>9, <1>10, SynchronizeStep, AbandonStep
     DEF WatchNext, SessionNext, DetectorNext

(***************************************************************************)
(* Both are kept.                                                          *)
(***************************************************************************)
LEMMA WatchInvariance == WatchSpec => []WatchInv
<1>1. WatchInit => WatchInv
  <2> SUFFICES ASSUME WatchInit PROVE SessionsHold /\ MempoolHolds
    BY DEF WatchInv
  <2> QED BY DEF WatchInit, SessionsHold, MempoolHolds
<1>2. WatchInv /\ [WatchNext]_watchVars => WatchInv'
  BY SessionsStep, MempoolStep DEF WatchInv
<1> QED BY <1>1, <1>2, PTL DEF WatchSpec

(***************************************************************************)
(* No session waits in vain but for the two reasons the property names:    *)
(* whatever calls fail, processes die, connections break, transactions     *)
(* leave while they are fetched or raw transactions are lost, and however  *)
(* the INSERT of a watch, the refreshes, the polls and the raw             *)
(* transactions fall together.                                             *)
(***************************************************************************)
THEOREM NothingIsEverMissed == WatchSpec => []NothingIsMissed
<1>1. WatchInv => NothingIsMissed
  <2> SUFFICES ASSUME SessionsHold, MempoolHolds, NEW s \in Sessions, NEW t \in Txs,
                      Misses(s, t), s \in known \/ ~deaf, Event(s, t) \notin lost
               PROVE  t \in silent /\ Event(s, t) \in swallowed
    BY DEF WatchInv, NothingIsMissed, Event
  <2>1. /\ session[s] = "open" /\ s \in listening /\ s \notin got \cup old
        /\ t \in mempool /\ Matches(s, t) /\ Quiet
    BY DEF Misses
  <2>2. ~Unlisted(s)
    BY <2>1 DEF Unlisted
  <2>3. s \in known \ fresh /\ t \in cache /\ t \notin rawTxs /\ appears = {}
    BY <2>1, <2>2 DEF SessionsHold, Quiet
  <2>4. Heard(s, t)
    BY <2>1, <2>3 DEF MempoolHolds
  <2> QED BY <2>1, <2>3, <2>4 DEF Heard, Sent, Told
<1> QED BY <1>1, WatchInvariance, PTL

-----------------------------------------------------------------------------
\* The transaction lookups.

(***************************************************************************)
(* What a lookup has in hand is a reference on one of the branches.        *)
(***************************************************************************)
Branches == {"old", "new"}
Row == Refs("old") \cup Refs("new")
ReadTypes(r) ==
  /\ r \in [at : {"idle", "indexed", "core", "current", "scan", "canonical", "load", "answered"},
            ref : {NoRef} \cup Row, cursor : 0 .. Newest, low : 0 .. Newest, calm : BOOLEAN]
  /\ r.at \in {"canonical", "load"} => r.ref \in Row
LookupTypes ==
  /\ \A fork \in Branches : place[fork] # NoRef => place[fork] \in Refs(fork)
  /\ raw \in [Replaced -> Branches]
  /\ refs \cup creates \cup outputs \subseteq Row
  /\ processTail \in 1 .. Newest
  /\ reader = [c \in Readers |-> reader[c]] /\ \A c \in Readers : ReadTypes(reader[c])

(***************************************************************************)
(* Where a branch is stored everywhere the references are those of it, or  *)
(* there are none; and what is processed has its outputs.                  *)
(***************************************************************************)
StoresHold(fork) ==
  /\ \A h \in Replaced : coreBlocks[h] = fork
  /\ refs \in {{}, Rows(fork, Replaced)}
  /\ creates = Rows(fork, 1 .. processTail) /\ outputs = creates
  /\ refsReady => Rows(fork, processTail + 1 .. Newest) \subseteq refs

(***************************************************************************)
(* The blocks are replaced store by store; of what the replaced blocks     *)
(* left nothing stays once the rewind is over.                             *)
(***************************************************************************)
StoreInv ==
  /\ indexerAt \in {"raw", "blocks", "refs", "deleteCreates", "deleteRefs", "rematerialize",
                    "creates", "outputs", "publish", "done"}
  /\ indexerAt = "raw" => StoresHold("old")
  /\ indexerAt # "raw" => \A h \in Replaced : raw[h] = "new"
  /\ indexerAt \notin {"raw", "blocks"} => \A h \in Replaced : coreBlocks[h] = "new"
  /\ indexerAt \in {"rematerialize", "creates", "outputs", "publish", "done"} => refs = {}
  /\ indexerAt \in {"outputs", "publish", "done"} => creates = Rows("new", Replaced)
  /\ indexerAt \in {"publish", "done"} => outputs = creates
  /\ indexerAt = "done" => processTail = Newest

(***************************************************************************)
(* A calm lookup has found nothing in the stores it has been through, and  *)
(* has in hand where the chain has the transaction, unless it is beyond    *)
(* the scan.                                                               *)
(***************************************************************************)
Settled(fork) ==
  /\ indexerAt = IF fork = "old" THEN "raw" ELSE "done"
  /\ \A h \in Replaced : raw[h] = fork
ReadHolds(r, fork) ==
  /\ r.at \in {"core", "current", "scan"} => refs = {}
  /\ r.at \in {"current", "scan"} => creates = {}
  /\ r.at = "scan" =>
       /\ ~refsReady /\ r.low = ScanLow
       /\ \A h \in Replaced : h > r.cursor => ~Holds(fork, h)
  /\ r.at \in {"canonical", "load"} => r.ref = place[fork] /\ r.ref # NoRef
  /\ r.at = "answered" =>
       r.ref = place[fork] \/ (r.ref = NoRef /\ BeyondScan(place[fork]))
ReaderInv ==
  \A c \in Readers, fork \in Branches :
    reader[c].calm /\ Settled(fork) => ReadHolds(reader[c], fork)
LookupInv == LookupTypes /\ StoreInv /\ ReaderInv

(***************************************************************************)
(* Before and after the replacement the stores hold one branch.            *)
(***************************************************************************)
LEMMA SettledStores ==
  ASSUME LookupTypes, StoreInv, NEW fork \in Branches, Settled(fork)
  PROVE  StoresHold(fork)
<1>1. CASE fork = "old"
  BY <1>1 DEF Settled, StoreInv
<1>2. CASE fork = "new"
  <2>1. /\ refs = {} /\ creates = Rows("new", Replaced) /\ outputs = creates
        /\ processTail = Newest /\ \A h \in Replaced : coreBlocks[h] = "new"
    BY <1>2 DEF Settled, StoreInv
  <2>2. Rows("new", Newest + 1 .. Newest) = {}
    BY LookupAssumption DEF Rows, LookupTypes, Refs, Replaced, Branches
  <2> QED BY <1>2, <2>1, <2>2 DEF StoresHold, Replaced
<1> QED BY <1>1, <1>2 DEF Branches

(***************************************************************************)
(* The rows of a branch are the reference of its place.                    *)
(***************************************************************************)
LEMMA RowsAre ==
  ASSUME LookupTypes, NEW fork \in Branches, NEW S
  PROVE  /\ \A r \in Rows(fork, S) : r = place[fork] /\ r # NoRef
         /\ place[fork] # NoRef /\ place[fork].height \in S => place[fork] \in Rows(fork, S)
BY DEF Rows

(***************************************************************************)
(* A row of the highest version is a row.                                  *)
(***************************************************************************)
LEMMA NewestIsRow == \A rows : NewestRefs(rows) \subseteq rows
BY DEF NewestRefs

(***************************************************************************)
(* A step of a lookup keeps the invariant when what it has then is right.  *)
(***************************************************************************)
LEMMA LookupReads ==
  ASSUME LookupInv, NEW c \in Readers, NEW r, ToRead(c, r), ReadTypes(r),
         \A fork \in Branches : r.calm /\ Settled(fork) => ReadHolds(r, fork)
  PROVE  LookupInv'
<1>1. /\ reader' = [reader EXCEPT ![c] = r]
      /\ UNCHANGED <<place, raw, coreBlocks, refs, creates, outputs, processTail, refsReady,
                     indexerAt>>
  BY DEF ToRead
<1>2. \A o \in Readers : reader'[o] = IF o = c THEN r ELSE reader[o]
  BY <1>1 DEF LookupInv, LookupTypes
<1>3. LookupTypes'
  BY <1>1, <1>2 DEF LookupInv, LookupTypes, ReadTypes
<1>4. StoreInv'
  BY <1>1 DEF LookupInv, StoreInv, StoresHold, Rows
<1>5. \A fork \in Branches : Settled(fork)' = Settled(fork)
  BY <1>1 DEF Settled
<1>6. \A s : \A fork \in Branches : ReadHolds(s, fork) =>
        /\ s.at \in {"core", "current", "scan"} => refs' = {}
        /\ s.at \in {"current", "scan"} => creates' = {}
        /\ s.at = "scan" =>
             /\ ~refsReady' /\ s.low = ScanLow'
             /\ \A h \in Replaced : h > s.cursor => ~Holds(fork, h)'
        /\ s.at \in {"canonical", "load"} => s.ref = place'[fork] /\ s.ref # NoRef
        /\ s.at = "answered" =>
             s.ref = place'[fork] \/ (s.ref = NoRef /\ BeyondScan(place[fork])')
  BY <1>1 DEF ReadHolds, Holds, ScanLow, BeyondScan
<1>7. ASSUME NEW o \in Readers, NEW fork \in Branches, reader'[o].calm, Settled(fork)'
      PROVE  ReadHolds(reader[o], fork)'
  <2>1. ReadHolds(reader'[o], fork)
    BY <1>2, <1>5, <1>7 DEF LookupInv, ReaderInv
  <2> QED BY <1>6, <2>1 DEF ReadHolds
<1> QED BY <1>3, <1>4, <1>7 DEF LookupInv, ReaderInv

(***************************************************************************)
(* So every step of a lookup keeps it.                                     *)
(***************************************************************************)
LEMMA ReaderStep ==
  ASSUME LookupInv, NEW c \in Readers,
         \/ StartLookup(c) \/ ReadIndexedRef(c) \/ ReadCoreRef(c) \/ ReadCurrentRef(c)
         \/ ScanRawBlock(c) \/ CheckCanonical(c) \/ LoadBlock(c)
  PROVE  LookupInv'
<1> DEFINE was == reader[c]
<1>t. LookupTypes /\ StoreInv /\ ReadTypes(was)
  BY DEF LookupInv, LookupTypes
<1>h. \A fork \in Branches : was.calm /\ Settled(fork) => ReadHolds(was, fork) /\ StoresHold(fork)
  BY <1>t, SettledStores DEF LookupInv, ReaderInv
<1>n. Newest \in Nat \ {0} /\ 0 \in 0 .. Newest /\ Newest \in 0 .. Newest
  BY LookupAssumption
<1> HIDE DEF was
<1>f. ASSUME NEW rows, NEW r \in NewestRefs(rows), rows \subseteq Row, Found(c, r),
             \A fork \in Branches : was.calm /\ Settled(fork) => \E S : rows = Rows(fork, S)
      PROVE  LookupInv'
  <2> DEFINE new == [was EXCEPT !.at = "canonical", !.ref = r]
  <2>1. ToRead(c, new)
    BY <1>f DEF Found, was
  <2>2. ReadTypes(new) /\ new.calm = was.calm /\ new.at = "canonical" /\ new.ref = r
    BY <1>t, <1>f, NewestIsRow DEF ReadTypes
  <2> HIDE DEF new
  <2>3. ASSUME NEW fork \in Branches, was.calm, Settled(fork)
        PROVE  ReadHolds(new, fork)
    <3>1. r = place[fork] /\ r # NoRef
      BY <1>t, <1>f, <2>3, NewestIsRow, RowsAre
    <3> QED BY <2>2, <3>1 DEF ReadHolds
  <2> QED BY <2>1, <2>2, <2>3, LookupReads
<1>a. ASSUME NEW ref \in {NoRef} \cup Row, AnswerLookup(c, ref),
             \A fork \in Branches : was.calm /\ Settled(fork) =>
               ref = place[fork] \/ (ref = NoRef /\ BeyondScan(place[fork]))
      PROVE  LookupInv'
  <2> DEFINE new == [was EXCEPT !.at = "answered", !.ref = ref]
  <2>1. ToRead(c, new)
    BY <1>a DEF AnswerLookup, was
  <2>2. ReadTypes(new) /\ new.calm = was.calm /\ new.at = "answered" /\ new.ref = ref
    BY <1>t DEF ReadTypes
  <2> HIDE DEF new
  <2> QED BY <1>a, <2>1, <2>2, LookupReads DEF ReadHolds
<1>g. ASSUME NEW at \in {"core", "current"}, ToRead(c, [was EXCEPT !.at = at]),
             \A fork \in Branches : was.calm /\ Settled(fork) =>
               refs = {} /\ (at = "current" => creates = {})
      PROVE  LookupInv'
  <2> DEFINE new == [was EXCEPT !.at = at]
  <2>2. ReadTypes(new) /\ new.calm = was.calm /\ new.at = at
    BY <1>t DEF ReadTypes
  <2>3. ToRead(c, new)
    BY <1>g
  <2> HIDE DEF new
  <2> QED BY <1>g, <2>2, <2>3, LookupReads DEF ReadHolds
<1>1. CASE StartLookup(c)
  <2> DEFINE new == [NoRead EXCEPT !.at = "indexed"]
  <2>1. ToRead(c, new)
    BY <1>1 DEF StartLookup
  <2>2. ReadTypes(new) /\ new.at = "indexed"
    BY <1>n DEF ReadTypes, NoRead
  <2> HIDE DEF new
  <2> QED BY <2>1, <2>2, LookupReads DEF ReadHolds
<1>2. CASE ReadIndexedRef(c)
  <2>1. CASE refs # {}
    <3>1. PICK r \in NewestRefs(refs) : Found(c, r)
      BY <1>2, <2>1 DEF ReadIndexedRef
    <3>2. \A fork \in Branches : was.calm /\ Settled(fork) => refs = Rows(fork, Replaced)
      BY <1>h, <2>1 DEF StoresHold
    <3> QED BY <1>f, <1>t, <3>1, <3>2 DEF LookupTypes
  <2>2. CASE refs = {}
    <3>1. ToRead(c, [was EXCEPT !.at = "core"])
      BY <1>2, <2>2 DEF ReadIndexedRef, was
    <3> QED BY <1>g, <2>2, <3>1
  <2> QED BY <2>1, <2>2
<1>3. CASE ReadCoreRef(c)
  <2>0. was.at = "core"
    BY <1>3 DEF ReadCoreRef, was
  <2>1. CASE creates # {}
    <3>1. PICK r \in NewestRefs(creates) : Found(c, r)
      BY <1>3, <2>1 DEF ReadCoreRef
    <3>2. \A fork \in Branches : was.calm /\ Settled(fork) => creates = Rows(fork, 1 .. processTail)
      BY <1>h DEF StoresHold
    <3> QED BY <1>f, <1>t, <3>1, <3>2 DEF LookupTypes
  <2>2. CASE creates = {}
    <3>1. ToRead(c, [was EXCEPT !.at = "current"])
      BY <1>3, <2>2 DEF ReadCoreRef, was
    <3>2. \A fork \in Branches : was.calm /\ Settled(fork) => refs = {}
      BY <1>h, <2>0 DEF ReadHolds
    <3> QED BY <1>g, <2>2, <3>1, <3>2
  <2> QED BY <2>1, <2>2
<1>4. CASE ReadCurrentRef(c)
  <2>0. was.at = "current"
    BY <1>4 DEF ReadCurrentRef, was
  <2>n. ASSUME NEW fork \in Branches, was.calm, Settled(fork)
        PROVE  /\ refs = {} /\ creates = {} /\ outputs = Rows(fork, 1 .. processTail) /\ outputs = {}
               /\ refsReady => Rows(fork, processTail + 1 .. Newest) \subseteq {}
    BY <1>h, <2>0, <2>n DEF ReadHolds, StoresHold
  <2>1. CASE outputs # {}
    <3>1. PICK r \in NewestRefs(outputs) : Found(c, r)
      BY <1>4, <2>1 DEF ReadCurrentRef
    <3> QED BY <1>f, <1>t, <2>n, <2>1, <3>1 DEF LookupTypes
  <2>2. CASE outputs = {} /\ refsReady
    <3>1. AnswerLookup(c, NoRef)
      BY <1>4, <2>2 DEF ReadCurrentRef
    <3>2. ASSUME NEW fork \in Branches, was.calm, Settled(fork)
          PROVE  NoRef = place[fork]
      <4>1. Rows(fork, 1 .. processTail) = {} /\ Rows(fork, processTail + 1 .. Newest) = {}
        BY <2>n, <2>2, <3>2
      <4>2. place[fork] # NoRef => place[fork].height \in 1 .. Newest
        BY <1>t DEF LookupTypes, Refs, Replaced, Branches
      <4>3. processTail \in 1 .. Newest
        BY <1>t DEF LookupTypes
      <4>4. place[fork] # NoRef =>
              place[fork].height \in 1 .. processTail \/ place[fork].height \in processTail + 1 .. Newest
        BY <1>n, <4>2, <4>3
      <4> QED BY <1>t, <4>1, <4>4, RowsAre
    <3> QED BY <1>a, <3>1, <3>2
  <2>3. CASE outputs = {} /\ ~refsReady
    <3> DEFINE new == [was EXCEPT !.at = "scan", !.cursor = Newest, !.low = ScanLow]
    <3>1. ToRead(c, new)
      BY <1>4, <2>3 DEF ReadCurrentRef, was
    <3>2. /\ ReadTypes(new) /\ new.calm = was.calm
          /\ new.at = "scan" /\ new.cursor = Newest /\ new.low = ScanLow
      <4>1. ScanLow \in 0 .. Newest
        BY <1>n, <1>t, LookupAssumption DEF LookupTypes, ScanLow
      <4> QED BY <1>n, <1>t, <4>1 DEF ReadTypes
    <3> HIDE DEF new
    <3>3. \A h \in Replaced : ~(h > Newest)
      BY <1>n DEF Replaced
    <3> QED BY <2>n, <2>3, <3>1, <3>2, <3>3, LookupReads DEF ReadHolds
  <2> QED BY <2>1, <2>2, <2>3
<1>5. CASE ScanRawBlock(c)
  <2> DEFINE h == was.cursor
  <2>0. was.at = "scan" /\ h \in 0 .. Newest /\ was.low \in 0 .. Newest
    BY <1>5, <1>t DEF ScanRawBlock, ReadTypes, was
  <2>n. ASSUME NEW fork \in Branches, was.calm, Settled(fork)
        PROVE  /\ creates = {} /\ creates = Rows(fork, 1 .. processTail)
               /\ refs = {} /\ ~refsReady /\ was.low = ScanLow
               /\ \A g \in Replaced : raw[g] = fork
               /\ \A g \in Replaced : g > h => ~Holds(fork, g)
    BY <1>h, <2>0, <2>n DEF ReadHolds, StoresHold, Settled
  <2>1. CASE h <= was.low
    <3>1. AnswerLookup(c, NoRef)
      BY <1>5, <2>1 DEF ScanRawBlock, was
    <3>2. ASSUME NEW fork \in Branches, was.calm, Settled(fork), place[fork] # NoRef
          PROVE  BeyondScan(place[fork])
      <4>1. place[fork].height \in Replaced /\ place[fork].height \in 1 .. Newest
        BY <1>t, <3>2 DEF LookupTypes, Refs, Replaced, Branches
      <4>2. place[fork].height \notin 1 .. processTail
        BY <1>t, <2>n, <3>2, RowsAre
      <4>3. processTail \in 1 .. Newest /\ was.low = ScanLow
        BY <1>t, <2>n, <3>2 DEF LookupTypes
      <4>4. ~(place[fork].height > h)
        BY <2>n, <3>2, <4>1 DEF Holds
      <4>5. processTail < place[fork].height /\ place[fork].height <= Newest - ScanLimit
        BY <1>n, <2>0, <2>1, <4>1, <4>2, <4>3, <4>4, LookupAssumption DEF ScanLow
      <4> QED BY <2>n, <3>2, <4>5 DEF BeyondScan
    <3> QED BY <1>a, <3>1, <3>2
  <2>p. CASE ~(h <= was.low)
    <3>1. h \in Replaced /\ h - 1 \in 0 .. Newest
      BY <1>n, <2>0, <2>p DEF Replaced
    <3>2. CASE Holds(raw[h], h)
      <4> DEFINE new == [was EXCEPT !.at = "load", !.ref = place[raw[h]]]
      <4>1. ToRead(c, new)
        BY <1>5, <2>p, <3>2 DEF ScanRawBlock, was
      <4>2. place[raw[h]] # NoRef /\ place[raw[h]] \in Row
        BY <1>t, <3>1, <3>2 DEF Holds, LookupTypes, Row, Branches
      <4>3. ReadTypes(new) /\ new.calm = was.calm /\ new.at = "load" /\ new.ref = place[raw[h]]
        BY <1>t, <4>2 DEF ReadTypes
      <4> HIDE DEF new
      <4>4. \A fork \in Branches : was.calm /\ Settled(fork) => ReadHolds(new, fork)
        BY <2>n, <3>1, <4>2, <4>3 DEF ReadHolds
      <4> QED BY <4>1, <4>3, <4>4, LookupReads
    <3>3. CASE ~Holds(raw[h], h)
      <4> DEFINE new == [was EXCEPT !.cursor = h - 1]
      <4>1. ToRead(c, new)
        BY <1>5, <2>p, <3>3 DEF ScanRawBlock, was
      <4>2. /\ ReadTypes(new) /\ new.calm = was.calm /\ new.at = "scan"
            /\ new.cursor = h - 1 /\ new.low = was.low
        BY <1>t, <2>0, <3>1 DEF ReadTypes
      <4> HIDE DEF new
      <4>3. \A g \in Replaced : g > h - 1 => g > h \/ g = h
        BY <1>n, <2>0 DEF Replaced
      <4>4. \A fork \in Branches : was.calm /\ Settled(fork) => ReadHolds(new, fork)
        BY <2>n, <3>1, <3>3, <4>2, <4>3 DEF ReadHolds
      <4> QED BY <4>1, <4>2, <4>4, LookupReads
    <3> QED BY <3>2, <3>3
  <2> QED BY <2>1, <2>p
<1>6. CASE CheckCanonical(c)
  <2>0. was.at = "canonical"
    BY <1>6 DEF CheckCanonical, was
  <2>n. ASSUME NEW fork \in Branches, was.calm, Settled(fork)
        PROVE  was.ref = place[fork] /\ was.ref # NoRef /\ coreBlocks[was.ref.height] = was.ref.fork
    <3>1. was.ref = place[fork] /\ was.ref # NoRef
      BY <1>h, <2>0, <2>n DEF ReadHolds
    <3>2. was.ref.height \in Replaced /\ was.ref.fork = fork
      BY <1>t, <3>1 DEF LookupTypes, Refs, Branches
    <3> QED BY <1>h, <2>n, <3>1, <3>2 DEF StoresHold
  <2>1. CASE coreBlocks[was.ref.height] = was.ref.fork
    <3> DEFINE new == [was EXCEPT !.at = "load"]
    <3>1. ToRead(c, new)
      BY <1>6, <2>1 DEF CheckCanonical, was
    <3>2. ReadTypes(new) /\ new.calm = was.calm /\ new.at = "load" /\ new.ref = was.ref
      BY <1>t, <2>0 DEF ReadTypes
    <3> HIDE DEF new
    <3> QED BY <2>n, <3>1, <3>2, LookupReads DEF ReadHolds
  <2>2. CASE coreBlocks[was.ref.height] # was.ref.fork
    <3>1. AnswerLookup(c, NoRef)
      BY <1>6, <2>2 DEF CheckCanonical, was
    <3> QED BY <1>a, <2>n, <2>2, <3>1
  <2> QED BY <2>1, <2>2
<1>7. CASE LoadBlock(c)
  <2>0. was.at = "load" /\ was.ref \in Row
    BY <1>7, <1>t DEF LoadBlock, ReadTypes, was
  <2>1. was.ref.height \in Replaced
    BY <2>0 DEF Row, Refs
  <2>2. raw[was.ref.height] \in Branches
    BY <1>t, <2>1 DEF LookupTypes
  <2> DEFINE answer == IF Holds(raw[was.ref.height], was.ref.height)
                       THEN [was.ref EXCEPT !.fork = raw[was.ref.height]]
                       ELSE NoRef
  <2>3. AnswerLookup(c, answer)
    BY <1>7 DEF LoadBlock, was
  <2>4. answer \in {NoRef} \cup Row
    BY <2>0, <2>2 DEF Row, Refs, Branches
  <2>5. ASSUME NEW fork \in Branches, was.calm, Settled(fork)
        PROVE  answer = place[fork]
    <3>1. was.ref = place[fork] /\ was.ref # NoRef
      BY <1>h, <2>0, <2>5 DEF ReadHolds
    <3>2. place[fork] \in Refs(fork)
      BY <1>t, <3>1 DEF LookupTypes
    <3>3. raw[was.ref.height] = fork
      BY <2>1, <2>5 DEF Settled
    <3>4. Holds(raw[was.ref.height], was.ref.height)
      BY <3>1, <3>3 DEF Holds
    <3>5. [was.ref EXCEPT !.fork = fork] = was.ref
      BY <3>1, <3>2 DEF Refs
    <3> QED BY <3>1, <3>3, <3>4, <3>5
  <2> HIDE DEF answer
  <2> QED BY <1>a, <2>3, <2>4, <2>5
<1> QED BY <1>1, <1>2, <1>3, <1>4, <1>5, <1>6, <1>7

(***************************************************************************)
(* A step of the indexer ends the calm of every lookup that has begun.     *)
(***************************************************************************)
LEMMA Disturbed ==
  ASSUME LookupTypes, Disturb
  PROVE  /\ reader' = [c \in Readers |-> reader'[c]] /\ \A c \in Readers : ReadTypes(reader'[c])
         /\ \A c \in Readers : reader'[c].calm => reader'[c].at = "idle"
<1>1. reader' = [c \in Readers |-> [reader[c] EXCEPT !.calm = (reader[c] = NoRead)]]
  BY DEF Disturb
<1>2. ASSUME NEW c \in Readers
      PROVE  ReadTypes(reader'[c]) /\ (reader'[c].calm => reader'[c].at = "idle")
  <2> DEFINE was == reader[c]
             b == was = NoRead
  <2>1. ReadTypes(was) /\ reader'[c] = [was EXCEPT !.calm = b]
    BY <1>1 DEF LookupTypes
  <2>2. b \in BOOLEAN /\ (b => was.at = "idle")
    BY DEF NoRead
  <2> HIDE DEF b, was
  <2> QED BY <2>1, <2>2 DEF ReadTypes
<1> QED BY <1>1, <1>2

(***************************************************************************)
(* A step of the indexer keeps what is said of the stores.                 *)
(***************************************************************************)
LEMMA IndexerStep ==
  ASSUME LookupInv,
         \/ PutRawBlock \/ UpsertBlocks \/ UpsertRefs \/ DeleteCreates \/ DeleteRefs
         \/ Rematerialize \/ InsertCreates \/ UpdateOutputs \/ PublishTail
  PROVE  LookupInv'
<1>t. LookupTypes /\ StoreInv
  BY DEF LookupInv
<1>d. Disturb
  BY DEF PutRawBlock, UpsertBlocks, UpsertRefs, DeleteCreates, DeleteRefs, Rematerialize,
         InsertCreates, UpdateOutputs, PublishTail
<1>p. processTail \in 1 .. Newest /\ Newest \in Nat \ {0} /\ UNCHANGED <<place, refsReady>>
  BY <1>t, LookupAssumption
     DEF LookupTypes, PutRawBlock, UpsertBlocks, UpsertRefs, DeleteCreates, DeleteRefs,
         Rematerialize, InsertCreates, UpdateOutputs, PublishTail
<1>r. \A S : Rows("old", S) \subseteq Row /\ Rows("new", S) \subseteq Row
  BY <1>t DEF Rows, LookupTypes, Row, Branches
<1>1. CASE PutRawBlock
  <2>1. PICK h \in Replaced :
          /\ indexerAt = "raw" /\ raw' = [raw EXCEPT ![h] = "new"]
          /\ indexerAt' = IF \A g \in Replaced \ {h} : raw[g] = "new" THEN "blocks" ELSE "raw"
          /\ UNCHANGED <<coreBlocks, refs, creates, outputs, processTail>>
    BY <1>1 DEF PutRawBlock
  <2>2. /\ raw' \in [Replaced -> Branches]
        /\ indexerAt' # "raw" => \A g \in Replaced : raw'[g] = "new"
    BY <1>t, <2>1 DEF LookupTypes, Branches
  <2>3. LookupTypes'
    BY <1>d, <1>p, <1>t, <2>1, <2>2, Disturbed DEF LookupTypes
  <2>4. StoreInv'
    BY <1>p, <1>t, <2>1, <2>2 DEF StoreInv, StoresHold, Rows
  <2> QED BY <1>d, <1>t, <2>3, <2>4, Disturbed DEF LookupInv, ReaderInv, ReadHolds
<1>2. CASE ~PutRawBlock
  <2>1. UNCHANGED raw /\ (processTail' = processTail \/ processTail' = Newest)
    BY <1>2 DEF UpsertBlocks, UpsertRefs, DeleteCreates, DeleteRefs, Rematerialize,
                InsertCreates, UpdateOutputs, PublishTail
  <2>2. refs' \cup creates' \cup outputs' \subseteq Row
    BY <1>2, <1>r, <1>t
       DEF LookupTypes, UpsertBlocks, UpsertRefs, DeleteCreates, DeleteRefs, RefsAfterRewind,
           Rematerialize, InsertCreates, UpdateOutputs, PublishTail
  <2>3. LookupTypes'
    BY <1>d, <1>p, <1>t, <2>1, <2>2, Disturbed DEF LookupTypes
  <2>4. UpsertBlocks => StoreInv'
    BY <1>p, <1>t DEF UpsertBlocks, StoreInv
  <2>5. UpsertRefs => StoreInv'
    BY <1>p, <1>t DEF UpsertRefs, Reorganised, StoreInv
  <2>6. DeleteCreates => StoreInv'
    BY <1>p, <1>t DEF DeleteCreates, StoreInv
  <2>7. DeleteRefs => StoreInv'
    <3> SUFFICES ASSUME DeleteRefs PROVE StoreInv'
      OBVIOUS
    <3>1. \A r \in refs : r.height \in Replaced
      BY <1>t DEF LookupTypes, Row, Refs
    <3>2. refs' = {}
      BY <3>1 DEF DeleteRefs, RefsAfterRewind
    <3> QED BY <1>p, <1>t, <3>2 DEF DeleteRefs, StoreInv
  <2>8. Rematerialize => StoreInv'
    BY <1>p, <1>t DEF Rematerialize, StoreInv
  <2>9. InsertCreates => StoreInv'
    BY <1>p, <1>t DEF InsertCreates, StoreInv, Rows
  <2>10. UpdateOutputs => StoreInv'
    BY <1>p, <1>t DEF UpdateOutputs, StoreInv, Rows
  <2>11. PublishTail => StoreInv'
    BY <1>p, <1>t DEF PublishTail, StoreInv, Rows
  <2>12. StoreInv'
    BY <1>2, <2>4, <2>5, <2>6, <2>7, <2>8, <2>9, <2>10, <2>11
  <2> QED BY <1>d, <1>t, <2>3, <2>12, Disturbed DEF LookupInv, ReaderInv, ReadHolds
<1> QED BY <1>1, <1>2

(***************************************************************************)
(* A lookup that no step of the indexer crosses is right, for any number   *)
(* of replaced blocks and any limit of the scan, but for transactions      *)
(* beyond it; as long as one of the blocks has been processed: else        *)
(* nothing is rewound and the references of the replaced blocks stay.      *)
(***************************************************************************)
THEOREM CalmLookupsAreAlwaysRight ==
  ASSUME 0 \notin FirstTails
  PROVE  LookupSpec => []CalmLookupsAreRight
<1>1. LookupInit => LookupInv
  <2> SUFFICES ASSUME LookupInit PROVE LookupInv
    OBVIOUS
  <2>p. processTail \in 1 .. Newest /\ Newest \in Nat
    BY LookupAssumption DEF LookupInit
  <2>1. \A fork \in Branches : place[fork] # NoRef => place[fork] \in Refs(fork)
    BY DEF LookupInit, Branches, Refs
  <2>2. \A S : Rows("old", S) \subseteq Row
    BY <2>1 DEF Rows, Row, Branches
  <2>3. LookupTypes
    BY <2>p, <2>1, <2>2 DEF LookupInit, LookupTypes, Branches, ReadTypes, NoRead
  <2>4. StoreInv
    BY DEF LookupInit, StoreInv, StoresHold
  <2>5. ReaderInv
    BY DEF LookupInit, ReaderInv, ReadHolds, NoRead
  <2> QED BY <2>3, <2>4, <2>5 DEF LookupInv
<1>2. LookupInv /\ [LookupNext]_lookupVars => LookupInv'
  <2> SUFFICES ASSUME LookupInv, UNCHANGED lookupVars PROVE LookupInv'
    BY ReaderStep, IndexerStep DEF LookupNext
  <2> QED BY DEF lookupVars, LookupInv, LookupTypes, ReadTypes, StoreInv, StoresHold, ReaderInv,
             ReadHolds, Settled, Holds, Rows, ScanLow, BeyondScan
<1>3. LookupInv => CalmLookupsAreRight
  BY DEF LookupInv, ReaderInv, CalmLookupsAreRight, Settled, ReadHolds, StoreInv, Branches
<1> QED BY <1>1, <1>2, <1>3, PTL DEF LookupSpec

-----------------------------------------------------------------------------
(***************************************************************************)
(* Access control, for any number of requests, keys and failures of the    *)
(* store: the first key is made once, every request that authenticated is  *)
(* audited once with the outcome its client saw, and the last active admin *)
(* only goes where two changes of keys race.                               *)
(***************************************************************************)

\* The steps of one request.
AccessStep(r) ==
  \/ Receive(r) \/ CheckConfigured(r) \/ Authenticate(r) \/ ReadRoute(r)
  \/ CountForCreate(r) \/ CheckAvailable(r) \/ InsertKey(r) \/ ReadBack(r)
  \/ LockBootstrap(r) \/ CountBootstrap(r) \/ InsertFirstKey(r)
  \/ LoadKey(r) \/ LoadKeyToDelete(r) \/ CountAdmins(r) \/ ChangeKeys(r)
  \/ StoreFails(r) \/ RecordAudit(r)

(***************************************************************************)
(* The tables are functions, of the keys and of the requests.              *)
(***************************************************************************)
IsTable(f, S) == f = [s \in S |-> f[s]]
KnownCall(c) ==
  /\ c.op \in {"create", "update"} => c.key \in Keys
  /\ c.op = "delete" => c.ids \subseteq Keys
TableInv ==
  /\ IsTable(keys, Keys) /\ storeFaults \in Nat
  /\ IsTable(pc, Requests) /\ IsTable(call, Requests) /\ IsTable(actor, Requests)
  /\ IsTable(seen, Requests) /\ IsTable(status, Requests) /\ IsTable(trail, Requests)
  /\ \A r \in Requests : KnownCall(call[r])

(***************************************************************************)
(* Who is between the count of the keys and the insert of the first one    *)
(* holds the lock; what it counted is so still, or a request with a token  *)
(* has made a key.                                                         *)
(***************************************************************************)
BootstrapInv ==
  \A r \in Requests :
    /\ pc[r] \in {"bootstrap", "first"} => bootstrapLock = r
    /\ pc[r] = "first" => Present(keys) = {} \/ \E o \in Requests : MadeWithToken(o)
    /\ pc[r] \in {"count", "available", "insert"} => call[r].op = "create"
    /\ pc[r] = "insert" => actor[r] # NoActor

(***************************************************************************)
(* Whoever is audited has its status, and one event of it if no write to   *)
(* the store has failed; who is done and has an actor is audited.          *)
(***************************************************************************)
AuditInv ==
  \A r \in Requests :
    /\ r \notin audited => trail[r] = << >>
    /\ r \in audited =>
         /\ pc[r] \in {"after", "done"}
         /\ storeFaults = 0 => trail[r] = <<Outcome(status[r])>>
    /\ pc[r] = "done" /\ actor[r] # NoActor => r \in audited

(***************************************************************************)
(* What a change of keys has read is what is there, until another one is   *)
(* written beside it; so the check it has passed holds when it writes.     *)
(***************************************************************************)
UpdateKeepsOne(K, c, s) ==
  IsActiveAdmin(K[c.key]) /\ ~IsActiveAdmin(s) => Cardinality(ActiveAdmins(K)) > 1
DeleteKeepsOne(K, s) ==
  \/ Cardinality(ActiveAdmins(s)) = 0
  \/ Cardinality(ActiveAdmins(K)) - Cardinality(ActiveAdmins(s)) > 0

\* A request at label l with the call c has read s of the keys K.
ReadsAreFresh(K, l, c, s) ==
  /\ c.op = "update" /\ l = "write" => UpdateKeepsOne(K, c, s)
  /\ c.op = "delete" =>
       /\ l = "load" => DOMAIN s \subseteq c.ids /\ \A k \in DOMAIN s : s[k] = K[k]
       /\ l \in {"admins", "write"} => s = [k \in c.ids |-> K[k]]
       /\ l = "write" => DeleteKeepsOne(K, s)
AdminInv ==
  \A r \in Requests :
    /\ pc[r] \in {"idle", "configured", "authenticate"} => seen[r] = << >>
    /\ pc[r] \in {"admins", "write"} => call[r].op \in {"update", "delete"}
    /\ r \notin overlapped => ReadsAreFresh(keys, pc[r], call[r], seen[r])

-----------------------------------------------------------------------------
(***************************************************************************)
(* An entry of a table is replaced by another one.                         *)
(***************************************************************************)
LEMMA EntryReplaced ==
  ASSUME NEW S, NEW f, IsTable(f, S), NEW i \in S, NEW v
  PROVE  /\ IsTable([f EXCEPT ![i] = v], S) /\ [f EXCEPT ![i] = v][i] = v
         /\ \A j \in S : j # i => [f EXCEPT ![i] = v][j] = f[j]
BY DEF IsTable

(***************************************************************************)
(* Of a table another one differs in one entry at most.                    *)
(***************************************************************************)
OnlyAt(f, g, i) == g = f \/ \E v : g = [f EXCEPT ![i] = v]

(***************************************************************************)
(* It is a table, and its other entries are the same.                      *)
(***************************************************************************)
LEMMA OnlyAtIs ==
  ASSUME NEW S, NEW f, NEW g, IsTable(f, S), NEW i \in S, OnlyAt(f, g, i)
  PROVE  IsTable(g, S) /\ \A j \in S : j # i => g[j] = f[j]
BY EntryReplaced DEF OnlyAt

(***************************************************************************)
(* The same of one of the other entries.                                   *)
(***************************************************************************)
LEMMA OtherEntry ==
  ASSUME NEW S, NEW f, NEW g, NEW i \in S, NEW j \in S,
         IsTable(f, S), OnlyAt(f, g, i), j # i
  PROVE  g[j] = f[j]
<1>1. CASE g = f
  BY <1>1
<1>2. CASE \E v : g = [f EXCEPT ![i] = v]
  <2>1. PICK v : g = [f EXCEPT ![i] = v]
    BY <1>2
  <2> QED BY <2>1 DEF IsTable
<1> QED BY <1>1, <1>2 DEF OnlyAt

(***************************************************************************)
(* The calls that are received name keys.                                  *)
(***************************************************************************)
LEMMA CallsKnown == KnownCall(NoCall) /\ \A c \in Calls : KnownCall(c)
BY DEF KnownCall, NoCall, Calls

(***************************************************************************)
(* A step of a request changes its own entries, adds or replaces keys, and *)
(* counts the failures of the store.                                       *)
(***************************************************************************)
LEMMA StepIsLocal ==
  ASSUME TableInv, NEW r \in Requests, AccessStep(r)
  PROVE  /\ OnlyAt(pc, pc', r) /\ OnlyAt(call, call', r) /\ OnlyAt(actor, actor', r)
         /\ OnlyAt(seen, seen', r) /\ OnlyAt(status, status', r) /\ OnlyAt(trail, trail', r)
         /\ audited' \in {audited, audited \cup {r}}
         /\ storeFaults' \in {storeFaults, storeFaults + 1}
         /\ IsTable(keys', Keys)
         /\ call' = call \/ call'[r] \in Calls
<1> DEFINE Local ==
      /\ OnlyAt(pc, pc', r) /\ OnlyAt(call, call', r) /\ OnlyAt(actor, actor', r)
      /\ OnlyAt(seen, seen', r) /\ OnlyAt(status, status', r) /\ OnlyAt(trail, trail', r)
      /\ audited' \in {audited, audited \cup {r}}
      /\ storeFaults' \in {storeFaults, storeFaults + 1}
      /\ IsTable(keys', Keys)
      /\ call' = call \/ call'[r] \in Calls
<1> SUFFICES Local
  OBVIOUS
<1> USE DEF OnlyAt, Goto, Answer, storeVars, auditVars
<1>t. IsTable(keys, Keys) /\ IsTable(call, Requests)
  BY DEF TableInv
<1>1. CASE Receive(r)
  <2>1. PICK c \in Calls :
          /\ call' = [call EXCEPT ![r] = c]
          /\ pc' = [pc EXCEPT ![r] = IF c.op = "public" THEN "read" ELSE "configured"]
    BY <1>1 DEF Receive
  <2>2. call'[r] = c
    BY <1>t, <2>1, EntryReplaced
  <2>3. UNCHANGED <<keys, storeFaults, actor, seen, status, audited, trail>>
    BY <1>1 DEF Receive
  <2> QED BY <1>t, <2>1, <2>2, <2>3
<1>2. CASE CheckConfigured(r)
  BY <1>t, <1>2 DEF CheckConfigured
<1>3. CASE Authenticate(r)
  BY <1>t, <1>3 DEF Authenticate
<1>4. CASE ReadRoute(r)
  BY <1>t, <1>4 DEF ReadRoute
<1>5. CASE CountForCreate(r)
  BY <1>t, <1>5 DEF CountForCreate
<1>6. CASE CheckAvailable(r)
  BY <1>t, <1>6 DEF CheckAvailable
<1>7. CASE InsertKey(r)
  <2>1. IsTable(keys', Keys)
    BY <1>t, <1>7, EntryReplaced DEF InsertKey, WriteKeys, IsTable
  <2>2. /\ OnlyAt(pc, pc', r) /\ OnlyAt(status, status', r)
        /\ UNCHANGED <<call, actor, seen, audited, trail, storeFaults>>
    BY <1>7 DEF InsertKey
  <2> QED BY <2>1, <2>2
<1>8. CASE ReadBack(r)
  BY <1>t, <1>8 DEF ReadBack
<1>9. CASE LockBootstrap(r)
  BY <1>t, <1>9 DEF LockBootstrap
<1>10. CASE CountBootstrap(r)
  BY <1>t, <1>10 DEF CountBootstrap
<1>11. CASE InsertFirstKey(r)
  <2>1. IsTable(keys', Keys)
    BY <1>t, <1>11, EntryReplaced DEF InsertFirstKey, WriteKeys, IsTable
  <2>2. /\ OnlyAt(pc, pc', r) /\ OnlyAt(status, status', r)
        /\ UNCHANGED <<call, actor, seen, audited, trail, storeFaults>>
    BY <1>11 DEF InsertFirstKey
  <2> QED BY <2>1, <2>2
<1>12. CASE LoadKey(r)
  BY <1>t, <1>12 DEF LoadKey
<1>13. CASE LoadKeyToDelete(r)
  BY <1>t, <1>13 DEF LoadKeyToDelete
<1>14. CASE CountAdmins(r)
  BY <1>t, <1>14 DEF CountAdmins
<1>15. CASE ChangeKeys(r)
  <2>1. IsTable(keys', Keys)
    <3>1. CASE call[r].op = "delete"
      BY <1>15, <3>1 DEF ChangeKeys, WriteKeys, IsTable
    <3>2. CASE call[r].op # "delete"
      BY <1>t, <1>15, <3>2 DEF ChangeKeys, WriteKeys, IsTable
    <3> QED BY <3>1, <3>2
  <2>2. /\ OnlyAt(pc, pc', r) /\ OnlyAt(status, status', r)
        /\ UNCHANGED <<call, actor, seen, audited, trail, storeFaults>>
    BY <1>15 DEF ChangeKeys
  <2> QED BY <2>1, <2>2
<1>16. CASE StoreFails(r)
  BY <1>t, <1>16 DEF StoreFails
<1>17. CASE RecordAudit(r)
  BY <1>t, <1>17 DEF RecordAudit
<1> QED
  BY <1>1, <1>2, <1>3, <1>4, <1>5, <1>6, <1>7, <1>8, <1>9, <1>10, <1>11, <1>12, <1>13,
     <1>14, <1>15, <1>16, <1>17
     DEF AccessStep

(***************************************************************************)
(* The tables stay tables.                                                 *)
(***************************************************************************)
LEMMA TableStep ==
  ASSUME TableInv, NEW r \in Requests, AccessStep(r)
  PROVE  TableInv'
<1>1. /\ OnlyAt(pc, pc', r) /\ OnlyAt(call, call', r) /\ OnlyAt(actor, actor', r)
      /\ OnlyAt(seen, seen', r) /\ OnlyAt(status, status', r) /\ OnlyAt(trail, trail', r)
      /\ IsTable(keys', Keys)
      /\ storeFaults' \in {storeFaults, storeFaults + 1}
      /\ call' = call \/ call'[r] \in Calls
  BY StepIsLocal
<1>2. /\ IsTable(pc', Requests) /\ IsTable(call', Requests) /\ IsTable(actor', Requests)
      /\ IsTable(seen', Requests) /\ IsTable(status', Requests) /\ IsTable(trail', Requests)
  BY <1>1, OnlyAtIs DEF TableInv
<1>3. \A o \in Requests : KnownCall(call'[o])
  <2>1. \A o \in Requests : o # r => call'[o] = call[o]
    <3>1. IsTable(call, Requests)
      BY DEF TableInv
    <3> QED BY <1>1, <3>1, OnlyAtIs
  <2> QED BY <1>1, <2>1, CallsKnown DEF TableInv
<1>4. storeFaults' \in Nat
  BY <1>1 DEF TableInv
<1> QED BY <1>1, <1>2, <1>3, <1>4 DEF TableInv

(***************************************************************************)
(* What a step leaves alone of the other requests.                         *)
(***************************************************************************)
LEMMA OthersStay ==
  ASSUME TableInv, NEW r \in Requests, AccessStep(r), NEW o \in Requests, o # r
  PROVE  /\ pc'[o] = pc[o] /\ call'[o] = call[o] /\ actor'[o] = actor[o]
         /\ seen'[o] = seen[o] /\ status'[o] = status[o] /\ trail'[o] = trail[o]
         /\ o \in audited' <=> o \in audited
<1>1. /\ OnlyAt(pc, pc', r) /\ OnlyAt(call, call', r) /\ OnlyAt(actor, actor', r)
      /\ OnlyAt(seen, seen', r) /\ OnlyAt(status, status', r) /\ OnlyAt(trail, trail', r)
      /\ audited' \in {audited, audited \cup {r}}
  BY StepIsLocal
<1>2. /\ pc'[o] = pc[o] /\ call'[o] = call[o] /\ actor'[o] = actor[o]
      /\ seen'[o] = seen[o] /\ status'[o] = status[o] /\ trail'[o] = trail[o]
  <2>1. /\ IsTable(pc, Requests) /\ IsTable(call, Requests) /\ IsTable(actor, Requests)
        /\ IsTable(seen, Requests) /\ IsTable(status, Requests) /\ IsTable(trail, Requests)
    BY DEF TableInv
  <2>2. pc'[o] = pc[o]
    BY <1>1, <2>1, OtherEntry
  <2>3. call'[o] = call[o]
    BY <1>1, <2>1, OtherEntry
  <2>4. actor'[o] = actor[o]
    BY <1>1, <2>1, OtherEntry
  <2>5. seen'[o] = seen[o]
    BY <1>1, <2>1, OtherEntry
  <2>6. status'[o] = status[o]
    BY <1>1, <2>1, OtherEntry
  <2>7. trail'[o] = trail[o]
    BY <1>1, <2>1, OtherEntry
  <2> QED BY <2>2, <2>3, <2>4, <2>5, <2>6, <2>7
<1> QED BY <1>1, <1>2

(***************************************************************************)
(* What a step writes of its own request is there.                         *)
(***************************************************************************)
LEMMA OwnEntry ==
  ASSUME TableInv, NEW r \in Requests, NEW v
  PROVE  /\ [pc EXCEPT ![r] = v][r] = v /\ [call EXCEPT ![r] = v][r] = v
         /\ [actor EXCEPT ![r] = v][r] = v /\ [seen EXCEPT ![r] = v][r] = v
         /\ [status EXCEPT ![r] = v][r] = v /\ [trail EXCEPT ![r] = v][r] = v
<1>1. /\ IsTable(pc, Requests) /\ IsTable(call, Requests) /\ IsTable(actor, Requests)
      /\ IsTable(seen, Requests) /\ IsTable(status, Requests) /\ IsTable(trail, Requests)
  BY DEF TableInv
<1> QED BY <1>1 DEF IsTable

(***************************************************************************)
(* A request with a token that has made a key stays one.                   *)
(***************************************************************************)
LEMMA MadeStays ==
  ASSUME TableInv, NEW r \in Requests, AccessStep(r), MadeWithToken(r)
  PROVE  MadeWithToken(r)'
<1> USE DEF MadeWithToken, Goto, Answer, storeVars, auditVars
<1>1. CASE Receive(r)
  BY OwnEntry, <1>1 DEF Receive
<1>2. CASE CheckConfigured(r)
  BY OwnEntry, <1>2 DEF CheckConfigured
<1>3. CASE Authenticate(r)
  BY OwnEntry, <1>3 DEF Authenticate
<1>4. CASE ReadRoute(r)
  BY OwnEntry, <1>4 DEF ReadRoute
<1>5. CASE CountForCreate(r)
  BY OwnEntry, <1>5 DEF CountForCreate
<1>6. CASE CheckAvailable(r)
  BY OwnEntry, <1>6 DEF CheckAvailable
<1>7. CASE InsertKey(r)
  BY OwnEntry, <1>7 DEF InsertKey
<1>8. CASE ReadBack(r)
  BY OwnEntry, <1>8 DEF ReadBack
<1>9. CASE LockBootstrap(r)
  BY OwnEntry, <1>9 DEF LockBootstrap
<1>10. CASE CountBootstrap(r)
  BY OwnEntry, <1>10 DEF CountBootstrap
<1>11. CASE InsertFirstKey(r)
  BY OwnEntry, <1>11 DEF InsertFirstKey
<1>12. CASE LoadKey(r)
  BY OwnEntry, <1>12 DEF LoadKey
<1>13. CASE LoadKeyToDelete(r)
  BY OwnEntry, <1>13 DEF LoadKeyToDelete
<1>14. CASE CountAdmins(r)
  BY OwnEntry, <1>14 DEF CountAdmins
<1>15. CASE ChangeKeys(r)
  BY OwnEntry, <1>15 DEF ChangeKeys
<1>16. CASE StoreFails(r)
  BY OwnEntry, <1>16 DEF StoreFails
<1>17. CASE RecordAudit(r)
  BY OwnEntry, <1>17 DEF RecordAudit
<1> QED
  BY <1>1, <1>2, <1>3, <1>4, <1>5, <1>6, <1>7, <1>8, <1>9, <1>10, <1>11, <1>12, <1>13,
     <1>14, <1>15, <1>16, <1>17
     DEF AccessStep

(***************************************************************************)
(* Every step keeps what holds of the bootstrap of the keys.               *)
(***************************************************************************)
LEMMA BootstrapStep ==
  ASSUME TableInv, BootstrapInv, NEW r \in Requests, AccessStep(r)
  PROVE  BootstrapInv'
<1>o. \A o \in Requests : o # r =>
        pc'[o] = pc[o] /\ call'[o] = call[o] /\ actor'[o] = actor[o] /\ status'[o] = status[o]
  BY OthersStay
<1>m. (\E o \in Requests : MadeWithToken(o)) => \E o \in Requests : MadeWithToken(o)'
  <2>1. \A o \in Requests : o # r => (MadeWithToken(o) => MadeWithToken(o)')
    BY <1>o DEF MadeWithToken
  <2> QED BY <2>1, MadeStays
<1> USE DEF BootstrapInv, Goto, Answer, storeVars, auditVars
<1>1. CASE Receive(r)
  BY <1>o, <1>m, OwnEntry, AccessConstants, <1>1 DEF Receive
<1>2. CASE CheckConfigured(r)
  BY <1>o, <1>m, OwnEntry, AccessConstants, <1>2 DEF CheckConfigured
<1>3. CASE Authenticate(r)
  <2>1. /\ pc[r] = "authenticate" /\ UNCHANGED <<keys, bootstrapLock, call>>
        /\ pc'[r] \in {"after", "error", "limited", Handler(call[r].op)}
    BY <1>3, OwnEntry DEF Authenticate
  <2>2. /\ Handler(call[r].op) \in {"count", "read", "load"}
        /\ Handler(call[r].op) = "count" => call[r].op = "create"
    BY DEF Handler
  <2> QED BY <1>o, <1>m, <2>1, <2>2
<1>4. CASE ReadRoute(r)
  BY <1>o, <1>m, OwnEntry, AccessConstants, <1>4 DEF ReadRoute
<1>5. CASE CountForCreate(r)
  BY <1>o, <1>m, OwnEntry, AccessConstants, <1>5 DEF CountForCreate
<1>6. CASE CheckAvailable(r)
  BY <1>o, <1>m, OwnEntry, AccessConstants, <1>6 DEF CheckAvailable
<1>7. CASE InsertKey(r)
  <2>1. /\ pc[r] = "insert" /\ call[r].op = "create" /\ actor[r] # NoActor
        /\ UNCHANGED <<bootstrapLock, call, actor>> /\ pc'[r] \in {"error", "after", "found"}
    BY <1>7, OwnEntry DEF InsertKey
  <2>2. CASE keys[call[r].key] # Absent
    <3>1. keys' = keys
      BY <1>7, <2>2 DEF InsertKey
    <3> QED BY <1>o, <1>m, <2>1, <3>1
  <2>3. CASE keys[call[r].key] = Absent
    <3>1. pc'[r] = "found"
      BY <1>7, <2>3, OwnEntry DEF InsertKey
    <3>2. MadeWithToken(r)'
      BY <2>1, <3>1 DEF MadeWithToken
    <3> QED BY <1>o, <1>m, <2>1, <3>1, <3>2
  <2> QED BY <2>2, <2>3
<1>8. CASE ReadBack(r)
  BY <1>o, <1>m, OwnEntry, AccessConstants, <1>8 DEF ReadBack
<1>9. CASE LockBootstrap(r)
  <2>1. /\ bootstrapLock = NoActor /\ bootstrapLock' = r /\ pc'[r] = "bootstrap"
        /\ UNCHANGED <<keys, call, actor>>
    BY <1>9, OwnEntry DEF LockBootstrap, BootstrapLockFree
  <2>2. \A o \in Requests : o # r => pc'[o] \notin {"bootstrap", "first"}
    BY <1>o, <2>1, AccessConstants
  <2> QED BY <1>o, <2>1, <2>2
<1>10. CASE CountBootstrap(r)
  BY <1>o, <1>m, OwnEntry, AccessConstants, <1>10 DEF CountBootstrap
<1>11. CASE InsertFirstKey(r)
  BY <1>o, <1>m, OwnEntry, AccessConstants, <1>11 DEF InsertFirstKey
<1>12. CASE LoadKey(r)
  BY <1>o, <1>m, OwnEntry, AccessConstants, <1>12 DEF LoadKey
<1>13. CASE LoadKeyToDelete(r)
  BY <1>o, <1>m, OwnEntry, AccessConstants, <1>13 DEF LoadKeyToDelete
<1>14. CASE CountAdmins(r)
  BY <1>o, <1>m, OwnEntry, AccessConstants, <1>14 DEF CountAdmins
<1>15. CASE ChangeKeys(r)
  <2>1. /\ pc'[r] \in {"after", "error"} /\ UNCHANGED <<bootstrapLock, call, actor>>
    BY <1>15, OwnEntry DEF ChangeKeys
  <2>2. Present(keys) = {} => Present(keys') = {}
    <3>1. \A k \in Keys : keys[k] = Absent => keys'[k] = Absent
      <4>1. CASE call[r].op = "delete"
        BY <1>15, <4>1 DEF ChangeKeys, WriteKeys
      <4>2. CASE call[r].op # "delete"
        <5>1. IsTable(keys, Keys)
          BY DEF TableInv
        <5> QED BY <1>15, <4>2, <5>1 DEF ChangeKeys, WriteKeys, IsTable
      <4> QED BY <4>1, <4>2
    <3> QED BY <3>1 DEF Present
  <2> QED BY <1>o, <1>m, <2>1, <2>2
<1>16. CASE StoreFails(r)
  BY <1>o, <1>m, OwnEntry, AccessConstants, <1>16 DEF StoreFails
<1>17. CASE RecordAudit(r)
  BY <1>o, <1>m, OwnEntry, AccessConstants, <1>17 DEF RecordAudit
<1> QED
  BY <1>1, <1>2, <1>3, <1>4, <1>5, <1>6, <1>7, <1>8, <1>9, <1>10, <1>11, <1>12, <1>13,
     <1>14, <1>15, <1>16, <1>17
     DEF AccessStep

(***************************************************************************)
(* Every step keeps what holds of the audit trail.                         *)
(***************************************************************************)
LEMMA AuditStep ==
  ASSUME TableInv, AuditInv, NEW r \in Requests, AccessStep(r)
  PROVE  AuditInv'
<1>o. \A o \in Requests : o # r =>
        /\ pc'[o] = pc[o] /\ actor'[o] = actor[o] /\ status'[o] = status[o] /\ trail'[o] = trail[o]
        /\ o \in audited' <=> o \in audited
  BY OthersStay
<1>d. /\ DOMAIN pc = Requests /\ DOMAIN status = Requests /\ DOMAIN actor = Requests
      /\ DOMAIN seen = Requests /\ DOMAIN call = Requests /\ DOMAIN trail = Requests
  BY DEF TableInv, IsTable
<1>f. storeFaults \in Nat /\ (storeFaults' = storeFaults \/ storeFaults' # 0)
  BY StepIsLocal DEF TableInv
<1> USE DEF AuditInv, Goto, Answer, storeVars, auditVars
<1>1. CASE Receive(r)
  BY <1>o, <1>f, <1>d, <1>1 DEF Receive
<1>2. CASE CheckConfigured(r)
  BY <1>o, <1>f, <1>d, <1>2 DEF CheckConfigured
<1>3. CASE Authenticate(r)
  <2>1. pc[r] = "authenticate" /\ pc'[r] # "done" /\ UNCHANGED <<audited, trail>>
    BY <1>3, <1>d DEF Authenticate, Handler
  <2> QED BY <1>o, <1>f, <2>1
<1>4. CASE ReadRoute(r)
  BY <1>o, <1>f, <1>d, <1>4 DEF ReadRoute
<1>5. CASE CountForCreate(r)
  BY <1>o, <1>f, <1>d, <1>5 DEF CountForCreate
<1>6. CASE CheckAvailable(r)
  BY <1>o, <1>f, <1>d, <1>6 DEF CheckAvailable
<1>7. CASE InsertKey(r)
  <2>1. pc[r] = "insert" /\ pc'[r] # "done" /\ UNCHANGED <<audited, trail>>
    BY <1>7, <1>d DEF InsertKey
  <2> QED BY <1>o, <1>f, <2>1
<1>8. CASE ReadBack(r)
  BY <1>o, <1>f, <1>d, <1>8 DEF ReadBack
<1>9. CASE LockBootstrap(r)
  BY <1>o, <1>f, <1>d, <1>9 DEF LockBootstrap
<1>10. CASE CountBootstrap(r)
  <2>1. pc[r] = "bootstrap" /\ pc'[r] # "done" /\ UNCHANGED <<audited, trail>>
    BY <1>10, <1>d DEF CountBootstrap
  <2> QED BY <1>o, <1>f, <2>1
<1>11. CASE InsertFirstKey(r)
  <2>1. pc[r] = "first" /\ pc'[r] # "done" /\ UNCHANGED <<audited, trail>>
    BY <1>11, <1>d DEF InsertFirstKey
  <2> QED BY <1>o, <1>f, <2>1
<1>12. CASE LoadKey(r)
  <2>1. pc[r] = "load" /\ pc'[r] # "done" /\ UNCHANGED <<audited, trail>>
    BY <1>12, <1>d DEF LoadKey
  <2> QED BY <1>o, <1>f, <2>1
<1>13. CASE LoadKeyToDelete(r)
  <2>1. pc[r] = "load" /\ pc'[r] # "done" /\ UNCHANGED <<audited, trail>>
    BY <1>13, <1>d DEF LoadKeyToDelete
  <2> QED BY <1>o, <1>f, <2>1
<1>14. CASE CountAdmins(r)
  <2>1. pc[r] = "admins" /\ pc'[r] # "done" /\ UNCHANGED <<audited, trail>>
    BY <1>14, <1>d DEF CountAdmins
  <2> QED BY <1>o, <1>f, <2>1
<1>15. CASE ChangeKeys(r)
  BY <1>o, <1>f, <1>d, <1>15 DEF ChangeKeys
<1>16. CASE StoreFails(r)
  BY <1>o, <1>f, <1>d, <1>16 DEF StoreFails
<1>17. CASE RecordAudit(r)
  <2>1. pc[r] \in {"limited", "after", "error"} /\ UNCHANGED <<actor, status>>
    BY <1>17 DEF RecordAudit
  <2>2. pc'[r] = IF pc[r] = "limited" THEN "after" ELSE "done"
    BY <1>17, <1>d DEF RecordAudit
  <2>3. CASE Auditable(r)
    <3>1. r \notin audited /\ audited' = audited \cup {r} /\ trail[r] = << >>
      BY <1>17, <2>3 DEF RecordAudit, Auditable
    <3>2. storeFaults' = 0 => trail' = [trail EXCEPT ![r] = Append(trail[r], Outcome(status[r]))]
      BY <1>f, <1>17, <2>3 DEF RecordAudit
    <3>3. storeFaults' = 0 => trail'[r] = Append(trail[r], Outcome(status[r]))
      BY <3>2, <1>d
    <3>4. storeFaults' = 0 => trail'[r] = <<Outcome(status[r])>>
      BY <3>1, <3>3
    <3> QED BY <1>o, <1>f, <2>1, <2>2, <3>1, <3>4
  <2>4. CASE ~Auditable(r)
    <3>1. UNCHANGED <<audited, trail, storeFaults>>
      BY <1>17, <2>4 DEF RecordAudit
    <3>2. pc[r] = "limited" => r \notin audited
      BY <2>1
    <3>3. r \in audited \/ actor[r] = NoActor
      BY <2>4 DEF Auditable
    <3> QED BY <1>o, <2>1, <2>2, <3>1, <3>3
  <2> QED BY <2>3, <2>4
<1> QED
  BY <1>1, <1>2, <1>3, <1>4, <1>5, <1>6, <1>7, <1>8, <1>9, <1>10, <1>11, <1>12, <1>13,
     <1>14, <1>15, <1>16, <1>17
     DEF AccessStep

(***************************************************************************)
(* Every step keeps what the changes of keys have read.                    *)
(***************************************************************************)
LEMMA AdminStep ==
  ASSUME TableInv, AdminInv, NEW r \in Requests, AccessStep(r)
  PROVE  AdminInv'
<1>o. \A o \in Requests : o # r =>
        pc'[o] = pc[o] /\ call'[o] = call[o] /\ seen'[o] = seen[o]
  BY OthersStay
<1>d. /\ DOMAIN pc = Requests /\ DOMAIN status = Requests /\ DOMAIN actor = Requests
      /\ DOMAIN seen = Requests /\ DOMAIN call = Requests /\ DOMAIN trail = Requests
  BY DEF TableInv, IsTable
<1>k. UNCHANGED <<keys, overlapped>> /\ (r \notin overlapped => ReadsAreFresh(keys, pc'[r], call'[r], seen'[r]))
      /\ (pc'[r] \in {"idle", "configured", "authenticate"} => seen'[r] = << >>)
      /\ (pc'[r] \in {"admins", "write"} => call'[r].op \in {"update", "delete"})
      => AdminInv'
  BY <1>o DEF AdminInv
<1>n. \A l : l \notin {"load", "admins", "write"} => \A K, c, s : ReadsAreFresh(K, l, c, s)
  BY DEF ReadsAreFresh
<1>w. \A table :
        /\ WriteKeys(r, table) /\ pc'[r] \in {"after", "error", "found"} => AdminInv'
  <2> SUFFICES ASSUME NEW table, WriteKeys(r, table), pc'[r] \in {"after", "error", "found"},
                      NEW o \in Requests, o # r, o \notin overlapped'
               PROVE  ReadsAreFresh(keys', pc[o], call[o], seen[o])
    BY <1>o, <1>n DEF AdminInv
  <2>1. CASE table = keys
    BY <2>1 DEF WriteKeys, AdminInv
  <2>2. CASE table # keys
    <3>1. o \notin Pending(r)
      BY <2>2 DEF WriteKeys
    <3>2. ~(call[o].op \in {"update", "delete"} /\ pc[o] \in {"load", "admins", "write"})
      BY <3>1 DEF Pending
    <3> QED BY <3>2 DEF ReadsAreFresh
  <2> QED BY <2>1, <2>2
<1> USE DEF AdminInv, Goto, Answer, storeVars, auditVars
<1>1. CASE Receive(r)
  BY <1>k, <1>n, <1>d, <1>1 DEF Receive
<1>2. CASE CheckConfigured(r)
  BY <1>k, <1>n, <1>d, <1>2 DEF CheckConfigured
<1>3. CASE Authenticate(r)
  <2>1. /\ pc[r] = "authenticate" /\ UNCHANGED <<keys, overlapped, call, seen>>
        /\ pc'[r] \in {"error", "limited", "count", "read", "load"}
    BY <1>3, <1>d DEF Authenticate, Handler
  <2>2. seen[r] = << >>
    BY <2>1
  <2>3. ReadsAreFresh(keys, "load", call[r], << >>)
    BY DEF ReadsAreFresh
  <2> QED BY <1>k, <1>n, <2>1, <2>2, <2>3
<1>4. CASE ReadRoute(r)
  BY <1>k, <1>n, <1>d, <1>4 DEF ReadRoute
<1>5. CASE CountForCreate(r)
  BY <1>k, <1>n, <1>d, <1>5 DEF CountForCreate
<1>6. CASE CheckAvailable(r)
  BY <1>k, <1>n, <1>d, <1>6 DEF CheckAvailable
<1>7. CASE InsertKey(r)
  <2>1. pc'[r] \in {"error", "found"}
    BY <1>7, <1>d DEF InsertKey
  <2>2. CASE keys[call[r].key] # Absent
    <3>1. UNCHANGED <<keys, overlapped, call, seen>>
      BY <1>7, <2>2 DEF InsertKey
    <3> QED BY <1>k, <1>n, <2>1, <3>1
  <2>3. CASE keys[call[r].key] = Absent
    <3>1. \E table : WriteKeys(r, table)
      BY <1>7, <2>3 DEF InsertKey
    <3> QED BY <1>w, <2>1, <3>1
  <2> QED BY <2>2, <2>3
<1>8. CASE ReadBack(r)
  BY <1>k, <1>n, <1>d, <1>8 DEF ReadBack
<1>9. CASE LockBootstrap(r)
  BY <1>k, <1>n, <1>d, <1>9 DEF LockBootstrap
<1>10. CASE CountBootstrap(r)
  BY <1>k, <1>n, <1>d, <1>10 DEF CountBootstrap
<1>11. CASE InsertFirstKey(r)
  <2>1. pc'[r] \in {"error", "after"}
    BY <1>11, <1>d DEF InsertFirstKey
  <2>2. CASE keys[call[r].key] # Absent
    <3>1. UNCHANGED <<keys, overlapped, call, seen>>
      BY <1>11, <2>2 DEF InsertFirstKey
    <3> QED BY <1>k, <1>n, <2>1, <3>1
  <2>3. CASE keys[call[r].key] = Absent
    <3>1. \E table : WriteKeys(r, table)
      BY <1>11, <2>3 DEF InsertFirstKey
    <3> QED BY <1>w, <2>1, <3>1
  <2> QED BY <2>2, <2>3
<1>12. CASE LoadKey(r)
  <2>1. /\ pc[r] = "load" /\ call[r].op \in {"get", "update"}
        /\ UNCHANGED <<keys, overlapped, call>>
    BY <1>12 DEF LoadKey
  <2>2. CASE pc'[r] \notin {"admins", "write"}
    <3>1. pc'[r] \in {"error", "after"}
      BY <1>12, <1>d, <2>2 DEF LoadKey
    <3> QED BY <1>k, <1>n, <2>1, <3>1
  <2>3. CASE pc'[r] \in {"admins", "write"}
    <3> DEFINE current == keys[call[r].key]
               patched == Patched(current, call[r].patch)
    <3>1. /\ call[r].op = "update" /\ seen' = [seen EXCEPT ![r] = patched]
          /\ pc' = [pc EXCEPT ![r] = IF IsActiveAdmin(current) /\ ~IsActiveAdmin(patched)
                                     THEN "admins" ELSE "write"]
      BY <1>12, <1>d, <2>1, <2>3 DEF LoadKey
    <3> HIDE DEF patched
    <3>2. seen'[r] = patched
      BY <3>1, <1>d
    <3>3. pc'[r] = "write" => ~(IsActiveAdmin(current) /\ ~IsActiveAdmin(patched))
      BY <3>1, <1>d
    <3>4. pc'[r] = "write" => UpdateKeepsOne(keys, call[r], patched)
      BY <3>3 DEF UpdateKeepsOne
    <3>5. ReadsAreFresh(keys, pc'[r], call[r], patched)
      BY <3>1, <3>4 DEF ReadsAreFresh
    <3> QED BY <1>k, <2>1, <2>3, <3>1, <3>2, <3>5
  <2> QED BY <2>2, <2>3
<1>13. CASE LoadKeyToDelete(r)
  <2>1. /\ pc[r] = "load" /\ call[r].op = "delete"
        /\ UNCHANGED <<keys, overlapped, call>>
    BY <1>13 DEF LoadKeyToDelete
  <2>2. PICK k \in call[r].ids \ DOMAIN seen[r] :
          LET loaded == [i \in DOMAIN seen[r] \cup {k} |-> IF i = k THEN keys[k] ELSE seen[r][i]]
          IN  IF DOMAIN loaded # call[r].ids
              THEN seen' = [seen EXCEPT ![r] = loaded] /\ UNCHANGED <<pc, status>>
              ELSE IF \E i \in DOMAIN loaded : loaded[i] = Absent
              THEN Answer(r, 404) /\ UNCHANGED seen
              ELSE /\ seen' = [seen EXCEPT ![r] = loaded]
                   /\ Goto(r, "admins") /\ UNCHANGED status
    BY <1>13 DEF LoadKeyToDelete
  <2> DEFINE loaded == [i \in DOMAIN seen[r] \cup {k} |-> IF i = k THEN keys[k] ELSE seen[r][i]]
  <2>3. r \notin overlapped =>
          /\ DOMAIN loaded \subseteq call[r].ids
          /\ \A i \in DOMAIN loaded : loaded[i] = keys[i]
          /\ loaded = [i \in DOMAIN loaded |-> keys[i]]
    BY <2>1 DEF ReadsAreFresh
  <2>4. \/ pc'[r] \in {"after", "error"}
        \/ pc'[r] = "load" /\ seen'[r] = loaded
        \/ pc'[r] = "admins" /\ seen'[r] = loaded /\ DOMAIN loaded = call[r].ids
    <3> HIDE DEF loaded
    <3>1. \/ pc' = [pc EXCEPT ![r] = IF 404 < 400 THEN "after" ELSE "error"]
          \/ pc' = pc /\ seen' = [seen EXCEPT ![r] = loaded]
          \/ pc' = [pc EXCEPT ![r] = "admins"] /\ seen' = [seen EXCEPT ![r] = loaded]
               /\ DOMAIN loaded = call[r].ids
      BY <2>2 DEF loaded
    <3> QED BY <1>d, <2>1, <3>1
  <2> HIDE DEF loaded
  <2>5. r \notin overlapped => ReadsAreFresh(keys, pc'[r], call[r], seen'[r])
    BY <1>n, <2>3, <2>4 DEF ReadsAreFresh
  <2> QED BY <1>k, <2>1, <2>4, <2>5
<1>14. CASE CountAdmins(r)
  <2>1. /\ pc[r] = "admins" /\ call[r].op \in {"update", "delete"}
        /\ UNCHANGED <<keys, overlapped, call, seen>>
    BY <1>14 DEF CountAdmins
  <2>2. CASE KeepsAnAdmin(r)
    <3>1. pc'[r] = "write"
      BY <1>14, <1>d, <2>2 DEF CountAdmins
    <3>2. call[r].op = "update" => UpdateKeepsOne(keys, call[r], seen[r])
      BY <2>2 DEF KeepsAnAdmin, UpdateKeepsOne
    <3>3. call[r].op = "delete" => DeleteKeepsOne(keys, seen[r])
      BY <2>2 DEF KeepsAnAdmin, DeleteKeepsOne
    <3>4. r \notin overlapped => ReadsAreFresh(keys, "write", call[r], seen[r])
      BY <2>1, <3>2, <3>3 DEF ReadsAreFresh
    <3> QED BY <1>k, <2>1, <3>1, <3>4
  <2>3. CASE ~KeepsAnAdmin(r)
    <3>1. pc'[r] = "error"
      BY <1>14, <1>d, <2>3 DEF CountAdmins
    <3> QED BY <1>k, <1>n, <2>1, <3>1
  <2> QED BY <2>2, <2>3
<1>15. CASE ChangeKeys(r)
  <2>1. pc'[r] \in {"error", "after"} /\ \E table : WriteKeys(r, table)
    BY <1>15, <1>d DEF ChangeKeys
  <2> QED BY <1>w, <2>1
<1>16. CASE StoreFails(r)
  BY <1>k, <1>n, <1>d, <1>16 DEF StoreFails
<1>17. CASE RecordAudit(r)
  BY <1>k, <1>n, <1>d, <1>17 DEF RecordAudit
<1> QED
  BY <1>1, <1>2, <1>3, <1>4, <1>5, <1>6, <1>7, <1>8, <1>9, <1>10, <1>11, <1>12, <1>13,
     <1>14, <1>15, <1>16, <1>17
     DEF AccessStep

-----------------------------------------------------------------------------
(***************************************************************************)
(* A step of the system is one of a request.                               *)
(***************************************************************************)
LEMMA NextIsAStep == AccessNext => \E r \in Requests : AccessStep(r)
BY DEF AccessNext, AccessStep

(***************************************************************************)
(* A new installation, or one in use, with no request yet.                 *)
(***************************************************************************)
LEMMA AccessBegins == AccessInit => TableInv /\ BootstrapInv /\ AuditInv /\ AdminInv
<1> SUFFICES ASSUME AccessInit
             PROVE  TableInv /\ BootstrapInv /\ AuditInv /\ AdminInv
  OBVIOUS
<1>1. IsTable(keys, Keys)
  BY DEF AccessInit, FirstKeys, IsTable
<1>2. TableInv
  BY <1>1, CallsKnown DEF AccessInit, TableInv, IsTable
<1>3. BootstrapInv
  BY DEF AccessInit, BootstrapInv
<1>4. AuditInv
  BY DEF AccessInit, AuditInv
<1>5. AdminInv
  BY DEF AccessInit, AdminInv, ReadsAreFresh
<1> QED BY <1>2, <1>3, <1>4, <1>5

(***************************************************************************)
(* The invariants hold always.                                             *)
(***************************************************************************)
LEMMA AccessInvariance == AccessSpec => [](TableInv /\ BootstrapInv /\ AuditInv /\ AdminInv)
<1> DEFINE Inv == TableInv /\ BootstrapInv /\ AuditInv /\ AdminInv
<1>1. AccessInit => Inv
  BY AccessBegins
<1>2. Inv /\ [AccessNext]_accessVars => Inv'
  <2>1. CASE Inv /\ AccessNext
    <3>1. PICK r \in Requests : AccessStep(r)
      BY <2>1, NextIsAStep
    <3> QED BY <2>1, <3>1, TableStep, BootstrapStep, AuditStep, AdminStep
  <2>2. CASE Inv /\ UNCHANGED accessVars
    BY <2>2 DEF TableInv, BootstrapInv, AuditInv, AdminInv, accessVars, MadeWithToken
  <2> QED BY <2>1, <2>2
<1> QED BY <1>1, <1>2, PTL DEF AccessSpec

(***************************************************************************)
(* Every request that authenticated and is done left one event, with the   *)
(* outcome its client saw, unless a write of the store failed.             *)
(***************************************************************************)
THEOREM EachRequestIsAuditedOnce == AccessSpec => []AuditedOnce
<1>1. AuditInv => AuditedOnce
  BY DEF AuditInv, AuditedOnce
<1> QED BY <1>1, AccessInvariance, PTL

(***************************************************************************)
(* Of the requests without a token that found no key, one at a time is     *)
(* between its count and its insert, and when it inserts there still is    *)
(* none that such a request has made.                                      *)
(***************************************************************************)
THEOREM FirstKeyIsMadeOnce == AccessSpec => BootstrapIsExclusive
<1> DEFINE Step ==
      \A r \in Requests :
        pc[r] = "first" /\ pc'[r] = "after" =>
          /\ \A o \in Requests \ {r} : pc[o] # "first"
          /\ Present(keys) = {} \/ \E o \in Requests : MadeWithToken(o)
<1>1. BootstrapInv => Step
  BY DEF BootstrapInv
<1>2. BootstrapInv /\ [AccessNext]_accessVars => [Step]_accessVars
  BY <1>1
<1> QED BY <1>2, AccessInvariance, PTL DEF AccessSpec, BootstrapIsExclusive

(***************************************************************************)
(* The keys are finitely many, and so are the active admins.               *)
(***************************************************************************)
LEMMA AdminsAreCounted ==
  ASSUME TableInv
  PROVE  /\ ActiveAdmins(keys) = {k \in Keys : IsActiveAdmin(keys[k])}
         /\ IsFiniteSet(ActiveAdmins(keys))
<1>1. ActiveAdmins(keys) = {k \in Keys : IsActiveAdmin(keys[k])}
  BY DEF TableInv, IsTable, ActiveAdmins
<1> QED BY <1>1, AccessConstants, FS_Subset

(***************************************************************************)
(* An update that was checked against the keys it is written to leaves an  *)
(* active admin.                                                           *)
(***************************************************************************)
LEMMA CheckedUpdateKeepsOne ==
  ASSUME TableInv, NEW c, NEW s, KnownCall(c), c.op = "update", UpdateKeepsOne(keys, c, s),
         ActiveAdmins(keys) # {}
  PROVE  ActiveAdmins([keys EXCEPT ![c.key] = IF keys[c.key] = Absent THEN keys[c.key] ELSE s]) # {}
<1> DEFINE new == [keys EXCEPT ![c.key] = IF keys[c.key] = Absent THEN keys[c.key] ELSE s]
<1>1. c.key \in Keys /\ keys = [k \in Keys |-> keys[k]]
  BY DEF KnownCall, TableInv, IsTable
<1>2. /\ DOMAIN new = Keys /\ \A k \in Keys : k # c.key => new[k] = keys[k]
      /\ new[c.key] = IF keys[c.key] = Absent THEN keys[c.key] ELSE s
  BY <1>1
<1> HIDE DEF new
<1>3. \E k \in Keys : IsActiveAdmin(new[k])
  <2>1. CASE \E k \in ActiveAdmins(keys) : k # c.key
    BY <1>2, <2>1, AdminsAreCounted
  <2>2. CASE \A k \in ActiveAdmins(keys) : k = c.key
    <3>1. ActiveAdmins(keys) = {c.key}
      BY <2>2
    <3>2. Cardinality(ActiveAdmins(keys)) = 1
      BY <3>1, FS_Singleton
    <3>3. IsActiveAdmin(keys[c.key])
      BY <3>1, AdminsAreCounted
    <3>4. ~(Cardinality(ActiveAdmins(keys)) > 1)
      BY <3>2
    <3>5. IsActiveAdmin(s)
      BY <3>3, <3>4 DEF UpdateKeepsOne
    <3>6. keys[c.key] # Absent
      BY <3>3 DEF IsActiveAdmin
    <3> QED BY <1>1, <1>2, <3>5, <3>6
  <2> QED BY <2>1, <2>2
<1> QED BY <1>2, <1>3 DEF ActiveAdmins, new

(***************************************************************************)
(* So does a removal of keys.                                              *)
(***************************************************************************)
LEMMA CheckedDeleteKeepsOne ==
  ASSUME TableInv, NEW ids \in SUBSET Keys, DeleteKeepsOne(keys, [k \in ids |-> keys[k]]),
         ActiveAdmins(keys) # {}
  PROVE  ActiveAdmins([k \in Keys |-> IF k \in ids THEN Absent ELSE keys[k]]) # {}
<1> DEFINE read == [k \in ids |-> keys[k]]
           gone == ActiveAdmins(read)
           new == [k \in Keys |-> IF k \in ids THEN Absent ELSE keys[k]]
<1>1. gone = {k \in ids : IsActiveAdmin(keys[k])}
  BY DEF ActiveAdmins
<1>2. gone \subseteq ActiveAdmins(keys)
  BY <1>1, AdminsAreCounted
<1>3. IsFiniteSet(gone) /\ IsFiniteSet(ActiveAdmins(keys))
  BY <1>2, AdminsAreCounted, FS_Subset
<1>4. \E k \in ActiveAdmins(keys) : k \notin ids
  <2> SUFFICES ASSUME ActiveAdmins(keys) \subseteq ids
               PROVE  FALSE
    OBVIOUS
  <2>1. gone = ActiveAdmins(keys)
    BY <1>1, AdminsAreCounted
  <2>2. Cardinality(gone) = 0 \/ Cardinality(ActiveAdmins(keys)) - Cardinality(gone) > 0
    BY DEF DeleteKeepsOne
  <2>3. Cardinality(gone) \in Nat
    BY <1>3, FS_CardinalityType
  <2> HIDE DEF gone
  <2>4. Cardinality(gone) = 0
    BY <2>1, <2>2, <2>3
  <2> QED BY <1>3, <2>1, <2>4, FS_EmptySet
<1>5. PICK k \in ActiveAdmins(keys) : k \notin ids
  BY <1>4
<1>6. k \in Keys /\ new[k] = keys[k] /\ IsActiveAdmin(keys[k])
  BY <1>5, AdminsAreCounted
<1> QED BY <1>6 DEF ActiveAdmins

(***************************************************************************)
(* A step after which there is no active admin any more is a change of     *)
(* keys, and of one among whose steps another change was written.          *)
(***************************************************************************)
LEMMA LastAdminStep ==
  ASSUME TableInv, AdminInv, NEW r \in Requests, AccessStep(r),
         ActiveAdmins(keys) # {}, ActiveAdmins(keys') = {}
  PROVE  r \in overlapped /\ pc[r] = "write" /\ pc'[r] # "write"
<1>t. IsTable(keys, Keys) /\ IsTable(pc, Requests)
  BY DEF TableInv
<1>a. \A k \in Keys : IsActiveAdmin(keys[k]) => keys[k] # Absent
  BY DEF IsActiveAdmin
<1>k. ASSUME NEW key, NEW v, keys[key] = Absent, keys' = [keys EXCEPT ![key] = v]
      PROVE  FALSE
  <2>1. PICK k \in Keys : IsActiveAdmin(keys[k])
    BY AdminsAreCounted
  <2>2. keys'[k] = keys[k] /\ k \in DOMAIN keys'
    BY <1>t, <1>a, <1>k, <2>1 DEF IsTable
  <2> QED BY <2>1, <2>2 DEF ActiveAdmins
<1>1. ChangeKeys(r)
  <2>1. keys' # keys
    OBVIOUS
  <2>2. ~InsertKey(r)
    BY <1>k, <2>1 DEF InsertKey, WriteKeys
  <2>3. ~InsertFirstKey(r)
    BY <1>k, <2>1 DEF InsertFirstKey, WriteKeys
  <2> QED BY <2>1, <2>2, <2>3
          DEF AccessStep, Receive, CheckConfigured, Authenticate, ReadRoute, CountForCreate,
              CheckAvailable, ReadBack, LockBootstrap, CountBootstrap, LoadKey,
              LoadKeyToDelete, CountAdmins, StoreFails, RecordAudit, storeVars
<1>2. pc[r] = "write" /\ pc'[r] # "write"
  BY <1>1, <1>t DEF ChangeKeys, Goto, Answer, IsTable
<1>3. r \in overlapped
  <2> SUFFICES ASSUME r \notin overlapped
               PROVE  FALSE
    OBVIOUS
  <2>1. call[r].op \in {"update", "delete"} /\ ReadsAreFresh(keys, "write", call[r], seen[r])
    BY <1>2 DEF AdminInv
  <2>2. KnownCall(call[r])
    BY DEF TableInv
  <2>3. CASE call[r].op = "update"
    <3>1. keys' = [keys EXCEPT ![call[r].key] =
                     IF keys[call[r].key] = Absent THEN keys[call[r].key] ELSE seen[r]]
      BY <1>1, <2>3 DEF ChangeKeys, WriteKeys
    <3>2. UpdateKeepsOne(keys, call[r], seen[r])
      BY <2>1, <2>3 DEF ReadsAreFresh
    <3> QED BY <2>2, <2>3, <3>1, <3>2, CheckedUpdateKeepsOne
  <2>4. CASE call[r].op = "delete"
    <3>1. keys' = [k \in Keys |-> IF k \in call[r].ids THEN Absent ELSE keys[k]]
      BY <1>1, <2>4 DEF ChangeKeys, WriteKeys
    <3>2. /\ DeleteKeepsOne(keys, [k \in call[r].ids |-> keys[k]])
          /\ call[r].ids \in SUBSET Keys
      BY <2>1, <2>2, <2>4 DEF ReadsAreFresh, KnownCall
    <3> QED BY <3>1, <3>2, CheckedDeleteKeepsOne
  <2> QED BY <2>1, <2>3, <2>4
<1> QED BY <1>2, <1>3

(***************************************************************************)
(* The last active admin is only removed by a change of keys that raced    *)
(* another one.                                                            *)
(***************************************************************************)
THEOREM LastAdminNeedsARaceHolds == AccessSpec => LastAdminNeedsARace
<1> DEFINE Step ==
      ActiveAdmins(keys) # {} /\ ActiveAdmins(keys') = {} =>
        \E r \in overlapped : pc[r] = "write" /\ pc'[r] # "write"
<1>1. TableInv /\ AdminInv /\ [AccessNext]_accessVars => [Step]_accessVars
  BY NextIsAStep, LastAdminStep
<1> QED BY <1>1, AccessInvariance, PTL DEF AccessSpec, LastAdminNeedsARace
=============================================================================
