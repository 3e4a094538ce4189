---------------------------- MODULE MempoolCache ----------------------------
(***************************************************************************)
(* The mempool page of the explorer: requests share the promise of one     *)
(* load for a second.  A load that fails takes its entry out of the cache, *)
(* unless a later load has replaced it: a load can outlive its entry.      *)
(***************************************************************************)
EXTENDS Integers, Sequences

CONSTANTS
  TtlTicks,       \* mempoolCacheTtlMs
  MaxLoads,       \* bound on the loads
  MaxCacheClock   \* bound on the clock

ASSUME CacheAssumption ==
  {TtlTicks, MaxLoads, MaxCacheClock} \subseteq Nat \ {0}

VARIABLES
  cacheClock,
  loads,   \* the loads in the order they began: when, and their state
  entry,   \* the cached load, 0 for none
  joined   \* the last request: the load it was given, and its state then

cacheVars == <<cacheClock, loads, entry, joined>>

CacheInit ==
  /\ cacheClock = 0 /\ loads = <<>> /\ entry = 0
  /\ joined = [load |-> 0, state |-> "none"]

\* isFreshMempoolCacheEntry
Fresh == entry # 0 /\ loads[entry].began + TtlTicks > cacheClock

ListMempool ==
  /\ IF Fresh
       THEN /\ joined' = [load |-> entry, state |-> loads[entry].state]
            /\ UNCHANGED <<loads, entry>>
       ELSE /\ Len(loads) < MaxLoads
            /\ loads' = Append(loads, [began |-> cacheClock, state |-> "running"])
            /\ entry' = Len(loads) + 1
            /\ joined' = [load |-> Len(loads) + 1, state |-> "running"]
  /\ UNCHANGED cacheClock

LoadEnds ==
  /\ \E n \in DOMAIN loads :
       loads[n].state = "running" /\ loads' = [loads EXCEPT ![n].state = "loaded"]
  /\ UNCHANGED <<cacheClock, entry, joined>>

\* Variant: any failure empties the cache.
EntryDropped(n) == 0

\* deleteMempoolSnapshotIfCurrent
EntryAfterFailure(n) == IF entry = n THEN 0 ELSE entry

LoadFails ==
  /\ \E n \in DOMAIN loads :
       /\ loads[n].state = "running"
       /\ loads' = [loads EXCEPT ![n].state = "failed"]
       /\ entry' = EntryAfterFailure(n)
  /\ UNCHANGED <<cacheClock, joined>>

CacheTick ==
  /\ cacheClock < MaxCacheClock
  /\ cacheClock' = cacheClock + 1
  /\ UNCHANGED <<loads, entry, joined>>

CacheNext == ListMempool \/ LoadEnds \/ LoadFails \/ CacheTick
CacheSpec == CacheInit /\ [][CacheNext]_cacheVars

-----------------------------------------------------------------------------
\* The node is asked for its mempool at most once per lifetime of an entry,
\* but for loads that failed: the late failure of an earlier load does not
\* take out the entry of the one that replaced it (deleteMempoolSnapshotIfCurrent).
OneLoadPerLifetime ==
  \A m, n \in DOMAIN loads :
    m < n /\ loads[n].began < loads[m].began + TtlTicks => loads[m].state = "failed"

\* A request is never handed a load that had already failed
\* (getCachedMempoolSnapshot).
FailuresAreNotServed == joined.state # "failed"

\* Requests share one load per lifetime, and never one that has failed.
LoadsAreShared == OneLoadPerLifetime /\ FailuresAreNotServed
=============================================================================
