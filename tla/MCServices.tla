----------------------------- MODULE MCServices -----------------------------
(***************************************************************************)
(* What serves the API beside the indexer, checked side by side: mempool   *)
(* watches, access control, analytics queries, the rate limiter, the RPC   *)
(* gateway, transaction lookups and the mempool cache share no state, so a *)
(* behaviour is one of one of them.                                        *)
(***************************************************************************)
EXTENDS MempoolWatch, AccessControl, AnalyticsQueries, ApiKeyRateLimiter,
        RpcGateway, TransactionLookup, MempoolCache

VARIABLE part  \* the component the behaviour is about

\* Bound: of the watches, transactions come to two sessions, and a second one only
\* where no call fails, no time is over, and the second session is not being opened.
FewWatchEvents ==
  \/ came = {}
  \/ session[3] = "idle" /\ came \subseteq {1}
  \/ session[3] = "idle" /\ session[2] \in {"idle", "open"} /\ watchFaults = 0 /\ old = {}

\* Bound: of the facts, not two rewinds beside two runs of the script.
FewFactsChanges == scriptRuns + rewinds <= 3

Parts == {"watch", "access", "analytics", "limiter", "rpc", "lookup", "cache"}

allVars == <<part, watchVars, accessVars, analyticsVars, limiterVars, rpcVars,
             lookupVars, cacheVars>>

\* The other components stay in one of their initial states.
Init ==
  /\ part \in Parts
  /\ WatchInit /\ AnalyticsInit /\ LimiterInit /\ RpcInit /\ CacheInit
  /\ AccessInit /\ (part # "access" => keys = [k \in Keys |-> Absent])
  /\ LookupInit
  /\ part # "lookup" =>
       place = [fork \in {"old", "new"} |-> NoRef] /\ refsReady /\ processTail = Newest

Next ==
  \/ /\ part = "watch" /\ WatchNext /\ FewWatchEvents'
     /\ UNCHANGED <<part, accessVars, analyticsVars, limiterVars, rpcVars, lookupVars, cacheVars>>
  \/ /\ part = "access" /\ AccessNext
     /\ UNCHANGED <<part, watchVars, analyticsVars, limiterVars, rpcVars, lookupVars, cacheVars>>
  \/ /\ part = "analytics" /\ AnalyticsNext /\ FewFactsChanges'
     /\ UNCHANGED <<part, watchVars, accessVars, limiterVars, rpcVars, lookupVars, cacheVars>>
  \/ /\ part = "limiter" /\ LimiterNext
     /\ UNCHANGED <<part, watchVars, accessVars, analyticsVars, rpcVars, lookupVars, cacheVars>>
  \/ /\ part = "rpc" /\ RpcNext
     /\ UNCHANGED <<part, watchVars, accessVars, analyticsVars, limiterVars, lookupVars, cacheVars>>
  \/ /\ part = "lookup" /\ LookupNext
     /\ UNCHANGED <<part, watchVars, accessVars, analyticsVars, limiterVars, rpcVars, cacheVars>>
  \/ /\ part = "cache" /\ CacheNext
     /\ UNCHANGED <<part, watchVars, accessVars, analyticsVars, limiterVars, rpcVars, lookupVars>>

Spec == Init /\ [][Next]_allVars
=============================================================================
