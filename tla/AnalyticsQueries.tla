-------------------------- MODULE AnalyticsQueries --------------------------
(***************************************************************************)
(* Analytics over the transaction facts of finalized blocks.               *)
(*                                                                         *)
(* Three parties share the facts table and three configuration values:     *)
(*   - the indexer writes the facts of every block it applies, deletes     *)
(*     those of the blocks it rewinds and publishes the finalized tail;    *)
(*   - an operator's script recomputes the facts up to a height and then   *)
(*     declares the facts ready;                                           *)
(*   - the API answers queries of one API key, whose concurrency budget    *)
(*     they share.  Budgets of different keys are independent.             *)
(*                                                                         *)
(* The facts of a block are "rough" when it was applied while the history  *)
(* was being backfilled: outputs created before the window are not looked  *)
(* up then, so the input totals and fees of the facts are incomplete.      *)
(***************************************************************************)
EXTENDS Integers, FiniteSets

CONSTANTS
  Queries,        \* requests to the query route that may be in flight
  MaxConcurrent,  \* analyticsQueryMaxConcurrentRequests
  TopHeight,      \* the highest block of the bounded chain
  FactsDepth,     \* settings.coreReprocessDepth
  MaxScriptRuns,  \* bound on the runs of the backfill script
  MaxRewinds,     \* bound on the rewinds of the indexer
  Unset           \* a configuration value that was never written

ASSUME AnalyticsAssumption ==
  /\ IsFiniteSet(Queries)
  /\ MaxConcurrent \in Nat \ {0} /\ TopHeight \in Nat
  /\ FactsDepth \in Nat \ {0} /\ MaxScriptRuns \in Nat /\ MaxRewinds \in Nat
  /\ Unset \notin Int

VARIABLES
  facts,        \* the facts of each block: "none", "rough" or "exact"
  factTip,      \* state.processTail
  onlineStage,  \* whether the indexer has left the backfill stage
  indexer,      \* the indexer between two awaits of publishProgress
  finalTail,    \* the published finalized tail
  factsTail,    \* the published tail of the facts
  factsReady,   \* whether the facts were declared ready
  script,       \* the backfill script and the height it works through
  query,        \* what each request is about to do and what it has read
  activeQueries,\* activeQueries of the service
  scriptRuns, rewinds,
  owed,         \* the highest block whose facts a run of the script deleted and
                \* no run has inserted since, -1 when there is none
  highest       \* the highest tail the indexer has had

analyticsVars ==
  <<facts, factTip, onlineStage, indexer, finalTail, factsTail, factsReady,
    script, query, activeQueries, scriptRuns, rewinds, owed, highest>>

FactHeights == 0 .. TopHeight
NoQuery == [at |-> "idle", tail |-> Unset, ready |-> FALSE, factsTail |-> Unset]
NoScript == [at |-> "idle", through |-> Unset]
NoPublish == [at |-> "apply", ready |-> FALSE]

AnalyticsInit ==
  /\ facts = [h \in FactHeights |-> "none"]
  /\ factTip = -1
  /\ onlineStage = FALSE
  /\ indexer = NoPublish
  /\ finalTail = Unset /\ factsTail = Unset /\ factsReady = FALSE
  /\ script = NoScript
  /\ query = [q \in Queries |-> NoQuery]
  /\ activeQueries = 0
  /\ scriptRuns = 0 /\ rewinds = 0
  /\ owed = -1 /\ highest = -1

-----------------------------------------------------------------------------
(* The indexer.                                                            *)

\* A block is applied; its facts are resolved against the current state,
\* which exists from the online stage on.
ApplyFacts ==
  /\ indexer.at = "apply" /\ factTip < TopHeight
  /\ factTip' = factTip + 1
  /\ facts' = [facts EXCEPT ![factTip + 1] = IF onlineStage THEN "exact" ELSE "rough"]
  /\ highest' = IF factTip + 1 > highest THEN factTip + 1 ELSE highest
  /\ UNCHANGED <<onlineStage, indexer, finalTail, factsTail, factsReady, script,
                 query, activeQueries, scriptRuns, rewinds, owed>>

GoOnline ==
  /\ indexer.at = "apply" /\ ~onlineStage /\ factTip >= 0
  /\ onlineStage' = TRUE
  /\ UNCHANGED <<facts, factTip, indexer, finalTail, factsTail, factsReady, script,
                 query, activeQueries, scriptRuns, rewinds, owed, highest>>

\* A reorganisation: the facts from the fork on are deleted with the other rows, and
\* the tail falls below the fork.  The chain replaces no block that has been as deep as
\* the reprocess depth, also where the tail has fallen since.
RewindFacts ==
  /\ indexer.at = "apply" /\ onlineStage /\ rewinds < MaxRewinds
  /\ \E h \in FactHeights :
       /\ h <= factTip /\ h > highest - FactsDepth
       /\ facts' = [g \in FactHeights |-> IF g >= h THEN "none" ELSE facts[g]]
       /\ factTip' = h - 1
  /\ rewinds' = rewinds + 1
  /\ UNCHANGED <<onlineStage, indexer, finalTail, factsTail, factsReady, script,
                 query, activeQueries, scriptRuns, owed, highest>>

\* publishProgress first reads whether the facts are ready ...
ReadReadiness ==
  /\ indexer.at = "apply"
  /\ indexer' = [at |-> "publish", ready |-> factsReady]
  /\ UNCHANGED <<facts, factTip, onlineStage, finalTail, factsTail, factsReady, script,
                 query, activeQueries, scriptRuns, rewinds, owed, highest>>

FinalizedTailNoDepth == factTip
FinalizedTail == IF factTip < FactsDepth THEN -1 ELSE factTip - FactsDepth

\* ... and then writes the tails in one statement.
PublishProgress ==
  /\ indexer.at = "publish"
  /\ finalTail' = FinalizedTail
  /\ factsTail' = IF indexer.ready THEN FinalizedTail ELSE factsTail
  /\ indexer' = NoPublish
  /\ UNCHANGED <<facts, factTip, onlineStage, factsReady, script,
                 query, activeQueries, scriptRuns, rewinds, owed, highest>>

-----------------------------------------------------------------------------
(* The backfill script.                                                    *)

\* The height is an option of the script, or the published finalized tail.
StartBackfill ==
  /\ script = NoScript /\ scriptRuns < MaxScriptRuns
  /\ \E through \in FactHeights \cup {finalTail} :
       /\ through # Unset /\ through >= 0
       /\ script' = [at |-> "delete", through |-> through]
  /\ scriptRuns' = scriptRuns + 1
  /\ UNCHANGED <<facts, factTip, onlineStage, indexer, finalTail, factsTail, factsReady,
                 query, activeQueries, rewinds, owed, highest>>

DeleteFacts ==
  /\ script.at = "delete"
  /\ facts' = [h \in FactHeights |-> IF h <= script.through THEN "none" ELSE facts[h]]
  /\ script' = [script EXCEPT !.at = "insert"]
  /\ owed' = IF script.through > owed THEN script.through ELSE owed
  /\ UNCHANGED <<factTip, onlineStage, indexer, finalTail, factsTail, factsReady,
                 query, activeQueries, scriptRuns, rewinds, highest>>

\* The insert selects the outputs and spends of the applied blocks.
InsertFacts ==
  /\ script.at = "insert"
  /\ facts' = [h \in FactHeights |->
                 IF h <= script.through /\ h <= factTip THEN "exact" ELSE facts[h]]
  /\ script' = [script EXCEPT !.at = "tail"]
  /\ owed' = IF script.through >= owed THEN -1 ELSE owed
  /\ UNCHANGED <<factTip, onlineStage, indexer, finalTail, factsTail, factsReady,
                 query, activeQueries, scriptRuns, rewinds, highest>>

WriteFactsTail ==
  /\ script.at = "tail"
  /\ factsTail' = script.through
  /\ script' = [script EXCEPT !.at = "ready"]
  /\ UNCHANGED <<facts, factTip, onlineStage, indexer, finalTail, factsReady,
                 query, activeQueries, scriptRuns, rewinds, owed, highest>>

DeclareReady ==
  /\ script.at = "ready"
  /\ factsReady' = TRUE
  /\ script' = NoScript
  /\ UNCHANGED <<facts, factTip, onlineStage, indexer, finalTail, factsTail,
                 query, activeQueries, scriptRuns, rewinds, owed, highest>>

\* The script dies, or one of its statements fails, between two steps.
ScriptDies ==
  /\ script # NoScript
  /\ script' = NoScript
  /\ UNCHANGED <<facts, factTip, onlineStage, indexer, finalTail, factsTail, factsReady,
                 query, activeQueries, scriptRuns, rewinds, owed, highest>>

-----------------------------------------------------------------------------
(* The queries.                                                            *)

QueryUnchanged ==
  UNCHANGED <<facts, factTip, onlineStage, indexer, finalTail, factsTail, factsReady,
              script, scriptRuns, rewinds, owed, highest>>

ReleaseConcurrency == IF activeQueries <= 1 THEN 0 ELSE activeQueries - 1

\* Every end of a query that holds a slot, answered or not, gives it back.
Finish(q) ==
  /\ query' = [query EXCEPT ![q] = NoQuery]
  /\ activeQueries' = ReleaseConcurrency

\* A query refused by the rate limit or by the concurrency limit holds no
\* slot; one with an invalid time window has given its slot back before it
\* waits for anything.
RefuseReleasing(q) == Finish(q)
Refuse(q) == UNCHANGED <<query, activeQueries>>

Begin(q) ==
  /\ query[q] = NoQuery
  /\ \/ Refuse(q)
     \/ /\ activeQueries < MaxConcurrent
        /\ activeQueries' = activeQueries + 1
        /\ query' = [query EXCEPT ![q].at = "tail"]
  /\ QueryUnchanged

RequireFinalizedTail(q) ==
  /\ query[q].at = "tail"
  /\ IF finalTail = Unset
       THEN Finish(q)
       ELSE /\ query' = [query EXCEPT ![q].at = "ready", ![q].tail = finalTail]
            /\ UNCHANGED activeQueries
  /\ QueryUnchanged

\* assertAnalyticsReady reads the two values at once, in either order.
ReadReady(q) ==
  /\ query[q].at \in {"ready", "readyLast"}
  /\ query' = [query EXCEPT ![q].ready = factsReady,
                            ![q].at = IF @ = "ready" THEN "tailLast" ELSE "check"]
  /\ UNCHANGED activeQueries
  /\ QueryUnchanged

ReadFactsTail(q) ==
  /\ query[q].at \in {"ready", "tailLast"}
  /\ query' = [query EXCEPT ![q].factsTail = factsTail,
                            ![q].at = IF @ = "ready" THEN "readyLast" ELSE "check"]
  /\ UNCHANGED activeQueries
  /\ QueryUnchanged

\* The query goes on only over facts that are ready; an invalid statement, or
\* an estimate over the limits, ends it as well.
Preflight(q) ==
  /\ query[q].at = "check"
  /\ \E rejected \in BOOLEAN :
       LET r == query[q]
       IN  IF ~r.ready \/ r.factsTail = Unset \/ rejected
             THEN Finish(q)
             ELSE IF r.factsTail < r.tail
               THEN Finish(q)
               ELSE /\ query' = [query EXCEPT ![q].at = "execute"]
                    /\ UNCHANGED activeQueries
  /\ QueryUnchanged

\* The statement reads the facts up to the finalized tail it was given.
Execute(q) ==
  /\ query[q].at = "execute"
  /\ Finish(q)
  /\ QueryUnchanged

ReadBy(q) ==
  {facts[h] : h \in {g \in FactHeights : query[q].at = "execute" /\ g <= query[q].tail}}

-----------------------------------------------------------------------------
AnalyticsNext ==
  \/ ApplyFacts \/ GoOnline \/ RewindFacts \/ ReadReadiness \/ PublishProgress
  \/ StartBackfill \/ DeleteFacts \/ InsertFacts \/ WriteFactsTail \/ DeclareReady
  \/ ScriptDies
  \/ \E q \in Queries :
       \/ Begin(q) \/ RequireFinalizedTail(q) \/ ReadReady(q) \/ ReadFactsTail(q)
       \/ Preflight(q) \/ Execute(q)

AnalyticsSpec == AnalyticsInit /\ [][AnalyticsNext]_analyticsVars

-----------------------------------------------------------------------------
(* Properties.                                                             *)

\* A query that passed its checks reads the facts of every finalized block,
\* whatever the indexer, a reorganisation or the script does meanwhile, as long
\* as the script owes no block its facts.  It owes some during a run over facts
\* that were declared ready, and after a run that died between its delete and
\* its insert and was followed by one through a lower height
\* (backfillAnalyticsTransactionFacts).
OnlyTheScriptHidesFacts == owed = -1 => \A q \in Queries : "none" \notin ReadBy(q)

\* The queries in flight never exceed the limit and the count is of them
\* alone, so slots neither leak nor are given back twice
\* (acquireConcurrency, releaseConcurrency and the finally of query).
ConcurrencyIsExact ==
  LET running == {q \in Queries : query[q] # NoQuery}
  IN  activeQueries = Cardinality(running) /\ activeQueries <= MaxConcurrent
=============================================================================
