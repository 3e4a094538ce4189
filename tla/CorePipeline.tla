---------------------------- MODULE CorePipeline ----------------------------
(***************************************************************************)
(* The three stages of the indexer, sync_backfill, process_backfill and    *)
(* online, the readiness flags the API reads, and the materialization of   *)
(* the current state that separates the last two.                          *)
(*                                                                         *)
(* The stage and the tails are one row of the metadata database, the flags *)
(* are rows of app_config, and no statement spans both.  Some writes wait  *)
(* for the flush of the database and some (the state row, the progress,    *)
(* the checkpoint of the materialization) do not: a crash of the database  *)
(* loses the newest of those, in commit order.                             *)
(*                                                                         *)
(* How one window of blocks is applied is CoreWindow's subject: here a     *)
(* window and the tail it publishes are one step.                          *)
(***************************************************************************)
EXTENDS Integers, FiniteSets, Sequences

CONSTANTS
  SyncSize,     \* settings.syncWindow
  ProcessSize,  \* blocks of a processed window
  SyncDistance, \* settings.coreSyncCompleteDistance
  TipDistance,  \* settings.coreOnlineTipDistance
  RangeCount,   \* output-key ranges of a materialization before parts merge
  StartHeight,  \* height of the node when the model starts
  MaxTip,       \* bound: highest block
  PipeFaults,   \* the kinds of faults
  MaxPipeFaults \* bound: number of faults

ASSUME PipelineConstants ==
  /\ SyncSize \in Nat \ {0} /\ ProcessSize \in Nat \ {0}
  /\ SyncDistance \in Nat /\ TipDistance \in Nat
  /\ RangeCount \in Nat \ {0}
  /\ StartHeight \in Nat /\ MaxTip \in Nat /\ StartHeight <= MaxTip
  /\ PipeFaults \subseteq {"death", "error", "metadata"}
  /\ MaxPipeFaults \in Nat

NoTail == -1
Tails  == NoTail .. MaxTip
Keys   == 1 .. RangeCount
Stages == {"none", "sync_backfill", "process_backfill", "online"}

VARIABLES
  nodeTip,    \* best height of the node
  state,      \* the row of core_indexer_state
  config,     \* the rows of app_config
  onDisk,     \* the <<state, config>> a crash of the metadata database leaves
  facts,      \* height the fact tables reach
  utxos,      \* utxos[k]: height the current UTXO rows of key k reflect
  balances,   \* the utxos the balances were aggregated from
  applied,    \* height the applied blocks reach
  merged,     \* parts have merged: the creates count as one range
  step,       \* what the process does next
  seen,       \* the state this iteration works on
  seenTip,    \* the height this iteration read from the node
  ready,      \* currentStateReady as this iteration read it
  refsKnown,  \* this.transactionRefsReady
  target,     \* the end of the window raw sync stores
  next,       \* where the publication of progress returns to
  tables,     \* tables still to be cleared
  ranges,     \* ranges of this materialization
  range,      \* ranges of it that are done
  resumed,    \* it resumed from a checkpoint
  writes,     \* config writes in flight (Promise.all)
  pipeFaults  \* faults so far

metadataVars == <<state, config, onDisk>>
warehouseVars == <<facts, utxos, balances, applied>>
workVars == <<seen, seenTip, ready, next, target, tables, ranges, range, resumed, writes>>
pipeVars == <<nodeTip, metadataVars, warehouseVars, merged, step, workVars,
              refsKnown, pipeFaults>>

NoState      == [stage |-> "none", sync |-> NoTail, process |-> NoTail,
                 tip |-> NoTail, failed |-> FALSE]
NoCheckpoint == [asOf |-> NoTail, done |-> 0, of |-> 0]
NoRows       == [k \in Keys |-> NoTail]
AllAt(h)     == [k \in Keys |-> h]
Least(a, b)  == IF a < b THEN a ELSE b

PipeInit ==
  /\ nodeTip = StartHeight
  /\ state = NoState
  \* raw blocks stored before the state row existed are kept
  /\ config \in {[stage |-> "none", syncTail |-> t, processTail |-> NoTail,
                  factTail |-> NoTail, current |-> FALSE, history |-> FALSE,
                  refs |-> FALSE, checkpoint |-> NoCheckpoint] :
                 t \in {NoTail, 0}}
  /\ onDisk = <<state, config>>
  /\ facts = NoTail /\ utxos = NoRows /\ balances = NoRows /\ applied = NoTail
  /\ merged = FALSE
  /\ step = "idle" /\ seen = NoState /\ seenTip = NoTail /\ ready = FALSE
  /\ refsKnown = FALSE
  /\ target = NoTail /\ next = "idle" /\ tables = <<>> /\ ranges = 0 /\ range = 0 /\ resumed = FALSE
  /\ writes = {}
  /\ pipeFaults = 0

-----------------------------------------------------------------------------
(* Writes of the metadata database                                         *)

\* A write that waits for the flush: it takes every earlier write with it.
Durably(s, c) == state' = s /\ config' = c /\ onDisk' = <<s, c>>

\* executeRelaxed: the write is on disk now, or some time later.
Relaxed(s, c) ==
  /\ state' = s /\ config' = c
  /\ onDisk' \in {onDisk, <<s, c>>}

\* upsertCoreIndexerState({stage, onlineTip})
ToStage(s) == [state EXCEPT !.stage = s, !.tip = seenTip]

-----------------------------------------------------------------------------
(* The head of an iteration: runDogecoinConfig                             *)

\* getBlockHeight; the recovery of a pending window is CoreWindow's.
BeginIteration ==
  /\ step = "idle"
  /\ seenTip' = nodeTip
  /\ step' = "ensure"
  /\ UNCHANGED <<nodeTip, metadataVars, warehouseVars, merged, seen, ready, next, target, tables,
                 ranges, range, resumed, writes, refsKnown, pipeFaults>>

EnsureState ==
  /\ step = "ensure"
  /\ IF state.stage = "none"
     THEN Relaxed([stage |-> "sync_backfill", sync |-> Least(config.syncTail, seenTip),
                   process |-> NoTail, tip |-> seenTip, failed |-> FALSE], config)
     ELSE UNCHANGED metadataVars
  /\ seen' = state'
  /\ step' = "refs"
  /\ UNCHANGED <<nodeTip, warehouseVars, merged, seenTip, ready, next, target, tables, ranges,
                 range, resumed, writes, refsKnown, pipeFaults>>

HasProcessedEverySynced(s) == s.sync >= 0 /\ s.process >= s.sync

MarkTransactionRefsReady ==
  /\ step = "refs"
  /\ IF refsKnown \/ ~HasProcessedEverySynced(seen)
     THEN UNCHANGED <<metadataVars, refsKnown>>
     ELSE /\ IF config.refs THEN UNCHANGED metadataVars
             ELSE Durably(state, [config EXCEPT !.refs = TRUE])
          /\ refsKnown' = TRUE
  /\ step' = "publish" /\ next' = "stage"
  /\ UNCHANGED <<nodeTip, warehouseVars, merged, seen, seenTip, ready, target, tables, ranges,
                 range, resumed, writes, pipeFaults>>

\* progressEntries: the tails of the state in hand, the fact tail only when
\* the history is ready.
Progress(s) ==
  [config EXCEPT !.stage = s.stage, !.syncTail = s.sync, !.processTail = s.process,
                 !.factTail = IF config.history THEN s.process ELSE @]

PublishProgress ==
  /\ step = "publish"
  /\ Relaxed(state, Progress(seen))
  /\ step' = next
  /\ UNCHANGED <<nodeTip, warehouseVars, merged, workVars, refsKnown, pipeFaults>>

-----------------------------------------------------------------------------
(* Raw sync, in sync_backfill and online                                   *)

SyncEnd == Least(seenTip, seen.sync + SyncSize)

\* shouldPromoteToProcessBackfill
SyncComplete == seen.sync >= 0 /\ seen.sync >= seenTip - SyncDistance

StartProcessing ==
  /\ step = "stage" /\ seen.stage = "sync_backfill" /\ SyncComplete
  /\ Relaxed(ToStage("process_backfill"), config)
  /\ step' = "announce"
  /\ UNCHANGED <<nodeTip, warehouseVars, merged, workVars, refsKnown, pipeFaults>>

\* setJsonValue(configKeyIndexerStage(), ...) after a change of stage
AnnounceStage ==
  /\ step = "announce"
  /\ Durably(state, [config EXCEPT !.stage = state.stage])
  /\ step' = "idle"
  /\ UNCHANGED <<nodeTip, warehouseVars, merged, workVars, refsKnown, pipeFaults>>

\* shouldRefreshOnlineReprocessWindow
NeedsSync ==
  \/ seen.stage = "sync_backfill" /\ ~SyncComplete
  \/ seen.stage = "online"
     /\ (seen.sync < SyncEnd \/ seen.sync < seenTip \/ seen.tip # seenTip)

Synced(h) == [state EXCEPT !.stage = seen.stage, !.sync = h, !.tip = seenTip,
                           !.failed = FALSE]

\* syncRawBlockWindow, syncOnlineBacklogIfNeeded: the end of the window is
\* fixed before the first block is stored.
StartSync ==
  /\ step = "stage" /\ NeedsSync
  /\ target' = SyncEnd
  /\ step' = "sync"
  /\ UNCHANGED <<nodeTip, metadataVars, warehouseVars, merged, seen, seenTip, ready, next,
                 tables, ranges, range, resumed, writes, refsKnown, pipeFaults>>

\* checkpointSyncTail: raw sync reports a frontier inside the window.
CheckpointSyncTail ==
  /\ step = "sync"
  /\ \E reported \in seen.sync + 1 .. target - 1 :
       /\ Relaxed(Synced(reported), config)
       /\ seen' = [seen EXCEPT !.sync = reported]
  /\ UNCHANGED <<nodeTip, warehouseVars, merged, step, seenTip, ready, next, target,
                 tables, ranges, range, resumed, writes, refsKnown, pipeFaults>>

\* syncRawBlockHeights: every block up to the target is stored.
SyncWindowDone ==
  /\ step = "sync"
  /\ Relaxed(Synced(target), config)
  /\ seen' = state'
  /\ step' = "publish"
  /\ next' = IF seen.stage = "online" THEN "process" ELSE "idle"
  /\ UNCHANGED <<nodeTip, warehouseVars, merged, seenTip, ready, target, tables, ranges,
                 range, resumed, writes, refsKnown, pipeFaults>>

-----------------------------------------------------------------------------
(* Windows of blocks                                                       *)

\* A window of CoreWindow up to height h: the recovery marker is flushed, the
\* rows are written, the current-state tables when they are kept, and the tail
\* is published last.
Window(h, current, stage) ==
  /\ state' = [state EXCEPT !.stage = stage, !.process = h, !.tip = seenTip,
                            !.failed = FALSE]
  /\ config' = Progress(state')
  /\ onDisk' \in {<<state, config>>, <<state', config>>, <<state', config'>>}
  /\ facts' = h
  /\ IF current
     THEN utxos' = AllAt(h) /\ balances' = AllAt(h) /\ applied' = h
     ELSE UNCHANGED <<utxos, balances, applied>>

\* processBackfill reads the flag before it chooses between a window and the
\* end of the backfill.
ReadCurrentStateReady ==
  /\ step = "stage" /\ seen.stage = "process_backfill"
  /\ ready' = config.current
  /\ step' = "backfill"
  /\ UNCHANGED <<nodeTip, metadataVars, warehouseVars, merged, seen, seenTip, next, target,
                 tables, ranges, range, resumed, writes, refsKnown, pipeFaults>>

ProcessBackfillWindow ==
  /\ step = "backfill" /\ seen.process < seen.sync
  /\ Window(Least(seen.sync, seen.process + ProcessSize), ready, "process_backfill")
  /\ step' = "idle"
  /\ UNCHANGED <<nodeTip, merged, workVars, refsKnown, pipeFaults>>

\* shouldPromoteBackfill
ShouldPromoteBackfill ==
  \/ seen.process >= seenTip - TipDistance
  \/ ~ready /\ config.checkpoint.of > 0 /\ config.checkpoint.asOf = seen.process

\* Variant: only the config key goes back to sync_backfill.
ReturnWithoutRow ==
  /\ step = "backfill" /\ seen.process >= seen.sync /\ ~ShouldPromoteBackfill
  /\ Durably(state, [config EXCEPT !.stage = "sync_backfill"])
  /\ step' = "idle"
  /\ UNCHANGED <<nodeTip, warehouseVars, merged, workVars, refsKnown, pipeFaults>>

ReturnBackfillToSync ==
  /\ step = "backfill" /\ seen.process >= seen.sync /\ ~ShouldPromoteBackfill
  /\ Relaxed(ToStage("sync_backfill"), config)
  /\ step' = "announce"
  /\ UNCHANGED <<nodeTip, warehouseVars, merged, workVars, refsKnown, pipeFaults>>

\* processOnlineBacklogIfNeeded, on the row read again after raw sync.  A
\* window that was synced is processed also when no block is new.
OnlineTarget == Least(state.sync, seenTip)
ProcessOnlineWindow ==
  /\ \/ step = "process"
     \/ step = "stage" /\ seen.stage = "online" /\ ~NeedsSync
        /\ state.process < OnlineTarget
  /\ Window(IF state.process < OnlineTarget
            THEN Least(OnlineTarget, state.process + ProcessSize)
            ELSE OnlineTarget, config.current, "online")
  /\ step' = "idle"
  /\ UNCHANGED <<nodeTip, merged, workVars, refsKnown, pipeFaults>>

\* publishOnlineNoWorkIfPossible
OnlineNoWork ==
  /\ step = "stage" /\ seen.stage = "online" /\ ~NeedsSync
  /\ state.process >= OnlineTarget
  /\ LET current == seen.sync >= seenTip /\ config.current /\ seen.process >= seenTip
         isReady == seen.tip = seenTip /\ ~seen.failed
     IN  IF current /\ ~isReady THEN Relaxed(ToStage("online"), config)
         ELSE UNCHANGED metadataVars
  /\ seen' = state'
  /\ step' = "publish" /\ next' = "idle"
  /\ UNCHANGED <<nodeTip, warehouseVars, merged, seenTip, ready, target, tables, ranges,
                 range, resumed, writes, refsKnown, pipeFaults>>

-----------------------------------------------------------------------------
(* The materialization of the current state                                *)

\* Variant: the number of ranges may have changed since the checkpoint.
ResumeAnyCount(n) ==
  IF config.checkpoint.asOf = seen.process THEN Least(config.checkpoint.done, n) ELSE 0

\* materializationResumePoint, resumableCompletedRanges
ResumableRanges(n) ==
  IF config.checkpoint.of = n /\ config.checkpoint.asOf = seen.process
  THEN config.checkpoint.done ELSE 0

\* coreCurrentStateRanges: as many ranges as the parts of the creates ask for.
RangesNow == IF merged THEN 1 ELSE RangeCount
KeysOf(r, n) == IF n = 1 THEN Keys ELSE {r}

StartMaterialization ==
  /\ step = "backfill" /\ seen.process >= seen.sync /\ ShouldPromoteBackfill /\ ~ready
  /\ ranges' = RangesNow
  /\ range' = ResumableRanges(RangesNow)
  /\ resumed' = (range' > 0)
  /\ tables' = IF resumed' THEN <<>> ELSE <<"utxos", "balances", "applied">>
  /\ step' = "clear"
  /\ UNCHANGED <<nodeTip, metadataVars, warehouseVars, merged, seen, seenTip, ready, next,
                 target, writes, refsKnown, pipeFaults>>

\* clearCoreDogecoinCurrentState, clearCoreDerivedState: table after table.
ClearTable ==
  /\ step = "clear" /\ tables # <<>>
  /\ utxos' = IF Head(tables) = "utxos" THEN NoRows ELSE utxos
  /\ balances' = IF Head(tables) = "balances" THEN NoRows ELSE balances
  /\ applied' = IF Head(tables) = "applied" THEN NoTail ELSE applied
  /\ tables' = Tail(tables)
  /\ UNCHANGED <<nodeTip, metadataVars, facts, merged, step, seen, seenTip, ready, next,
                 target, ranges, range, resumed, writes, refsKnown, pipeFaults>>

\* insertCoreCurrentUtxoRanges: one range.
InsertRange ==
  /\ step = "clear" /\ tables = <<>> /\ range < ranges
  /\ utxos' = [k \in Keys |-> IF k \in KeysOf(range + 1, ranges) THEN seen.process
                               ELSE utxos[k]]
  /\ step' = "checkpoint"
  /\ UNCHANGED <<nodeTip, metadataVars, facts, balances, applied, merged, workVars,
                 refsKnown, pipeFaults>>

\* onRangeCompleted, and the heartbeat that may refresh the state row.
CheckpointRange ==
  /\ step = "checkpoint"
  /\ \E heartbeat \in BOOLEAN :
       Relaxed(IF heartbeat THEN [state EXCEPT !.tip = seenTip, !.failed = FALSE]
               ELSE state,
               [config EXCEPT !.checkpoint = [asOf |-> seen.process, done |-> range + 1,
                                              of |-> ranges]])
  /\ range' = range + 1
  /\ step' = "clear"
  /\ UNCHANGED <<nodeTip, warehouseVars, merged, seen, seenTip, ready, next, target,
                 tables, ranges, resumed, writes, refsKnown, pipeFaults>>

\* The ranges are done: after a resume the derived tables are cleared first.
RangesDone ==
  /\ step = "clear" /\ tables = <<>> /\ range = ranges
  /\ tables' = IF resumed THEN <<"balances", "applied">> ELSE <<>>
  /\ step' = "derive"
  /\ UNCHANGED <<nodeTip, metadataVars, warehouseVars, merged, seen, seenTip, ready, next,
                 target, ranges, range, resumed, writes, refsKnown, pipeFaults>>

ClearDerived ==
  /\ step = "derive" /\ tables # <<>>
  /\ balances' = IF Head(tables) = "balances" THEN NoRows ELSE balances
  /\ applied' = IF Head(tables) = "applied" THEN NoTail ELSE applied
  /\ tables' = Tail(tables)
  /\ UNCHANGED <<nodeTip, metadataVars, facts, utxos, merged, step, seen, seenTip, ready,
                 next, target, ranges, range, resumed, writes, refsKnown, pipeFaults>>

\* insertCoreCurrentBalances
InsertBalances ==
  /\ step = "derive" /\ tables = <<>>
  /\ balances' = utxos
  /\ step' = "apply"
  /\ UNCHANGED <<nodeTip, metadataVars, facts, utxos, applied, merged, workVars,
                 refsKnown, pipeFaults>>

\* insertCoreAppliedBlocks
InsertAppliedBlocks ==
  /\ step = "apply"
  /\ applied' = seen.process
  /\ writes' = {"current", "noHistory"}
  /\ step' = "flags"
  /\ UNCHANGED <<nodeTip, metadataVars, facts, utxos, balances, merged, seen, seenTip,
                 ready, next, target, tables, ranges, range, resumed, refsKnown, pipeFaults>>

\* The config writes of a Promise.all land in any order.
Written(w) ==
  CASE w = "current"   -> [config EXCEPT !.current = TRUE]
    [] w = "noHistory" -> [config EXCEPT !.history = FALSE]
    [] w = "stage"     -> [config EXCEPT !.stage = "online"]
    [] w = "history"   -> [config EXCEPT !.history = TRUE]
    [] w = "factTail"  -> [config EXCEPT !.factTail = seen.process]

WriteFlag ==
  /\ step \in {"flags", "promoted"}
  /\ \E w \in writes :
       /\ Durably(state, Written(w))
       /\ writes' = writes \ {w}
  /\ UNCHANGED <<nodeTip, warehouseVars, merged, step, seen, seenTip, ready, next, target,
                 tables, ranges, range, resumed, refsKnown, pipeFaults>>

\* deleteByPrefix(configKeyDogecoinCurrentStateMaterialization())
DropCheckpoint ==
  /\ step = "flags" /\ writes = {}
  /\ Durably(state, [config EXCEPT !.checkpoint = NoCheckpoint])
  /\ step' = "promote"
  /\ UNCHANGED <<nodeTip, warehouseVars, merged, workVars, refsKnown, pipeFaults>>

\* promoteBackfillToOnline
PromoteToOnline ==
  /\ \/ step = "promote"
     \/ step = "backfill" /\ seen.process >= seen.sync /\ ShouldPromoteBackfill /\ ready
  /\ Relaxed([ToStage("online") EXCEPT !.failed = FALSE], config)
  /\ writes' = {"stage", "history", "factTail"}
  /\ step' = "promoted"
  /\ UNCHANGED <<nodeTip, warehouseVars, merged, seen, seenTip, ready, next, target,
                 tables, ranges, range, resumed, refsKnown, pipeFaults>>

Promoted ==
  /\ step = "promoted" /\ writes = {}
  /\ step' = "idle"
  /\ UNCHANGED <<nodeTip, metadataVars, warehouseVars, merged, workVars, refsKnown,
                 pipeFaults>>

PipeStep ==
  \/ BeginIteration \/ EnsureState \/ MarkTransactionRefsReady \/ PublishProgress
  \/ StartProcessing \/ AnnounceStage
  \/ StartSync \/ CheckpointSyncTail \/ SyncWindowDone
  \/ ReadCurrentStateReady \/ ProcessBackfillWindow \/ ReturnBackfillToSync
  \/ ProcessOnlineWindow \/ OnlineNoWork
  \/ StartMaterialization \/ ClearTable \/ InsertRange \/ CheckpointRange
  \/ RangesDone \/ ClearDerived \/ InsertBalances \/ InsertAppliedBlocks
  \/ WriteFlag \/ DropCheckpoint \/ PromoteToOnline \/ Promoted

-----------------------------------------------------------------------------
(* The environment                                                         *)

PipeFault(kind) ==
  /\ kind \in PipeFaults /\ pipeFaults < MaxPipeFaults
  /\ pipeFaults' = pipeFaults + 1

\* What an iteration holds in its variables is gone.
ForgetWork ==
  /\ seen' = NoState /\ ready' = FALSE /\ next' = "idle" /\ tables' = <<>>
  /\ target' = NoTail /\ ranges' = 0 /\ range' = 0 /\ resumed' = FALSE /\ writes' = {}
  /\ seenTip' = NoTail
  /\ step' = "idle"

\* The node finds a block.
NodeAdvances ==
  /\ nodeTip < MaxTip
  /\ nodeTip' = nodeTip + 1
  /\ UNCHANGED <<metadataVars, warehouseVars, merged, step, workVars, refsKnown, pipeFaults>>

\* The parts of the creates merge: fewer rows, fewer ranges.
MergeParts ==
  /\ ~merged /\ facts # NoTail
  /\ merged' = TRUE
  /\ UNCHANGED <<nodeTip, metadataVars, warehouseVars, step, workVars, refsKnown, pipeFaults>>

\* setCoreIndexerError: the upsert creates the row when there is none.
WithError ==
  [state EXCEPT !.stage = IF @ = "none" THEN "sync_backfill" ELSE @, !.failed = TRUE]

\* The process is killed.
ProcessDies ==
  /\ PipeFault("death")
  /\ ForgetWork
  /\ refsKnown' = FALSE
  /\ UNCHANGED <<nodeTip, metadataVars, warehouseVars, merged>>

\* A watchdog ends the process: assertProgressWatchdog, exitForCoreBlockTimeout.
HasCoreWorkBacklog(s) ==
  CASE s.stage = "sync_backfill"    -> s.sync < seenTip - SyncDistance
    [] s.stage = "process_backfill" -> s.process < s.sync
    [] s.stage = "online"           -> s.sync < seenTip \/ s.process < s.sync

WatchdogExpires ==
  /\ step = "stage"
  /\ ~(seen.stage = "online" /\ config.current) /\ HasCoreWorkBacklog(seen)
  /\ PipeFault("death")
  /\ Relaxed(WithError, config)
  /\ ForgetWork
  /\ refsKnown' = FALSE
  /\ UNCHANGED <<nodeTip, warehouseVars, merged>>

\* A call throws: the error is recorded and the loop starts over.
IterationFails ==
  /\ step # "idle"
  /\ PipeFault("error")
  /\ Relaxed(WithError, config)
  /\ ForgetWork
  /\ UNCHANGED <<nodeTip, warehouseVars, merged, refsKnown>>

\* The metadata database crashes: what was not flushed is lost.
MetadataCrashes ==
  /\ PipeFault("metadata")
  /\ state' = onDisk[1] /\ config' = onDisk[2] /\ onDisk' = onDisk
  /\ ForgetWork
  /\ UNCHANGED <<nodeTip, warehouseVars, merged, refsKnown>>

PipeNext ==
  \/ PipeStep
  \/ NodeAdvances \/ MergeParts
  \/ ProcessDies \/ WatchdogExpires \/ IterationFails \/ MetadataCrashes

\* The loop takes its next step: every call has a deadline (withTimeout, the
\* statement timeouts), so none waits for ever.
PipeSpec == PipeInit /\ [][PipeNext]_pipeVars /\ WF_pipeVars(PipeStep)

-----------------------------------------------------------------------------

\* Every variable holds a value of its type.
PipeTypeOK ==
  /\ nodeTip \in 0 .. MaxTip /\ seenTip \in Tails /\ facts \in Tails
  /\ state.stage \in Stages /\ {state.sync, state.process, state.tip} \subseteq Tails
  /\ config.checkpoint.done <= config.checkpoint.of
  /\ utxos \in [Keys -> Tails] /\ balances \in [Keys -> Tails] /\ applied \in Tails
  /\ range <= ranges /\ ranges <= RangeCount

\* When the current state is declared ready, every key range, the balances
\* aggregated from them and the applied blocks are at the height of the fact
\* tables, whatever attempts at the materialization failed, resumed or were
\* started over.
ReadyStateIsComplete ==
  config.current => utxos = AllAt(facts) /\ balances = AllAt(facts) /\ applied = facts

\* History is only served from a warehouse whose current state is ready and
\* whose indexer has gone online, also after a crash of the metadata database.
HistoryIsServedOnline ==
  config.history => state.stage = "online" /\ config.current

\* What the API reads as sync, process and fact tails was reached: a published
\* tail is never ahead of the state row, and blocks are processed only when
\* they are synced.
PublishedTailsAreReached ==
  state.stage # "none" =>
    /\ config.syncTail <= state.sync \/ config.stage = "none"
    /\ config.processTail <= state.process /\ config.factTail <= state.process
    /\ state.process <= state.sync

\* What the indexer publishes to the API holds: the two readiness flags and the
\* tails, in every state that the stages, their failures, the deaths of the
\* process and the commits a crash of the metadata database takes back lead to.
PublishedStateHolds ==
  ReadyStateIsComplete /\ HistoryIsServedOnline /\ PublishedTailsAreReached

\* The indexer goes online and processes what the node has, however the stages
\* were interrupted and however the tip moved meanwhile.
ReachesTheTip ==
  <>[](state.stage = "online" /\ config.current /\ state.process = nodeTip)

\* Once online, the history becomes readable: the runbook's healthy state.
HistoryBecomesReady == state.stage = "online" ~> config.history
=============================================================================
