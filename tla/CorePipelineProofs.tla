------------------------- MODULE CorePipelineProofs -------------------------
(***************************************************************************)
(* What is proved of CorePipeline for every value of its constants: the    *)
(* readiness flags and the tails that the API reads hold in every state    *)
(* that the stages, their failures, deaths of the process and crashes of   *)
(* the metadata database lead to.                                          *)
(***************************************************************************)
EXTENDS CorePipeline, TLAPS

Steps == {"idle", "ensure", "refs", "publish", "stage", "announce", "sync", "process",
          "backfill", "clear", "checkpoint", "derive", "apply", "flags", "promote", "promoted"}

State == [stage : Stages, sync : Tails, process : Tails, tip : Tails, failed : BOOLEAN]

Checkpoint == [asOf : Tails, done : 0 .. RangeCount, of : 0 .. RangeCount]

Config == [stage : Stages, syncTail : Tails, processTail : Tails, factTail : Tails,
           current : BOOLEAN, history : BOOLEAN, refs : BOOLEAN, checkpoint : Checkpoint]

MetadataTypeOK ==
  /\ state \in State /\ config \in Config /\ onDisk \in State \X Config

WarehouseTypeOK ==
  /\ facts \in Tails /\ applied \in Tails
  /\ utxos \in [Keys -> Tails] /\ balances \in [Keys -> Tails]

WorkTypeOK ==
  /\ nodeTip \in 0 .. MaxTip /\ merged \in BOOLEAN
  /\ step \in Steps /\ next \in {"idle", "stage", "process"}
  /\ seen \in State /\ seenTip \in Tails /\ target \in Tails /\ ready \in BOOLEAN
  /\ ranges \in 0 .. RangeCount /\ range \in 0 .. RangeCount /\ range <= ranges

-----------------------------------------------------------------------------
(***************************************************************************)
(* What holds of a state row and the config rows that were committed with  *)
(* it, in memory and on disk: the tails were reached, the history is       *)
(* served online only, and a checkpoint is not of blocks to come.          *)
(***************************************************************************)
PairHolds(s, c) ==
  /\ c.processTail <= s.process /\ c.factTail <= s.process /\ s.process <= s.sync
  /\ c.syncTail <= s.sync \/ c.stage = "none"
  /\ c.history => s.stage = "online" /\ c.current
  /\ c.checkpoint.asOf <= s.process
  /\ c.checkpoint.done <= c.checkpoint.of
  /\ c.checkpoint.of \in {0, RangesNow, RangeCount}
  /\ s.stage = "none" => s.sync = NoTail /\ s.process = NoTail

\* The checkpoint a materialization at the height of the facts would resume.
Resumable(k) == k.of = RangesNow /\ k.asOf = facts /\ k.done > 0

\* The first ranges of a materialization are at the height of the facts.
Filled(done, of) == \A r \in 1 .. done : \A k \in KeysOf(r, of) : utxos[k] = facts

(***************************************************************************)
(* What a crash of the metadata database can take back: the tails on disk  *)
(* enclose the facts, the flag is on disk only when it is set, and what    *)
(* would be resumed from disk would be resumed from memory.                *)
(***************************************************************************)
CommitOrder ==
  /\ PairHolds(state, config) /\ PairHolds(onDisk[1], onDisk[2])
  /\ onDisk[1].process <= state.process /\ state.process <= facts
  /\ facts <= onDisk[1].sync /\ onDisk[1].sync <= state.sync /\ state.sync <= nodeTip
  /\ onDisk[2].current => config.current
  /\ Resumable(onDisk[2].checkpoint) => Resumable(config.checkpoint)
  /\ Resumable(config.checkpoint) => Filled(config.checkpoint.done, config.checkpoint.of)
  /\ Resumable(onDisk[2].checkpoint) =>
       Filled(onDisk[2].checkpoint.done, onDisk[2].checkpoint.of)

(***************************************************************************)
(* What the process has in hand is what the row says, from the step that   *)
(* reads it to the one that changes the stage.                             *)
(***************************************************************************)
WorkHolds ==
  /\ step # "idle" => state.sync <= seenTip /\ seenTip <= nodeTip
  /\ step \notin {"idle", "ensure"} =>
       /\ seen.sync = state.sync /\ seen.process = state.process
       /\ seen.stage # "none" /\ state.stage # "none"
  /\ step \notin {"idle", "ensure", "announce", "promoted"} => seen.stage = state.stage
  /\ step \notin {"idle", "ensure", "refs", "publish"} => config.stage # "none"
  /\ step = "sync" => seen.sync <= target /\ target <= seenTip
  /\ step = "backfill" => seen.stage = "process_backfill" /\ (ready <=> config.current)
  /\ step = "flags" =>
       writes \subseteq {"current", "noHistory"} /\ ("current" \notin writes => config.current)
  /\ step \in {"promote", "promoted"} => config.current
  /\ step = "promoted" => state.stage = "online" /\ writes \subseteq {"stage", "history", "factTail"}

(***************************************************************************)
(* A materialization works at the height of the facts, on ranges of which  *)
(* the first ones are done; what it does not clear it may resume.          *)
(***************************************************************************)
Materializing == {"clear", "checkpoint", "derive", "apply"}

MaterializationHolds ==
  /\ step \in Materializing \cup {"flags"} =>
       /\ seen.process = facts /\ range <= ranges /\ ranges \in {RangesNow, RangeCount}
       /\ ranges > 0
       /\ ranges # RangesNow =>
            config.checkpoint.of # RangesNow /\ onDisk[2].checkpoint.of # RangesNow
  /\ step \in Materializing => ~config.current
  /\ step = "clear" => Filled(range, ranges)
  /\ step = "clear" /\ tables # <<>> => range = 0 /\ ~Resumable(config.checkpoint)
  /\ step = "checkpoint" => tables = <<>> /\ range < ranges /\ Filled(range + 1, ranges)
  /\ step \in {"derive", "apply", "flags"} => utxos = AllAt(facts)
  /\ step \in {"apply", "flags"} => balances = AllAt(facts)
  /\ step = "flags" => applied = facts

PipeTypes == MetadataTypeOK /\ WarehouseTypeOK /\ WorkTypeOK

PipeInv == CommitOrder /\ WorkHolds /\ MaterializationHolds /\ ReadyStateIsComplete

AllHolds == PipeTypes /\ PipeInv

-----------------------------------------------------------------------------
(***************************************************************************)
(* A row whose stage or tip is written keeps its tails                     *)
(* (upsertCoreIndexerState({stage, onlineTip})).                           *)
(***************************************************************************)
LEMMA ToStageRow ==
  ASSUME state \in State, seenTip \in Tails, NEW s \in Stages
  PROVE  /\ ToStage(s) \in State /\ ToStage(s).stage = s
         /\ ToStage(s).sync = state.sync /\ ToStage(s).process = state.process
BY DEF ToStage, State

(***************************************************************************)
(* So does a row in which an error is recorded (setCoreIndexerError).      *)
(***************************************************************************)
LEMMA WithErrorRow ==
  ASSUME state \in State
  PROVE  /\ WithError \in State
         /\ WithError.stage = IF state.stage = "none" THEN "sync_backfill" ELSE state.stage
         /\ WithError.sync = state.sync /\ WithError.process = state.process
BY DEF WithError, State, Stages

(***************************************************************************)
(* A row with a new sync tail keeps the process tail                       *)
(* (checkpointSyncTail).                                                   *)
(***************************************************************************)
LEMMA SyncedRow ==
  ASSUME state \in State, seen \in State, seenTip \in Tails, NEW h \in Tails
  PROVE  /\ Synced(h) \in State /\ Synced(h).stage = seen.stage
         /\ Synced(h).sync = h /\ Synced(h).process = state.process
BY DEF Synced, State

(***************************************************************************)
(* The progress of a row is written without the flags and the checkpoint   *)
(* (progressEntries).                                                      *)
(***************************************************************************)
LEMMA ProgressRows ==
  ASSUME config \in Config, NEW s \in State
  PROVE  /\ Progress(s) \in Config
         /\ Progress(s).stage = s.stage /\ Progress(s).syncTail = s.sync
         /\ Progress(s).processTail = s.process
         /\ Progress(s).factTail \in {config.factTail, s.process}
         /\ Progress(s).current = config.current /\ Progress(s).history = config.history
         /\ Progress(s).checkpoint = config.checkpoint
BY DEF Progress, State, Config

(***************************************************************************)
(* The ranges are one or as many as there are, never none                  *)
(* (coreCurrentStateRanges).                                               *)
(***************************************************************************)
LEMMA RangesNowType == RangesNow \in 1 .. RangeCount
BY PipelineConstants DEF RangesNow

(***************************************************************************)
(* What a step keeps when it writes neither the metadata nor the UTXO rows *)
(* and the facts.                                                          *)
(***************************************************************************)
LEMMA MetadataKept ==
  ASSUME MetadataTypeOK, CommitOrder, UNCHANGED <<metadataVars, facts, utxos, merged, nodeTip>>
  PROVE  MetadataTypeOK' /\ CommitOrder'
<1>1. MetadataTypeOK'
  BY DEF metadataVars, MetadataTypeOK
<1>2. CommitOrder'
  BY DEF metadataVars, CommitOrder, PairHolds, Resumable, Filled, RangesNow
<1> QED BY <1>1, <1>2

(***************************************************************************)
(* A write of the state row and the config that keeps the process tail and *)
(* the checkpoint, flushed or not: what it leaves on disk is the pair that *)
(* was there or the new one (executeRelaxed).                              *)
(***************************************************************************)
LEMMA Write ==
  ASSUME MetadataTypeOK, CommitOrder, NEW s \in State, NEW c \in Config,
         Relaxed(s, c) \/ Durably(s, c),
         UNCHANGED <<facts, utxos, merged, nodeTip>>, nodeTip \in Nat, facts \in Tails,
         PairHolds(s, c), s.process = state.process,
         state.sync <= s.sync, s.sync <= nodeTip,
         config.current => c.current, c.checkpoint = config.checkpoint
  PROVE  MetadataTypeOK' /\ CommitOrder'
<1>1. state' = s /\ config' = c /\ (onDisk' = onDisk \/ onDisk' = <<s, c>>)
  BY DEF Relaxed, Durably
<1>2. MetadataTypeOK'
  BY <1>1 DEF MetadataTypeOK
<1>3. PairHolds(state, config)'
  BY <1>1 DEF PairHolds, RangesNow
<1>4. RangesNow' = RangesNow
  BY DEF RangesNow
<1>5. \A k : /\ Resumable(k)' <=> Resumable(k)
             /\ Filled(k.done, k.of)' <=> Filled(k.done, k.of)
  BY <1>4 DEF Resumable, Filled
<1>6. CASE onDisk' = onDisk
  <2>1. PairHolds(onDisk[1], onDisk[2])'
    BY <1>6, <1>4 DEF CommitOrder, PairHolds
  <2>2. /\ onDisk[1].process <= s.process /\ s.process <= facts
        /\ facts <= onDisk[1].sync /\ onDisk[1].sync <= s.sync /\ s.sync <= nodeTip
    BY DEF CommitOrder, MetadataTypeOK, State, Tails, NoTail
  <2> QED BY <1>1, <1>2, <1>3, <1>5, <1>6, <2>1, <2>2 DEF CommitOrder
<1>7. CASE onDisk' = <<s, c>>
  <2>1. onDisk'[1] = s /\ onDisk'[2] = c
    BY <1>7
  <2>2. /\ s.process <= s.process /\ s.process <= facts
        /\ facts <= s.sync /\ s.sync <= s.sync /\ s.sync <= nodeTip
    BY PipelineConstants DEF CommitOrder, MetadataTypeOK, State, Tails, NoTail
  <2> QED BY <1>1, <1>2, <1>3, <1>5, <2>1, <2>2 DEF CommitOrder
<1> QED BY <1>1, <1>6, <1>7

(***************************************************************************)
(* Outside a materialization nothing is asked of the ranges.               *)
(***************************************************************************)
LEMMA NotMaterializing ==
  ASSUME step' \notin Materializing \cup {"flags"}
  PROVE  MaterializationHolds'
BY DEF MaterializationHolds, Materializing

(***************************************************************************)
(* A ready state stays complete while the warehouse is left alone and the  *)
(* flag is not set.                                                        *)
(***************************************************************************)
LEMMA ReadyKept ==
  ASSUME WarehouseTypeOK, ReadyStateIsComplete, UNCHANGED warehouseVars,
         config'.current => config.current
  PROVE  WarehouseTypeOK' /\ ReadyStateIsComplete'
BY DEF WarehouseTypeOK, ReadyStateIsComplete, warehouseVars, AllAt

-----------------------------------------------------------------------------
(***************************************************************************)
(* The head of an iteration: the row is read, or written for the first     *)
(* time, and its progress published (runDogecoinConfig).                   *)
(***************************************************************************)
LEMMA BeginIterationStep == AllHolds /\ BeginIteration => AllHolds'
<1> SUFFICES ASSUME AllHolds, BeginIteration PROVE AllHolds'
  OBVIOUS
<1> USE DEF AllHolds, PipeTypes, PipeInv
<1>1. step' = "ensure" /\ seenTip' = nodeTip
  BY DEF BeginIteration
<1>2. /\ UNCHANGED <<metadataVars, warehouseVars, facts, utxos, merged, nodeTip>>
      /\ config' = config /\ state' = state
  BY DEF BeginIteration, warehouseVars, metadataVars
<1>3. WorkTypeOK'
  BY DEF BeginIteration, WorkTypeOK, Steps, Tails, NoTail
<1>4. WorkHolds'
  <2>1. state.sync <= nodeTip /\ nodeTip <= nodeTip
    BY DEF CommitOrder, WorkTypeOK
  <2> QED BY <1>1, <1>2, <2>1 DEF WorkHolds
<1>5. MaterializationHolds'
  BY <1>1, NotMaterializing DEF Materializing
<1> QED BY <1>2, <1>3, <1>4, <1>5, MetadataKept, ReadyKept

(***************************************************************************)
(* The iteration reads the state row, or creates it with the stored tail   *)
(* (ensureState).                                                          *)
(***************************************************************************)
LEMMA EnsureStateStep == AllHolds /\ EnsureState => AllHolds'
<1> SUFFICES ASSUME AllHolds, EnsureState PROVE AllHolds'
  OBVIOUS
<1> USE DEF AllHolds, PipeTypes, PipeInv
<1> DEFINE row == [stage |-> "sync_backfill", sync |-> Least(config.syncTail, seenTip),
                   process |-> NoTail, tip |-> seenTip, failed |-> FALSE]
<1>1. /\ UNCHANGED <<warehouseVars, facts, utxos, merged, nodeTip, seenTip>>
      /\ step = "ensure" /\ step' = "refs" /\ seen' = state'
  BY DEF EnsureState, warehouseVars
<1>2. \/ state.stage = "none" /\ Relaxed(row, config)
      \/ state.stage # "none" /\ UNCHANGED metadataVars
  BY Zenon DEF EnsureState
<1>3. ASSUME state.stage = "none", Relaxed(row, config)
      PROVE  /\ MetadataTypeOK' /\ CommitOrder' /\ state' = row /\ config' = config
             /\ row.stage = "sync_backfill" /\ row.sync <= seenTip
  <2>1. row \in State /\ row.sync = Least(config.syncTail, seenTip) /\ row.process = NoTail
    BY PipelineConstants
       DEF State, Stages, Least, MetadataTypeOK, Config, WorkTypeOK, Tails, NoTail
  <2>2. row.stage = "sync_backfill"
    OBVIOUS
  <2> HIDE DEF row
  <2>3. row.sync <= seenTip /\ seenTip <= nodeTip /\ NoTail <= row.sync /\ nodeTip \in Nat
    BY <1>1, <2>1, PipelineConstants
       DEF Least, WorkHolds, MetadataTypeOK, Config, WorkTypeOK, Tails, NoTail
  <2>4. /\ state.process = NoTail /\ state.sync = NoTail /\ ~config.history
        /\ config \in Config
    BY <1>3 DEF CommitOrder, PairHolds, MetadataTypeOK
  <2>5. PairHolds(row, config)
    BY <2>1, <2>2, <2>3, <2>4, PipelineConstants
       DEF PairHolds, CommitOrder, Config, State, Tails, NoTail
  <2>6. state.sync <= row.sync /\ row.sync <= nodeTip
    BY <2>1, <2>3, <2>4, PipelineConstants DEF State, WorkTypeOK, Tails, NoTail
  <2>7. facts \in Tails /\ state' = row /\ config' = config
    BY <1>3 DEF Relaxed, WarehouseTypeOK
  <2> QED BY <1>1, <1>3, <2>1, <2>2, <2>3, <2>4, <2>5, <2>6, <2>7, Write
<1> HIDE DEF row
<1>4. /\ MetadataTypeOK' /\ CommitOrder' /\ config' = config
      /\ state'.stage # "none" /\ state'.sync <= seenTip
  <2>1. CASE state.stage # "none" /\ UNCHANGED metadataVars
    <3>1. state' = state /\ config' = config
      BY <2>1 DEF metadataVars
    <3> QED BY <1>1, <2>1, <3>1, MetadataKept DEF WorkHolds
  <2> QED BY <1>2, <1>3, <2>1
<1>5. WorkTypeOK'
  BY <1>1, <1>4 DEF EnsureState, WorkTypeOK, MetadataTypeOK, Steps
<1>6. WorkHolds'
  BY <1>1, <1>4 DEF WorkHolds
<1>7. MaterializationHolds'
  BY <1>1, NotMaterializing DEF Materializing
<1> QED BY <1>1, <1>4, <1>5, <1>6, <1>7, ReadyKept

(***************************************************************************)
(* The refs flag is written once every synced block is processed.          *)
(***************************************************************************)
LEMMA MarkRefsStep == AllHolds /\ MarkTransactionRefsReady => AllHolds'
<1> SUFFICES ASSUME AllHolds, MarkTransactionRefsReady PROVE AllHolds'
  OBVIOUS
<1> USE DEF AllHolds, PipeTypes, PipeInv
<1> DEFINE rows == [config EXCEPT !.refs = TRUE]
<1>1. /\ UNCHANGED <<warehouseVars, facts, utxos, merged, nodeTip, seenTip, seen>>
      /\ step = "refs" /\ step' = "publish" /\ next' = "stage"
      /\ UNCHANGED <<target, ready, ranges, range>>
  BY DEF MarkTransactionRefsReady, warehouseVars
<1>2. UNCHANGED metadataVars \/ Durably(state, rows)
  BY DEF MarkTransactionRefsReady
<1>3. /\ rows \in Config /\ rows.current = config.current /\ rows.history = config.history
      /\ rows.checkpoint = config.checkpoint /\ rows.stage = config.stage
      /\ rows.syncTail = config.syncTail /\ rows.processTail = config.processTail
      /\ rows.factTail = config.factTail
  BY DEF MetadataTypeOK, Config
<1> HIDE DEF rows
<1>4. MetadataTypeOK' /\ CommitOrder' /\ state' = state /\ config'.current = config.current
  <2>1. CASE UNCHANGED metadataVars
    BY <1>1, <2>1, MetadataKept DEF metadataVars
  <2>2. CASE Durably(state, rows)
    <3>1. PairHolds(state, rows)
      BY <1>3 DEF CommitOrder, PairHolds
    <3>2. /\ state \in State /\ facts \in Tails /\ nodeTip \in Nat
          /\ state.sync <= state.sync /\ state.sync <= nodeTip
      BY PipelineConstants
         DEF MetadataTypeOK, WarehouseTypeOK, WorkTypeOK, CommitOrder, State, Tails, NoTail
    <3>3. state' = state /\ config' = rows
      BY <2>2 DEF Durably
    <3> QED BY <1>1, <1>3, <2>2, <3>1, <3>2, <3>3, Write
  <2> QED BY <1>2, <2>1, <2>2
<1>5. WorkTypeOK'
  BY <1>1 DEF WorkTypeOK, Steps
<1>6. WorkHolds'
  BY <1>1, <1>4 DEF WorkHolds
<1>7. MaterializationHolds'
  BY <1>1, NotMaterializing DEF Materializing
<1> QED BY <1>1, <1>4, <1>5, <1>6, <1>7, ReadyKept

(***************************************************************************)
(* The published progress is that of the row in hand (publishProgress).    *)
(***************************************************************************)
LEMMA PublishProgressStep == AllHolds /\ PublishProgress => AllHolds'
<1> SUFFICES ASSUME AllHolds, PublishProgress PROVE AllHolds'
  OBVIOUS
<1> USE DEF AllHolds, PipeTypes, PipeInv
<1> DEFINE rows == Progress(seen)
<1>1. /\ UNCHANGED <<warehouseVars, workVars, facts, utxos, merged, nodeTip>>
      /\ step = "publish" /\ step' = next /\ Relaxed(state, rows)
  BY DEF PublishProgress, warehouseVars
<1>2. /\ rows \in Config /\ rows.stage = seen.stage /\ rows.syncTail = seen.sync
      /\ rows.processTail = seen.process /\ rows.factTail \in {config.factTail, seen.process}
      /\ rows.current = config.current /\ rows.history = config.history
      /\ rows.checkpoint = config.checkpoint
  BY ProgressRows DEF MetadataTypeOK, WorkTypeOK
<1> HIDE DEF rows
<1>3. /\ seen.sync = state.sync /\ seen.process = state.process /\ seen.stage # "none"
      /\ state.stage # "none" /\ seen.stage = state.stage
  BY <1>1 DEF WorkHolds
<1>4. PairHolds(state, rows)
  BY <1>2, <1>3 DEF CommitOrder, PairHolds, MetadataTypeOK, State, Tails, NoTail
<1>5. MetadataTypeOK' /\ CommitOrder'
  <2>1. /\ state \in State /\ facts \in Tails /\ nodeTip \in Nat
        /\ state.sync <= state.sync /\ state.sync <= nodeTip
    BY PipelineConstants
       DEF MetadataTypeOK, WarehouseTypeOK, WorkTypeOK, CommitOrder, State, Tails, NoTail
  <2> QED BY <1>1, <1>2, <1>4, <2>1, Write
<1>6. state' = state /\ config' = rows
  BY <1>1 DEF Relaxed
<1>7. WorkTypeOK'
  BY <1>1 DEF workVars, WorkTypeOK, Steps
<1>8. next \in {"idle", "stage", "process"}
  BY DEF WorkTypeOK
<1>9. WorkHolds'
  BY <1>1, <1>2, <1>3, <1>6, <1>8 DEF workVars, WorkHolds
<1>10. MaterializationHolds'
  BY <1>1, <1>8, NotMaterializing DEF Materializing
<1> QED BY <1>1, <1>2, <1>5, <1>6, <1>7, <1>9, <1>10, ReadyKept

-----------------------------------------------------------------------------
(***************************************************************************)
(* What every write of the row alone keeps: the tails do not go back, the  *)
(* stage only leaves online when no history is served.                     *)
(***************************************************************************)
LEMMA RowWrite ==
  ASSUME AllHolds, NEW s \in State, Relaxed(s, config),
         UNCHANGED <<warehouseVars, merged, nodeTip>>,
         s.stage # "none", s.process = state.process, state.sync <= s.sync, s.sync <= nodeTip,
         config.history => s.stage = "online"
  PROVE  /\ MetadataTypeOK' /\ CommitOrder' /\ WarehouseTypeOK' /\ ReadyStateIsComplete'
         /\ state' = s /\ config' = config
<1> USE DEF AllHolds, PipeTypes, PipeInv
<1>1. state' = s /\ config' = config /\ UNCHANGED <<facts, utxos>>
  BY DEF Relaxed, warehouseVars
<1>2. facts \in Tails /\ nodeTip \in Nat /\ config \in Config /\ state \in State
  BY PipelineConstants DEF WarehouseTypeOK, WorkTypeOK, MetadataTypeOK
<1>3. PairHolds(s, config)
  BY <1>2, PipelineConstants DEF CommitOrder, PairHolds, State, Config, Tails, NoTail
<1> QED BY <1>1, <1>2, <1>3, Write, ReadyKept

(***************************************************************************)
(* What every write of the config alone keeps, of those that change the    *)
(* stage or the history that is announced.                                 *)
(***************************************************************************)
LEMMA ConfigWrite ==
  ASSUME AllHolds, NEW c \in Config, Durably(state, c),
         UNCHANGED <<warehouseVars, merged, nodeTip>>,
         PairHolds(state, c), c.current = config.current, c.checkpoint = config.checkpoint
  PROVE  /\ MetadataTypeOK' /\ CommitOrder' /\ WarehouseTypeOK' /\ ReadyStateIsComplete'
         /\ state' = state /\ config' = c
<1> USE DEF AllHolds, PipeTypes, PipeInv
<1>1. state' = state /\ config' = c /\ UNCHANGED <<facts, utxos>>
  BY DEF Durably, warehouseVars
<1>2. /\ facts \in Tails /\ nodeTip \in Nat /\ state \in State
      /\ state.sync <= state.sync /\ state.sync <= nodeTip
  BY PipelineConstants
     DEF WarehouseTypeOK, WorkTypeOK, MetadataTypeOK, CommitOrder, State, Tails, NoTail
<1> QED BY <1>1, <1>2, Write, ReadyKept

(***************************************************************************)
(* What a step keeps that writes nothing.                                  *)
(***************************************************************************)
LEMMA NoWrite ==
  ASSUME AllHolds, UNCHANGED <<metadataVars, warehouseVars, merged, nodeTip>>
  PROVE  /\ MetadataTypeOK' /\ CommitOrder' /\ WarehouseTypeOK' /\ ReadyStateIsComplete'
         /\ state' = state /\ config' = config /\ onDisk' = onDisk /\ facts' = facts
         /\ utxos' = utxos /\ balances' = balances /\ applied' = applied
<1> USE DEF AllHolds, PipeTypes, PipeInv
<1>1. /\ state' = state /\ config' = config /\ onDisk' = onDisk /\ facts' = facts
      /\ utxos' = utxos /\ balances' = balances /\ applied' = applied
  BY DEF warehouseVars, metadataVars
<1> QED BY <1>1, MetadataKept, ReadyKept

-----------------------------------------------------------------------------
(***************************************************************************)
(* Enough is synced: the backfill of the facts begins                      *)
(* (shouldPromoteToProcessBackfill).                                       *)
(***************************************************************************)
LEMMA StartProcessingStep == AllHolds /\ StartProcessing => AllHolds'
<1> SUFFICES ASSUME AllHolds, StartProcessing PROVE AllHolds'
  OBVIOUS
<1> USE DEF AllHolds, PipeTypes, PipeInv
<1> DEFINE row == ToStage("process_backfill")
<1>1. /\ UNCHANGED <<warehouseVars, workVars, merged, nodeTip>> /\ Relaxed(row, config)
      /\ step = "stage" /\ seen.stage = "sync_backfill" /\ step' = "announce"
  BY DEF StartProcessing
<1>2. /\ row \in State /\ row.stage = "process_backfill"
      /\ row.sync = state.sync /\ row.process = state.process
  BY ToStageRow DEF MetadataTypeOK, WorkTypeOK, Stages
<1> HIDE DEF row
<1>3. ~config.history
  BY <1>1 DEF WorkHolds, CommitOrder, PairHolds
<1>4. state.sync <= state.sync /\ state.sync <= nodeTip
  BY PipelineConstants DEF CommitOrder, MetadataTypeOK, State, Tails, NoTail
<1>5. /\ MetadataTypeOK' /\ CommitOrder' /\ WarehouseTypeOK' /\ ReadyStateIsComplete'
      /\ state' = row /\ config' = config
  BY <1>1, <1>2, <1>3, <1>4, RowWrite
<1>6. WorkTypeOK'
  BY <1>1 DEF workVars, WorkTypeOK, Steps
<1>7. WorkHolds'
  BY <1>1, <1>2, <1>5 DEF workVars, WorkHolds
<1>8. MaterializationHolds'
  BY <1>1, NotMaterializing DEF Materializing
<1> QED BY <1>5, <1>6, <1>7, <1>8

(***************************************************************************)
(* The stage that was changed is announced in the config.                  *)
(***************************************************************************)
LEMMA AnnounceStageStep == AllHolds /\ AnnounceStage => AllHolds'
<1> SUFFICES ASSUME AllHolds, AnnounceStage PROVE AllHolds'
  OBVIOUS
<1> USE DEF AllHolds, PipeTypes, PipeInv
<1> DEFINE rows == [config EXCEPT !.stage = state.stage]
<1>1. /\ UNCHANGED <<warehouseVars, workVars, merged, nodeTip>> /\ Durably(state, rows)
      /\ step = "announce" /\ step' = "idle"
  BY DEF AnnounceStage
<1>2. /\ rows \in Config /\ rows.current = config.current /\ rows.history = config.history
      /\ rows.checkpoint = config.checkpoint /\ rows.syncTail = config.syncTail
      /\ rows.processTail = config.processTail /\ rows.factTail = config.factTail
  BY DEF MetadataTypeOK, Config, State
<1> HIDE DEF rows
<1>3. PairHolds(state, rows)
  BY <1>1, <1>2 DEF CommitOrder, PairHolds, WorkHolds
<1>4. /\ MetadataTypeOK' /\ CommitOrder' /\ WarehouseTypeOK' /\ ReadyStateIsComplete'
  BY <1>1, <1>2, <1>3, ConfigWrite
<1>5. WorkTypeOK'
  BY <1>1 DEF workVars, WorkTypeOK, Steps
<1>6. WorkHolds'
  BY <1>1 DEF WorkHolds
<1>7. MaterializationHolds'
  BY <1>1, NotMaterializing DEF Materializing
<1> QED BY <1>4, <1>5, <1>6, <1>7

(***************************************************************************)
(* The end of the window of raw sync is between the tail and the tip that  *)
(* was read (syncRawBlockWindow, syncOnlineBacklogIfNeeded).               *)
(***************************************************************************)
LEMMA StartSyncStep == AllHolds /\ StartSync => AllHolds'
<1> SUFFICES ASSUME AllHolds, StartSync PROVE AllHolds'
  OBVIOUS
<1> USE DEF AllHolds, PipeTypes, PipeInv
<1>1. /\ UNCHANGED <<metadataVars, warehouseVars, merged, nodeTip>>
      /\ UNCHANGED <<seen, seenTip, ready, next, ranges, range>>
      /\ step = "stage" /\ step' = "sync" /\ target' = SyncEnd
  BY DEF StartSync
<1>2. /\ SyncEnd \in Tails /\ seen.sync <= SyncEnd /\ SyncEnd <= seenTip
  BY <1>1, PipelineConstants DEF SyncEnd, Least, WorkHolds, WorkTypeOK, State, Tails, NoTail
<1>3. WorkTypeOK'
  BY <1>1, <1>2 DEF WorkTypeOK, Steps
<1>4. WorkHolds'
  BY <1>1, <1>2, NoWrite DEF WorkHolds
<1>5. MaterializationHolds'
  BY <1>1, NotMaterializing DEF Materializing
<1> QED BY <1>1, <1>3, <1>4, <1>5, NoWrite

(***************************************************************************)
(* A frontier that raw sync reports lies above the tail, inside the window *)
(* (checkpointSyncTail).                                                   *)
(***************************************************************************)
LEMMA CheckpointSyncTailStep == AllHolds /\ CheckpointSyncTail => AllHolds'
<1> SUFFICES ASSUME AllHolds, CheckpointSyncTail PROVE AllHolds'
  OBVIOUS
<1> USE DEF AllHolds, PipeTypes, PipeInv
<1>1. PICK h \in seen.sync + 1 .. target - 1 :
        Relaxed(Synced(h), config) /\ seen' = [seen EXCEPT !.sync = h]
  BY DEF CheckpointSyncTail
<1>2. /\ UNCHANGED <<warehouseVars, merged, nodeTip>>
      /\ UNCHANGED <<seenTip, ready, next, target, ranges, range>>
      /\ step = "sync" /\ UNCHANGED step
  BY DEF CheckpointSyncTail
<1>3. /\ h \in Tails /\ seen.sync <= h /\ h <= target /\ h <= seenTip /\ h <= nodeTip
      /\ seen.sync = state.sync /\ seen.process = state.process /\ seen.stage = state.stage
      /\ seen.stage # "none"
  BY <1>2, PipelineConstants DEF WorkHolds, WorkTypeOK, State, Tails, NoTail
<1> DEFINE row == Synced(h)
<1>4. row \in State /\ row.stage = seen.stage /\ row.sync = h /\ row.process = state.process
  BY <1>3, SyncedRow DEF MetadataTypeOK, WorkTypeOK
<1> HIDE DEF row
<1>5. config.history => row.stage = "online"
  BY <1>3, <1>4 DEF CommitOrder, PairHolds
<1>6. /\ MetadataTypeOK' /\ CommitOrder' /\ WarehouseTypeOK' /\ ReadyStateIsComplete'
      /\ state' = row /\ config' = config
  BY <1>1, <1>2, <1>3, <1>4, <1>5, RowWrite DEF row
<1>7. /\ seen' \in State /\ seen'.sync = h /\ seen'.process = seen.process
      /\ seen'.stage = seen.stage
  BY <1>1, <1>3 DEF WorkTypeOK, State
<1>8. WorkTypeOK'
  BY <1>2, <1>7 DEF WorkTypeOK
<1>9. WorkHolds'
  BY <1>2, <1>3, <1>4, <1>6, <1>7 DEF WorkHolds
<1>10. MaterializationHolds'
  BY <1>2, NotMaterializing DEF Materializing
<1> QED BY <1>6, <1>8, <1>9, <1>10

(***************************************************************************)
(* The window of raw sync is stored: the tail is its end                   *)
(* (syncRawBlockHeights).                                                  *)
(***************************************************************************)
LEMMA SyncWindowDoneStep == AllHolds /\ SyncWindowDone => AllHolds'
<1> SUFFICES ASSUME AllHolds, SyncWindowDone PROVE AllHolds'
  OBVIOUS
<1> USE DEF AllHolds, PipeTypes, PipeInv
<1> DEFINE row == Synced(target)
<1>1. /\ UNCHANGED <<warehouseVars, merged, nodeTip, seenTip, ready, target, ranges, range>>
      /\ Relaxed(row, config) /\ seen' = state'
      /\ step = "sync" /\ step' = "publish"
      /\ next' = IF seen.stage = "online" THEN "process" ELSE "idle"
  BY DEF SyncWindowDone
<1>2. /\ target \in Tails /\ seen.sync <= target /\ target <= seenTip /\ target <= nodeTip
      /\ seen.sync = state.sync /\ seen.process = state.process /\ seen.stage = state.stage
      /\ seen.stage # "none"
  BY <1>1, PipelineConstants DEF WorkHolds, WorkTypeOK, State, Tails, NoTail
<1>3. /\ row \in State /\ row.stage = seen.stage /\ row.sync = target
      /\ row.process = state.process
  BY <1>2, SyncedRow DEF MetadataTypeOK, WorkTypeOK
<1> HIDE DEF row
<1>4. config.history => row.stage = "online"
  BY <1>2, <1>3 DEF CommitOrder, PairHolds
<1>5. /\ MetadataTypeOK' /\ CommitOrder' /\ WarehouseTypeOK' /\ ReadyStateIsComplete'
      /\ state' = row /\ config' = config
  BY <1>1, <1>2, <1>3, <1>4, RowWrite
<1>6. WorkTypeOK'
  BY <1>1, <1>3, <1>5 DEF WorkTypeOK, Steps
<1>7. WorkHolds'
  BY <1>1, <1>2, <1>3, <1>5 DEF WorkHolds
<1>8. MaterializationHolds'
  BY <1>1, NotMaterializing DEF Materializing
<1> QED BY <1>5, <1>6, <1>7, <1>8

-----------------------------------------------------------------------------
(***************************************************************************)
(* A window between the process tail and the sync tail: whichever of its   *)
(* writes a crash keeps, the tails on disk enclose the facts, and a        *)
(* checkpoint of other heights is not resumed.                             *)
(***************************************************************************)
LEMMA WindowHolds ==
  ASSUME AllHolds, NEW h \in Tails, NEW kept \in BOOLEAN, NEW s \in Stages, s # "none",
         Window(h, kept, s), UNCHANGED <<merged, nodeTip>>,
         state.process <= h, h <= state.sync, h = state.process => facts = h,
         config.current => kept, config.history => s = "online"
  PROVE  MetadataTypeOK' /\ CommitOrder' /\ WarehouseTypeOK' /\ ReadyStateIsComplete'
<1> USE DEF AllHolds, PipeTypes, PipeInv
<1> DEFINE row == [state EXCEPT !.stage = s, !.process = h, !.tip = seenTip, !.failed = FALSE]
           rows == Progress(row)
<1>1. /\ state' = row /\ config' = rows /\ facts' = h
      /\ onDisk' \in {<<state, config>>, <<row, config>>, <<row, rows>>}
      /\ IF kept THEN utxos' = AllAt(h) /\ balances' = AllAt(h) /\ applied' = h
         ELSE UNCHANGED <<utxos, balances, applied>>
  BY DEF Window
<1>2. /\ state \in State /\ config \in Config /\ seenTip \in Tails /\ nodeTip \in Nat
  BY PipelineConstants DEF MetadataTypeOK, WorkTypeOK
<1>3. /\ row \in State /\ row.stage = s /\ row.sync = state.sync /\ row.process = h
  BY <1>2 DEF State
<1> HIDE DEF row
<1>4. /\ rows \in Config /\ rows.stage = s /\ rows.syncTail = state.sync
      /\ rows.processTail = h /\ rows.factTail \in {config.factTail, h}
      /\ rows.current = config.current /\ rows.history = config.history
      /\ rows.checkpoint = config.checkpoint
  BY <1>2, <1>3, ProgressRows
<1> HIDE DEF rows
<1>5. h \in Int /\ state.process \in Int /\ state.sync \in Int
  BY <1>2, PipelineConstants DEF State, Tails, NoTail
<1>6. MetadataTypeOK' /\ WarehouseTypeOK'
  <2>1. MetadataTypeOK'
    BY <1>1, <1>2, <1>3, <1>4 DEF MetadataTypeOK
  <2>2. AllAt(h) \in [Keys -> Tails]
    BY DEF AllAt
  <2> QED BY <1>1, <2>1, <2>2 DEF WarehouseTypeOK
<1>7. RangesNow' = RangesNow
  BY DEF RangesNow
<1>8. PairHolds(state, config)
  BY DEF CommitOrder
<1>9. /\ PairHolds(row, config) /\ PairHolds(row, rows)
  BY <1>2, <1>3, <1>4, <1>5, <1>8, PipelineConstants DEF PairHolds, Config, Checkpoint, Tails, NoTail
<1>10. /\ PairHolds(state, config)' <=> PairHolds(row, rows)
       /\ \A i \in State, c \in Config : PairHolds(i, c)' <=> PairHolds(i, c)
  BY <1>1, <1>7 DEF PairHolds
<1>11. \E i \in {state, row}, c \in {config, rows} :
         onDisk'[1] = i /\ onDisk'[2] = c /\ PairHolds(i, c)
  BY <1>1, <1>8, <1>9
<1>12. PICK i \in {state, row}, c \in {config, rows} :
         onDisk'[1] = i /\ onDisk'[2] = c /\ PairHolds(i, c)
  BY <1>11
<1>13. /\ PairHolds(state, config)' /\ PairHolds(onDisk[1], onDisk[2])'
  BY <1>2, <1>3, <1>4, <1>7, <1>9, <1>10, <1>12 DEF PairHolds
<1>14. /\ i.process <= h /\ h <= i.sync /\ i.sync = state.sync /\ state.sync <= nodeTip
       /\ c.checkpoint = config.checkpoint /\ c.current = config.current
  BY <1>3, <1>4, <1>5, <1>12 DEF CommitOrder
<1>15. ASSUME Resumable(config.checkpoint)'
       PROVE  Filled(config.checkpoint.done, config.checkpoint.of)'
  <2> DEFINE k == config.checkpoint
  <2>1. k = config'.checkpoint
    BY <1>1, <1>4
  <2>2. k.of = RangesNow /\ k.asOf = h /\ k.done > 0
    BY <1>1, <1>7, <1>15, <2>1 DEF Resumable
  <2>3. k.asOf <= state.process
    BY <1>8 DEF PairHolds
  <2>4. h = facts
    BY <1>5, <2>2, <2>3
  <2>5. Filled(k.done, k.of)
    BY <2>2, <2>4 DEF Resumable, CommitOrder
  <2>6. CASE kept
    <3>1. k.done \in 0 .. RangeCount
      BY <1>2 DEF Config, Checkpoint
    <3>2. \A r \in 1 .. k.done : KeysOf(r, k.of) \subseteq Keys
      BY <3>1, PipelineConstants DEF KeysOf, Keys
    <3>3. utxos' = AllAt(h) /\ facts' = h
      BY <1>1, <2>6
    <3> HIDE DEF k
    <3> QED BY <2>1, <3>2, <3>3 DEF Filled, AllAt
  <2>7. CASE ~kept
    <3>1. utxos' = utxos /\ facts' = facts
      BY <1>1, <2>4, <2>7
    <3> HIDE DEF k
    <3> QED BY <2>1, <2>5, <3>1 DEF Filled
  <2> QED BY <2>6, <2>7
<1>16. onDisk'[2].checkpoint = config'.checkpoint
  BY <1>1, <1>4, <1>12, <1>14
<1>17. CommitOrder'
  <2>1. /\ onDisk'[1].process <= h /\ h <= onDisk'[1].sync
        /\ onDisk'[1].sync <= state'.sync /\ state'.sync <= nodeTip'
        /\ state'.process = h /\ h <= h
    BY <1>1, <1>3, <1>5, <1>12, <1>14
  <2>2. onDisk'[2].current => config'.current
    BY <1>1, <1>4, <1>12, <1>14
  <2>3. /\ Resumable(onDisk[2].checkpoint)' => Resumable(config.checkpoint)'
        /\ Resumable(onDisk[2].checkpoint)' =>
             Filled(onDisk[2].checkpoint.done, onDisk[2].checkpoint.of)'
    BY <1>15, <1>16 DEF Resumable, Filled
  <2> QED BY <1>1, <1>13, <1>15, <2>1, <2>2, <2>3 DEF CommitOrder
<1>18. ReadyStateIsComplete'
  BY <1>1, <1>4 DEF ReadyStateIsComplete, AllAt
<1> QED BY <1>6, <1>17, <1>18

(***************************************************************************)
(* The backfill reads whether the current state is kept; nothing else      *)
(* changes the flag before it is used (processBackfill).                   *)
(***************************************************************************)
LEMMA ReadReadyStep == AllHolds /\ ReadCurrentStateReady => AllHolds'
<1> SUFFICES ASSUME AllHolds, ReadCurrentStateReady PROVE AllHolds'
  OBVIOUS
<1> USE DEF AllHolds, PipeTypes, PipeInv
<1>1. /\ UNCHANGED <<metadataVars, warehouseVars, merged, nodeTip>>
      /\ UNCHANGED <<seen, seenTip, next, target, ranges, range>>
      /\ step = "stage" /\ step' = "backfill" /\ ready' = config.current
      /\ seen.stage = "process_backfill"
  BY DEF ReadCurrentStateReady
<1>2. WorkTypeOK'
  BY <1>1 DEF WorkTypeOK, MetadataTypeOK, Config, Steps
<1>3. WorkHolds'
  BY <1>1, NoWrite DEF WorkHolds
<1>4. MaterializationHolds'
  BY <1>1, NotMaterializing DEF Materializing
<1> QED BY <1>1, <1>2, <1>3, <1>4, NoWrite

(***************************************************************************)
(* A window of the backfill: a step forward, inside what is synced.        *)
(***************************************************************************)
LEMMA BackfillWindowStep == AllHolds /\ ProcessBackfillWindow => AllHolds'
<1> SUFFICES ASSUME AllHolds, ProcessBackfillWindow PROVE AllHolds'
  OBVIOUS
<1> USE DEF AllHolds, PipeTypes, PipeInv
<1> DEFINE h == Least(seen.sync, seen.process + ProcessSize)
<1>1. /\ step = "backfill" /\ step' = "idle" /\ seen.process < seen.sync
      /\ Window(h, ready, "process_backfill") /\ UNCHANGED <<merged, nodeTip, workVars>>
  BY DEF ProcessBackfillWindow
<1>2. seen.process = state.process /\ seen.sync = state.sync /\ (ready <=> config.current)
      /\ state.stage = "process_backfill"
  BY <1>1 DEF WorkHolds
<1>3. /\ h \in Tails /\ state.process < h /\ h <= state.sync
  BY <1>1, <1>2, PipelineConstants DEF Least, WorkTypeOK, State, Tails, NoTail
<1> HIDE DEF h
<1>4. state.process <= h /\ h # state.process
  BY <1>3, PipelineConstants DEF MetadataTypeOK, State, Tails, NoTail
<1>5. ~config.history
  BY <1>2 DEF CommitOrder, PairHolds
<1>6. ready \in BOOLEAN /\ "process_backfill" \in Stages
  BY DEF WorkTypeOK, Stages
<1>7. MetadataTypeOK' /\ CommitOrder' /\ WarehouseTypeOK' /\ ReadyStateIsComplete'
  BY <1>1, <1>2, <1>3, <1>4, <1>5, <1>6, WindowHolds
<1>8. WorkTypeOK'
  BY <1>1 DEF workVars, WorkTypeOK, Steps
<1>9. WorkHolds'
  BY <1>1 DEF WorkHolds
<1>10. MaterializationHolds'
  BY <1>1, NotMaterializing DEF Materializing
<1> QED BY <1>7, <1>8, <1>9, <1>10

(***************************************************************************)
(* A window online: a step forward, or the window at the tail once more,   *)
(* whose facts are those of the tail (processOnlineBacklogIfNeeded).       *)
(***************************************************************************)
LEMMA OnlineWindowStep == AllHolds /\ ProcessOnlineWindow => AllHolds'
<1> SUFFICES ASSUME AllHolds, ProcessOnlineWindow PROVE AllHolds'
  OBVIOUS
<1> USE DEF AllHolds, PipeTypes, PipeInv
<1> DEFINE h == IF state.process < OnlineTarget
                THEN Least(OnlineTarget, state.process + ProcessSize) ELSE OnlineTarget
<1>1. /\ step \in {"process", "stage"} /\ step' = "idle"
      /\ Window(h, config.current, "online") /\ UNCHANGED <<merged, nodeTip, workVars>>
  BY DEF ProcessOnlineWindow
<1>2. /\ state.sync <= seenTip /\ state.process <= state.sync
      /\ state.process <= facts /\ facts <= state.sync
  <2>1. state.sync <= seenTip
    BY <1>1 DEF WorkHolds
  <2> QED BY <2>1, PipelineConstants
          DEF CommitOrder, PairHolds, MetadataTypeOK, WarehouseTypeOK, State, Tails, NoTail
<1>3. OnlineTarget = state.sync
  BY <1>2, PipelineConstants DEF OnlineTarget, Least, MetadataTypeOK, WorkTypeOK, State, Tails, NoTail
<1>4. h \in Tails /\ state.process <= h /\ h <= state.sync /\ (h = state.process => facts = h)
  BY <1>2, <1>3, PipelineConstants
     DEF Least, MetadataTypeOK, WarehouseTypeOK, State, Tails, NoTail
<1> HIDE DEF h
<1>5. config.current \in BOOLEAN /\ "online" \in Stages
  BY DEF MetadataTypeOK, Config, Stages
<1>6. MetadataTypeOK' /\ CommitOrder' /\ WarehouseTypeOK' /\ ReadyStateIsComplete'
  BY <1>1, <1>4, <1>5, WindowHolds
<1>7. WorkTypeOK'
  BY <1>1 DEF workVars, WorkTypeOK, Steps
<1>8. WorkHolds'
  BY <1>1 DEF WorkHolds
<1>9. MaterializationHolds'
  BY <1>1, NotMaterializing DEF Materializing
<1> QED BY <1>6, <1>7, <1>8, <1>9

(***************************************************************************)
(* Too far from the tip to finish: the backfill goes back to raw sync.     *)
(***************************************************************************)
LEMMA ReturnToSyncStep == AllHolds /\ ReturnBackfillToSync => AllHolds'
<1> SUFFICES ASSUME AllHolds, ReturnBackfillToSync PROVE AllHolds'
  OBVIOUS
<1> USE DEF AllHolds, PipeTypes, PipeInv
<1> DEFINE row == ToStage("sync_backfill")
<1>1. /\ UNCHANGED <<warehouseVars, workVars, merged, nodeTip>> /\ Relaxed(row, config)
      /\ step = "backfill" /\ step' = "announce"
  BY DEF ReturnBackfillToSync
<1>2. /\ row \in State /\ row.stage = "sync_backfill"
      /\ row.sync = state.sync /\ row.process = state.process
  BY ToStageRow DEF MetadataTypeOK, WorkTypeOK, Stages
<1> HIDE DEF row
<1>3. ~config.history
  BY <1>1 DEF WorkHolds, CommitOrder, PairHolds
<1>4. state.sync <= state.sync /\ state.sync <= nodeTip
  BY PipelineConstants DEF CommitOrder, MetadataTypeOK, State, Tails, NoTail
<1>5. /\ MetadataTypeOK' /\ CommitOrder' /\ WarehouseTypeOK' /\ ReadyStateIsComplete'
      /\ state' = row /\ config' = config
  BY <1>1, <1>2, <1>3, <1>4, RowWrite
<1>6. WorkTypeOK'
  BY <1>1 DEF workVars, WorkTypeOK, Steps
<1>7. WorkHolds'
  BY <1>1, <1>2, <1>5 DEF workVars, WorkHolds
<1>8. MaterializationHolds'
  BY <1>1, NotMaterializing DEF Materializing
<1> QED BY <1>5, <1>6, <1>7, <1>8

(***************************************************************************)
(* Nothing to do online: the row may be refreshed, its progress is         *)
(* published (publishOnlineNoWorkIfPossible).                              *)
(***************************************************************************)
LEMMA OnlineNoWorkStep == AllHolds /\ OnlineNoWork => AllHolds'
<1> SUFFICES ASSUME AllHolds, OnlineNoWork PROVE AllHolds'
  OBVIOUS
<1> USE DEF AllHolds, PipeTypes, PipeInv
<1> DEFINE row == ToStage("online")
<1>1. /\ UNCHANGED <<warehouseVars, merged, nodeTip, seenTip, ready, target, ranges, range>>
      /\ step = "stage" /\ step' = "publish" /\ next' = "idle" /\ seen' = state'
  BY DEF OnlineNoWork
<1>2. Relaxed(row, config) \/ UNCHANGED metadataVars
  BY DEF OnlineNoWork
<1>3. /\ row \in State /\ row.stage = "online"
      /\ row.sync = state.sync /\ row.process = state.process
  BY ToStageRow DEF MetadataTypeOK, WorkTypeOK, Stages
<1> HIDE DEF row
<1>4. state.sync <= state.sync /\ state.sync <= nodeTip
  BY PipelineConstants DEF CommitOrder, MetadataTypeOK, State, Tails, NoTail
<1>5. /\ MetadataTypeOK' /\ CommitOrder' /\ WarehouseTypeOK' /\ ReadyStateIsComplete'
      /\ (state' = row \/ state' = state) /\ config' = config
  <2>1. CASE Relaxed(row, config)
    BY <1>1, <1>3, <1>4, <2>1, RowWrite
  <2>2. CASE UNCHANGED metadataVars
    BY <1>1, <2>2, NoWrite
  <2> QED BY <1>2, <2>1, <2>2
<1>6. WorkTypeOK'
  BY <1>1, <1>5 DEF WorkTypeOK, MetadataTypeOK, Steps
<1>7. WorkHolds'
  BY <1>1, <1>3, <1>5 DEF WorkHolds
<1>8. MaterializationHolds'
  BY <1>1, NotMaterializing DEF Materializing
<1> QED BY <1>5, <1>6, <1>7, <1>8

-----------------------------------------------------------------------------
(***************************************************************************)
(* The keys of a range are keys, and the ranges of a materialization cover *)
(* every key (coreCurrentStateRanges).                                     *)
(***************************************************************************)
LEMMA KeysOfRanges ==
  /\ \A r \in 1 .. RangeCount, n \in Nat : KeysOf(r, n) \subseteq Keys
  /\ \A n \in {RangesNow, RangeCount} : \A k \in Keys : \E r \in 1 .. n : k \in KeysOf(r, n)
<1>1. \A r \in 1 .. RangeCount, n \in Nat : KeysOf(r, n) \subseteq Keys
  BY PipelineConstants DEF KeysOf, Keys
<1>2. \A k \in Keys : 1 \in 1 .. 1 /\ k \in KeysOf(1, 1)
  BY DEF KeysOf
<1>3. RangeCount # 1 => \A k \in Keys : k \in 1 .. RangeCount /\ k \in KeysOf(k, RangeCount)
  BY DEF KeysOf, Keys
<1> QED BY <1>1, <1>2, <1>3, PipelineConstants DEF RangesNow

(***************************************************************************)
(* A materialization begins at the height of the facts, since everything   *)
(* synced is processed, and keeps of the rows what its checkpoint counts   *)
(* (materializationResumePoint).                                           *)
(***************************************************************************)
LEMMA StartMaterializationStep == AllHolds /\ StartMaterialization => AllHolds'
<1> SUFFICES ASSUME AllHolds, StartMaterialization PROVE AllHolds'
  OBVIOUS
<1> USE DEF AllHolds, PipeTypes, PipeInv
<1> DEFINE k == config.checkpoint
<1>1. /\ UNCHANGED <<metadataVars, warehouseVars, merged, nodeTip>>
      /\ UNCHANGED <<seen, seenTip, ready, next, target>>
      /\ step = "backfill" /\ step' = "clear" /\ seen.process >= seen.sync /\ ~ready
      /\ ranges' = RangesNow
      /\ range' = IF k.of = RangesNow /\ k.asOf = seen.process THEN k.done ELSE 0
      /\ tables' # <<>> => ~(range' > 0)
  BY DEF StartMaterialization, ResumableRanges
<1>2. seen.process = state.process /\ seen.sync = state.sync /\ ~config.current
  BY <1>1 DEF WorkHolds
<1>3. seen.process = facts
  BY <1>1, <1>2, PipelineConstants
     DEF CommitOrder, MetadataTypeOK, WarehouseTypeOK, State, Tails, NoTail
<1>4. /\ k.done \in 0 .. RangeCount /\ k.done <= k.of /\ RangesNow \in 1 .. RangeCount
      /\ Resumable(k) => Filled(k.done, k.of)
  BY RangesNowType DEF CommitOrder, PairHolds, MetadataTypeOK, Config, Checkpoint
<1>5. PICK n \in 0 .. RangeCount : range' = n /\ n <= RangesNow /\ Filled(n, RangesNow)
                                  /\ (n = 0 => ~Resumable(k))
  <2>1. CASE k.of = RangesNow /\ k.asOf = seen.process /\ k.done > 0
    BY <1>1, <1>3, <1>4, <2>1 DEF Resumable
  <2>2. CASE ~(k.of = RangesNow /\ k.asOf = seen.process /\ k.done > 0)
    <3>1. range' = 0
      BY <1>1, <1>4, <2>2
    <3>2. Filled(0, RangesNow)
      BY DEF Filled
    <3> QED BY <1>3, <1>4, <2>2, <3>1, <3>2, PipelineConstants DEF Resumable
  <2> QED BY <2>1, <2>2
<1>6. tables' # <<>> => n = 0
  BY <1>1, <1>5
<1> HIDE DEF k
<1>7. WorkTypeOK'
  BY <1>1, <1>4, <1>5 DEF WorkTypeOK, Steps
<1>8. WorkHolds'
  BY <1>1, NoWrite DEF WorkHolds
<1>9. MaterializationHolds'
  <2>1. /\ RangesNow' = RangesNow /\ facts' = facts /\ utxos' = utxos /\ config' = config
    BY <1>1, NoWrite DEF RangesNow
  <2>2. Filled(range, ranges)' /\ (tables' # <<>> => ~Resumable(config.checkpoint)')
    BY <1>1, <1>5, <1>6, <2>1 DEF Filled, Resumable, k
  <2> QED BY <1>1, <1>2, <1>3, <1>4, <1>5, <1>6, <2>1, <2>2 DEF MaterializationHolds, Materializing
<1> QED BY <1>1, <1>7, <1>8, <1>9, NoWrite

(***************************************************************************)
(* Tables are cleared only where nothing is resumed, in memory or from     *)
(* disk (clearCoreDogecoinCurrentState).                                   *)
(***************************************************************************)
LEMMA ClearTableStep == AllHolds /\ ClearTable => AllHolds'
<1> SUFFICES ASSUME AllHolds, ClearTable PROVE AllHolds'
  OBVIOUS
<1> USE DEF AllHolds, PipeTypes, PipeInv
<1>1. /\ UNCHANGED <<state, config, onDisk, facts, merged, nodeTip>> /\ tables # <<>>
      /\ UNCHANGED <<seen, seenTip, ready, next, target, ranges, range, writes>>
      /\ step = "clear" /\ UNCHANGED step
      /\ utxos' \in {NoRows, utxos} /\ balances' \in {NoRows, balances}
      /\ applied' \in {NoTail, applied}
  BY DEF ClearTable, metadataVars
<1>2. range = 0 /\ ~Resumable(config.checkpoint) /\ ~config.current
  BY <1>1 DEF MaterializationHolds, Materializing
<1>3. RangesNow' = RangesNow
  BY <1>1 DEF RangesNow
<1>4. MetadataTypeOK' /\ WorkTypeOK'
  BY <1>1 DEF MetadataTypeOK, WorkTypeOK
<1>5. WarehouseTypeOK'
  BY <1>1, PipelineConstants DEF WarehouseTypeOK, NoRows, Tails, NoTail
<1>6. CommitOrder'
  BY <1>1, <1>2, <1>3 DEF CommitOrder, PairHolds, Resumable
<1>7. WorkHolds'
  BY <1>1 DEF WorkHolds
<1>8. MaterializationHolds'
  <2>1. ~Resumable(config.checkpoint)' /\ Filled(range, ranges)'
    BY <1>1, <1>2, <1>3 DEF Resumable, Filled
  <2> QED BY <1>1, <1>2, <1>3, <2>1 DEF MaterializationHolds, Materializing
<1>9. ReadyStateIsComplete'
  BY <1>1, <1>2 DEF ReadyStateIsComplete
<1> QED BY <1>4, <1>5, <1>6, <1>7, <1>8, <1>9

(***************************************************************************)
(* A range is inserted at the height of the facts; the ranges that are     *)
(* counted in memory or on disk stay (insertCoreCurrentUtxoRanges).        *)
(***************************************************************************)
LEMMA InsertRangeStep == AllHolds /\ InsertRange => AllHolds'
<1> SUFFICES ASSUME AllHolds, InsertRange PROVE AllHolds'
  OBVIOUS
<1> USE DEF AllHolds, PipeTypes, PipeInv
<1>1. /\ UNCHANGED <<state, config, onDisk, facts, balances, applied, merged, nodeTip>>
      /\ UNCHANGED <<seen, seenTip, ready, next, target, ranges, range, writes, tables>>
      /\ step = "clear" /\ step' = "checkpoint" /\ tables = <<>> /\ range < ranges
      /\ utxos' = [k \in Keys |-> IF k \in KeysOf(range + 1, ranges) THEN seen.process
                                  ELSE utxos[k]]
  BY DEF InsertRange, metadataVars, workVars
<1>2. /\ seen.process = facts /\ ranges \in {RangesNow, RangeCount} /\ ~config.current
      /\ Filled(range, ranges)
  BY <1>1 DEF MaterializationHolds, Materializing
<1>3. RangesNow' = RangesNow
  BY <1>1 DEF RangesNow
<1>4. /\ range \in 0 .. RangeCount /\ ranges \in 0 .. RangeCount /\ facts \in Tails
      /\ utxos \in [Keys -> Tails]
  BY DEF WorkTypeOK, WarehouseTypeOK
<1>5. ASSUME NEW d \in 0 .. RangeCount, NEW n \in 0 .. RangeCount, Filled(d, n)
      PROVE  \A r \in 1 .. d : \A k \in KeysOf(r, n) : utxos'[k] = facts
  <2> SUFFICES ASSUME NEW r \in 1 .. d, NEW k \in KeysOf(r, n) PROVE utxos'[k] = facts
    OBVIOUS
  <2>1. r \in 1 .. RangeCount /\ n \in Nat
    BY PipelineConstants
  <2>2. k \in Keys
    BY <2>1, KeysOfRanges
  <2>3. utxos[k] = facts
    BY <1>5 DEF Filled
  <2> QED BY <1>1, <1>2, <2>2, <2>3
<1>6. Filled(range + 1, ranges)'
  <2> SUFFICES ASSUME NEW r \in 1 .. range + 1, NEW k \in KeysOf(r, ranges)
               PROVE  utxos'[k] = facts
    BY <1>1, PipelineConstants, <1>4 DEF Filled
  <2>1. k \in Keys
    BY <1>1, <1>4, KeysOfRanges, PipelineConstants
  <2>2. r = range + 1 \/ r \in 1 .. range
    BY <1>4
  <2> QED BY <1>1, <1>2, <2>1, <2>2 DEF Filled
<1>7. MetadataTypeOK' /\ WorkTypeOK'
  BY <1>1 DEF MetadataTypeOK, WorkTypeOK, Steps
<1>8. WarehouseTypeOK'
  BY <1>1, <1>2, <1>4 DEF WarehouseTypeOK
<1>9. CommitOrder'
  <2>1. /\ config.checkpoint \in Checkpoint /\ onDisk[2].checkpoint \in Checkpoint
    BY DEF MetadataTypeOK, Config
  <2> DEFINE c == config.checkpoint
             d == onDisk[2].checkpoint
  <2>2. /\ c.done \in 0 .. RangeCount /\ c.of \in 0 .. RangeCount
        /\ d.done \in 0 .. RangeCount /\ d.of \in 0 .. RangeCount
    BY <2>1 DEF Checkpoint
  <2>3. /\ Filled(c.done, c.of) => Filled(c.done, c.of)'
        /\ Filled(d.done, d.of) => Filled(d.done, d.of)'
    <3> HIDE DEF c, d
    <3>1. /\ Filled(c.done, c.of) => \A r \in 1 .. c.done : \A k \in KeysOf(r, c.of) : utxos'[k] = facts
          /\ Filled(d.done, d.of) => \A r \in 1 .. d.done : \A k \in KeysOf(r, d.of) : utxos'[k] = facts
      BY <1>5, <2>2
    <3> QED BY <1>1, <3>1 DEF Filled, c, d
  <2> QED BY <1>1, <1>3, <2>3 DEF CommitOrder, PairHolds, Resumable
<1>10. WorkHolds'
  BY <1>1 DEF WorkHolds
<1>11. MaterializationHolds'
  BY <1>1, <1>2, <1>3, <1>6 DEF MaterializationHolds, Materializing
<1>12. ReadyStateIsComplete'
  BY <1>1, <1>2 DEF ReadyStateIsComplete
<1> QED BY <1>7, <1>8, <1>9, <1>10, <1>11, <1>12

(***************************************************************************)
(* The checkpoint of a range is written, not flushed: what a crash resumes *)
(* is the one before it or this one (onRangeCompleted).                    *)
(***************************************************************************)
LEMMA CheckpointRangeStep == AllHolds /\ CheckpointRange => AllHolds'
<1> SUFFICES ASSUME AllHolds, CheckpointRange PROVE AllHolds'
  OBVIOUS
<1> USE DEF AllHolds, PipeTypes, PipeInv
<1> DEFINE k == [asOf |-> seen.process, done |-> range + 1, of |-> ranges]
           c == [config EXCEPT !.checkpoint = k]
<1>1. PICK s \in {state, [state EXCEPT !.tip = seenTip, !.failed = FALSE]} : Relaxed(s, c)
  BY DEF CheckpointRange
<1>2. /\ UNCHANGED <<warehouseVars, facts, utxos, balances, applied, merged, nodeTip>>
      /\ UNCHANGED <<seen, seenTip, ready, next, target, ranges, writes, tables>>
      /\ step = "checkpoint" /\ step' = "clear" /\ range' = range + 1
  BY DEF CheckpointRange, warehouseVars
<1>3. /\ seen.process = facts /\ ranges \in {RangesNow, RangeCount} /\ ~config.current
      /\ range < ranges /\ Filled(range + 1, ranges) /\ tables = <<>> /\ ranges > 0
      /\ ranges # RangesNow => onDisk[2].checkpoint.of # RangesNow
  BY <1>2 DEF MaterializationHolds, Materializing
<1>4. /\ seen.process = state.process /\ state.stage # "none" /\ config.stage # "none"
  BY <1>2 DEF WorkHolds
<1>5. range + 1 \in 0 .. RangeCount /\ range + 1 > 0 /\ range + 1 <= ranges
  BY <1>3, PipelineConstants DEF WorkTypeOK
<1>6. k \in Checkpoint /\ k.asOf = state.process /\ k.done = range + 1 /\ k.of = ranges
  BY <1>4, <1>5 DEF Checkpoint, WorkTypeOK, State
<1> HIDE DEF k
<1>7. /\ c \in Config /\ c.checkpoint = k /\ c.current = config.current
      /\ c.history = config.history /\ c.stage = config.stage /\ c.syncTail = config.syncTail
      /\ c.processTail = config.processTail /\ c.factTail = config.factTail
  BY <1>6 DEF MetadataTypeOK, Config
<1> HIDE DEF c
<1>8. /\ s \in State /\ s.stage = state.stage /\ s.sync = state.sync
      /\ s.process = state.process
  BY DEF MetadataTypeOK, WorkTypeOK, State
<1>9. state' = s /\ config' = c /\ (onDisk' = onDisk \/ onDisk' = <<s, c>>)
  BY <1>1 DEF Relaxed
<1>10. RangesNow' = RangesNow
  BY <1>2 DEF RangesNow
<1>11. PairHolds(s, c)
  <2>1. PairHolds(state, config)
    BY DEF CommitOrder
  <2>2. c.checkpoint.asOf <= s.process
    BY <1>6, <1>7, <1>8, PipelineConstants DEF State, Tails, NoTail
  <2>3. c.checkpoint.done <= c.checkpoint.of /\ c.checkpoint.of \in {0, RangesNow, RangeCount}
    BY <1>3, <1>5, <1>6, <1>7
  <2> QED BY <1>4, <1>7, <1>8, <2>1, <2>2, <2>3 DEF PairHolds
<1>12. Resumable(onDisk[2].checkpoint) => Resumable(k)
  BY <1>3, <1>4, <1>5, <1>6 DEF Resumable
<1>13. MetadataTypeOK'
  BY <1>7, <1>8, <1>9 DEF MetadataTypeOK
<1>14. CommitOrder'
  <2>1. /\ s.process <= facts /\ s.sync <= nodeTip /\ s.process <= s.process /\ s.sync <= s.sync
        /\ facts <= s.sync /\ onDisk[1].sync <= s.sync /\ onDisk[1].process <= s.process
    BY <1>8, PipelineConstants
       DEF CommitOrder, MetadataTypeOK, WarehouseTypeOK, State, Tails, NoTail
  <2>2. CASE onDisk' = onDisk
    BY <1>2, <1>3, <1>6, <1>7, <1>9, <1>10, <1>11, <1>12, <2>1, <2>2
       DEF CommitOrder, PairHolds, Resumable, Filled
  <2>3. CASE onDisk' = <<s, c>>
    <3>1. onDisk'[1] = s /\ onDisk'[2] = c
      BY <2>3
    <3> QED BY <1>2, <1>3, <1>6, <1>7, <1>9, <1>10, <1>11, <1>12, <2>1, <3>1
            DEF CommitOrder, PairHolds, Resumable, Filled
  <2> QED BY <1>9, <2>2, <2>3
<1>15. WorkTypeOK'
  BY <1>2, <1>5 DEF WorkTypeOK, Steps
<1>16. WorkHolds'
  BY <1>2, <1>4, <1>7, <1>8, <1>9 DEF WorkHolds
<1>17. MaterializationHolds'
  <2>1. ranges # RangesNow => c.checkpoint.of # RangesNow /\ onDisk'[2].checkpoint.of # RangesNow
    BY <1>3, <1>6, <1>7, <1>9
  <2> QED BY <1>2, <1>3, <1>5, <1>7, <1>9, <1>10, <2>1
          DEF MaterializationHolds, Materializing, Filled
<1>18. WarehouseTypeOK' /\ ReadyStateIsComplete'
  BY <1>2, <1>7, <1>9, ReadyKept
<1> QED BY <1>13, <1>14, <1>15, <1>16, <1>17, <1>18

(***************************************************************************)
(* All ranges done, every key is at the height of the facts.               *)
(***************************************************************************)
LEMMA RangesDoneStep == AllHolds /\ RangesDone => AllHolds'
<1> SUFFICES ASSUME AllHolds, RangesDone PROVE AllHolds'
  OBVIOUS
<1> USE DEF AllHolds, PipeTypes, PipeInv
<1>1. /\ UNCHANGED <<metadataVars, warehouseVars, merged, nodeTip>>
      /\ UNCHANGED <<seen, seenTip, ready, next, target, ranges, range>>
      /\ step = "clear" /\ step' = "derive" /\ range = ranges
  BY DEF RangesDone
<1>2. /\ seen.process = facts /\ ranges \in {RangesNow, RangeCount} /\ ~config.current
      /\ Filled(ranges, ranges) /\ ranges > 0 /\ range <= ranges
      /\ ranges # RangesNow =>
            config.checkpoint.of # RangesNow /\ onDisk[2].checkpoint.of # RangesNow
  BY <1>1 DEF MaterializationHolds, Materializing
<1>3. utxos = AllAt(facts)
  <2>1. \A k \in Keys : utxos[k] = facts
    BY <1>2, KeysOfRanges DEF Filled
  <2> QED BY <2>1 DEF AllAt, WarehouseTypeOK
<1>4. RangesNow' = RangesNow
  BY <1>1 DEF RangesNow
<1>5. WorkTypeOK'
  BY <1>1 DEF WorkTypeOK, Steps
<1>6. WorkHolds'
  BY <1>1, NoWrite DEF WorkHolds
<1>7. MaterializationHolds'
  BY <1>1, <1>2, <1>3, <1>4, NoWrite DEF MaterializationHolds, Materializing, AllAt
<1> QED BY <1>1, <1>5, <1>6, <1>7, NoWrite

(***************************************************************************)
(* The derived tables are cleared and built from the UTXO rows, then the   *)
(* applied blocks follow (insertCoreCurrentBalances,                       *)
(* insertCoreAppliedBlocks).                                               *)
(***************************************************************************)
LEMMA DeriveStep == AllHolds /\ (ClearDerived \/ InsertBalances \/ InsertAppliedBlocks) => AllHolds'
<1> SUFFICES ASSUME AllHolds, ClearDerived \/ InsertBalances \/ InsertAppliedBlocks PROVE AllHolds'
  OBVIOUS
<1> USE DEF AllHolds, PipeTypes, PipeInv
<1>1. /\ UNCHANGED <<metadataVars, state, config, onDisk, facts, utxos, merged, nodeTip>>
      /\ UNCHANGED <<seen, seenTip, ready, next, target, ranges, range>>
      /\ step \in {"derive", "apply"}
  BY DEF ClearDerived, InsertBalances, InsertAppliedBlocks, metadataVars, workVars
<1>2. \/ step = "derive" /\ step' = "derive" /\ balances' \in {NoRows, balances} /\ applied' \in {NoTail, applied}
      \/ step = "derive" /\ step' = "apply" /\ balances' = utxos /\ applied' = applied
      \/ step = "apply" /\ step' = "flags" /\ balances' = balances /\ applied' = seen.process
         /\ writes' = {"current", "noHistory"}
  BY DEF ClearDerived, InsertBalances, InsertAppliedBlocks, metadataVars, workVars
<1>3. /\ seen.process = facts /\ ranges \in {RangesNow, RangeCount} /\ ~config.current
      /\ ranges > 0 /\ range <= ranges /\ utxos = AllAt(facts)
      /\ ranges # RangesNow =>
            config.checkpoint.of # RangesNow /\ onDisk[2].checkpoint.of # RangesNow
      /\ step = "apply" => balances = AllAt(facts)
  BY <1>1 DEF MaterializationHolds, Materializing
<1>4. RangesNow' = RangesNow /\ AllAt(facts)' = AllAt(facts)
  BY <1>1 DEF RangesNow, AllAt
<1>5. MetadataTypeOK' /\ CommitOrder'
  BY <1>1, MetadataKept
<1>6. WarehouseTypeOK'
  <2>1. NoRows \in [Keys -> Tails] /\ NoTail \in Tails
    BY PipelineConstants DEF NoRows, Tails, NoTail
  <2> QED BY <1>1, <1>2, <1>3, <2>1 DEF WarehouseTypeOK
<1>7. WorkTypeOK'
  BY <1>1, <1>2 DEF WorkTypeOK, Steps
<1>8. WorkHolds'
  BY <1>1, <1>2 DEF WorkHolds
<1>9. MaterializationHolds'
  BY <1>1, <1>2, <1>3, <1>4 DEF MaterializationHolds, Materializing
<1>10. ReadyStateIsComplete'
  BY <1>1, <1>3 DEF ReadyStateIsComplete
<1> QED BY <1>5, <1>6, <1>7, <1>8, <1>9, <1>10

(***************************************************************************)
(* A flag is written and flushed: the current state is declared ready when *)
(* it is complete, the history when the row is online.                     *)
(***************************************************************************)
LEMMA WriteFlagStep == AllHolds /\ WriteFlag => AllHolds'
<1> SUFFICES ASSUME AllHolds, WriteFlag PROVE AllHolds'
  OBVIOUS
<1> USE DEF AllHolds, PipeTypes, PipeInv
<1>1. PICK w \in writes : Durably(state, Written(w)) /\ writes' = writes \ {w}
  BY DEF WriteFlag
<1>2. /\ UNCHANGED <<warehouseVars, facts, utxos, balances, applied, merged, nodeTip>>
      /\ UNCHANGED <<seen, seenTip, ready, next, target, ranges, range, tables, step>>
      /\ step \in {"flags", "promoted"}
  BY DEF WriteFlag, warehouseVars
<1> DEFINE c == Written(w)
<1>3. \/ step = "flags" /\ w \in {"current", "noHistory"}
      \/ step = "promoted" /\ w \in {"stage", "history", "factTail"}
  BY <1>2 DEF WorkHolds
<1>4. /\ seen.process = state.process /\ state.stage # "none" /\ config.stage # "none"
      /\ step = "promoted" => state.stage = "online" /\ config.current
  BY <1>2 DEF WorkHolds
<1>5. /\ c \in Config /\ c.checkpoint = config.checkpoint /\ c.syncTail = config.syncTail
      /\ c.processTail = config.processTail /\ c.factTail \in {config.factTail, seen.process}
      /\ c.stage \in {config.stage, "online"}
      /\ c.current = (config.current \/ w = "current")
      /\ c.history => config.history \/ w = "history"
  <2>1. config \in Config /\ seen.process \in Tails
    BY DEF MetadataTypeOK, WorkTypeOK, State
  <2>2. CASE w = "current"
    BY <2>1, <2>2 DEF Written, Config
  <2>3. CASE w = "noHistory"
    BY <2>1, <2>3 DEF Written, Config
  <2>4. CASE w = "stage"
    BY <2>1, <2>4 DEF Written, Config, Stages
  <2>5. CASE w = "history"
    BY <2>1, <2>5 DEF Written, Config
  <2>6. CASE w = "factTail"
    BY <2>1, <2>6 DEF Written, Config
  <2> QED BY <1>3, <2>2, <2>3, <2>4, <2>5, <2>6
<1> HIDE DEF c
<1>6. /\ state \in State /\ facts \in Tails /\ nodeTip \in Nat
      /\ state.sync <= state.sync /\ state.sync <= nodeTip /\ state.process <= state.process
  BY PipelineConstants
     DEF WarehouseTypeOK, WorkTypeOK, MetadataTypeOK, CommitOrder, State, Tails, NoTail
<1>7. PairHolds(state, c)
  BY <1>3, <1>4, <1>5, <1>6 DEF CommitOrder, PairHolds
<1>8. MetadataTypeOK' /\ CommitOrder' /\ state' = state /\ config' = c
  <2>1. state' = state /\ config' = c /\ Durably(state, c)
    BY <1>1 DEF Durably, c
  <2> QED BY <1>2, <1>5, <1>6, <1>7, <2>1, Write
<1>9. onDisk'[2] = c
  BY <1>1 DEF Durably, c
<1>10. WarehouseTypeOK'
  BY <1>2 DEF WarehouseTypeOK
<1>11. WorkTypeOK'
  BY <1>2 DEF WorkTypeOK
<1>12. WorkHolds'
  BY <1>1, <1>2, <1>3, <1>4, <1>5, <1>8 DEF WorkHolds
<1>13. MaterializationHolds'
  <2>1. RangesNow' = RangesNow /\ AllAt(facts)' = AllAt(facts)
    BY <1>2 DEF RangesNow, AllAt
  <2> QED BY <1>2, <1>5, <1>8, <1>9, <2>1 DEF MaterializationHolds, Materializing
<1>14. ReadyStateIsComplete'
  <2>1. c.current => utxos = AllAt(facts) /\ balances = AllAt(facts) /\ applied = facts
    BY <1>3, <1>5 DEF ReadyStateIsComplete, MaterializationHolds
  <2> QED BY <1>2, <1>8, <2>1 DEF ReadyStateIsComplete, AllAt
<1> QED BY <1>8, <1>10, <1>11, <1>12, <1>13, <1>14

(***************************************************************************)
(* The checkpoint is dropped, in memory and on disk, when the flags are    *)
(* written (deleteByPrefix).                                               *)
(***************************************************************************)
LEMMA DropCheckpointStep == AllHolds /\ DropCheckpoint => AllHolds'
<1> SUFFICES ASSUME AllHolds, DropCheckpoint PROVE AllHolds'
  OBVIOUS
<1> USE DEF AllHolds, PipeTypes, PipeInv
<1> DEFINE c == [config EXCEPT !.checkpoint = NoCheckpoint]
<1>1. /\ UNCHANGED <<warehouseVars, workVars, facts, utxos, merged, nodeTip>>
      /\ step = "flags" /\ step' = "promote" /\ writes = {}
      /\ state' = state /\ config' = c /\ onDisk' = <<state, c>>
  BY DEF DropCheckpoint, Durably, warehouseVars
<1>2. NoCheckpoint \in Checkpoint /\ NoCheckpoint.of = 0 /\ NoCheckpoint.done = 0 /\ NoCheckpoint.asOf = NoTail
  BY PipelineConstants DEF NoCheckpoint, Checkpoint, Tails, NoTail
<1>3. /\ c \in Config /\ c.checkpoint = NoCheckpoint /\ c.current = config.current
      /\ c.history = config.history /\ c.stage = config.stage /\ c.syncTail = config.syncTail
      /\ c.processTail = config.processTail /\ c.factTail = config.factTail
  BY <1>2 DEF MetadataTypeOK, Config
<1> HIDE DEF c
<1>4. config.current /\ state \in State /\ config.stage # "none"
  BY <1>1 DEF WorkHolds, MetadataTypeOK
<1>5. PairHolds(state, c)
  <2>1. PairHolds(state, config)
    BY DEF CommitOrder
  <2>2. c.checkpoint.asOf <= state.process
    BY <1>2, <1>3, <1>4, PipelineConstants DEF State, Tails, NoTail
  <2>3. c.checkpoint.done <= c.checkpoint.of /\ c.checkpoint.of = 0
    BY <1>2, <1>3
  <2> QED BY <1>3, <2>1, <2>2, <2>3 DEF PairHolds
<1>6. onDisk'[1] = state /\ onDisk'[2] = c /\ RangesNow' = RangesNow
  BY <1>1 DEF RangesNow
<1>7. CommitOrder'
  <2>1. /\ state.process <= state.process /\ state.process <= facts
        /\ facts <= state.sync /\ state.sync <= state.sync /\ state.sync <= nodeTip
    BY PipelineConstants
       DEF CommitOrder, MetadataTypeOK, WarehouseTypeOK, State, Tails, NoTail
  <2>2. PairHolds(state, config)' /\ PairHolds(onDisk[1], onDisk[2])'
    BY <1>1, <1>5, <1>6 DEF PairHolds
  <2>3. ~Resumable(config.checkpoint)' /\ ~Resumable(onDisk[2].checkpoint)'
    BY <1>1, <1>2, <1>3, <1>6 DEF Resumable
  <2> QED BY <1>1, <1>6, <2>1, <2>2, <2>3 DEF CommitOrder
<1>8. MetadataTypeOK'
  BY <1>1, <1>3, <1>4 DEF MetadataTypeOK
<1>9. WorkTypeOK'
  BY <1>1 DEF workVars, WorkTypeOK, Steps
<1>10. WorkHolds'
  BY <1>1, <1>3, <1>4 DEF workVars, WorkHolds
<1>11. MaterializationHolds'
  BY <1>1, NotMaterializing DEF Materializing
<1>12. WarehouseTypeOK' /\ ReadyStateIsComplete'
  BY <1>1, <1>3, ReadyKept
<1> QED BY <1>7, <1>8, <1>9, <1>10, <1>11, <1>12

(***************************************************************************)
(* The row goes online only when the current state is ready                *)
(* (promoteBackfillToOnline).                                              *)
(***************************************************************************)
LEMMA PromoteStep == AllHolds /\ PromoteToOnline => AllHolds'
<1> SUFFICES ASSUME AllHolds, PromoteToOnline PROVE AllHolds'
  OBVIOUS
<1> USE DEF AllHolds, PipeTypes, PipeInv
<1> DEFINE row == [ToStage("online") EXCEPT !.failed = FALSE]
<1>1. /\ UNCHANGED <<warehouseVars, merged, nodeTip, seen, seenTip, ready, next, target>>
      /\ UNCHANGED <<ranges, range>> /\ Relaxed(row, config) /\ step' = "promoted"
      /\ writes' = {"stage", "history", "factTail"}
  BY DEF PromoteToOnline
<1>0. step = "promote" \/ (step = "backfill" /\ ready)
  BY DEF PromoteToOnline
<1>2. /\ ToStage("online") \in State /\ ToStage("online").stage = "online"
      /\ ToStage("online").sync = state.sync /\ ToStage("online").process = state.process
  BY ToStageRow DEF MetadataTypeOK, WorkTypeOK, Stages
<1>3. /\ row \in State /\ row.stage = "online" /\ row.sync = state.sync
      /\ row.process = state.process
  BY <1>2 DEF State
<1> HIDE DEF row
<1>4. state.sync <= state.sync /\ state.sync <= nodeTip
  BY PipelineConstants DEF CommitOrder, MetadataTypeOK, State, Tails, NoTail
<1>5. /\ MetadataTypeOK' /\ CommitOrder' /\ WarehouseTypeOK' /\ ReadyStateIsComplete'
      /\ state' = row /\ config' = config
  BY <1>1, <1>3, <1>4, RowWrite
<1>6. WorkTypeOK'
  BY <1>1 DEF WorkTypeOK, Steps
<1>7. config.current
  BY <1>0 DEF WorkHolds
<1>8. WorkHolds'
  BY <1>0, <1>1, <1>3, <1>5, <1>7 DEF WorkHolds
<1>9. MaterializationHolds'
  BY <1>1, NotMaterializing DEF Materializing
<1> QED BY <1>5, <1>6, <1>8, <1>9

(***************************************************************************)
(* The iteration that promoted ends.                                       *)
(***************************************************************************)
LEMMA PromotedStep == AllHolds /\ Promoted => AllHolds'
<1> SUFFICES ASSUME AllHolds, Promoted PROVE AllHolds'
  OBVIOUS
<1> USE DEF AllHolds, PipeTypes, PipeInv
<1>1. UNCHANGED <<metadataVars, warehouseVars, workVars, merged, nodeTip>> /\ step' = "idle"
  BY DEF Promoted
<1>2. WorkTypeOK'
  BY <1>1 DEF workVars, WorkTypeOK, Steps
<1>3. WorkHolds'
  BY <1>1 DEF WorkHolds
<1>4. MaterializationHolds'
  BY <1>1, NotMaterializing DEF Materializing
<1> QED BY <1>1, <1>2, <1>3, <1>4, NoWrite

-----------------------------------------------------------------------------
(***************************************************************************)
(* The node finds a block: every tail stays below its tip.                 *)
(***************************************************************************)
LEMMA NodeAdvancesStep == AllHolds /\ NodeAdvances => AllHolds'
<1> SUFFICES ASSUME AllHolds, NodeAdvances PROVE AllHolds'
  OBVIOUS
<1> USE DEF AllHolds, PipeTypes, PipeInv
<1>1. /\ UNCHANGED <<state, config, onDisk, facts, utxos, balances, applied, merged, step>>
      /\ UNCHANGED <<seen, seenTip, ready, next, target, ranges, range, tables, writes>>
      /\ nodeTip < MaxTip /\ nodeTip' = nodeTip + 1
  BY DEF NodeAdvances, metadataVars, warehouseVars, workVars
<1>2. MetadataTypeOK' /\ WarehouseTypeOK'
  BY <1>1 DEF MetadataTypeOK, WarehouseTypeOK
<1>3. WorkTypeOK'
  BY <1>1, PipelineConstants DEF WorkTypeOK
<1>4. state.sync <= nodeTip + 1 /\ onDisk[1].sync <= nodeTip + 1
  BY PipelineConstants DEF CommitOrder, MetadataTypeOK, WorkTypeOK, State, Tails, NoTail
<1>8. seenTip <= nodeTip => seenTip <= nodeTip + 1
  BY PipelineConstants DEF MetadataTypeOK, WorkTypeOK, Tails, NoTail
<1>5. CommitOrder'
  BY <1>1, <1>4 DEF CommitOrder, PairHolds, Resumable, Filled, RangesNow
<1>6. WorkHolds'
  BY <1>1, <1>4, <1>8 DEF WorkHolds
<1>7. MaterializationHolds' /\ ReadyStateIsComplete'
  BY <1>1 DEF MaterializationHolds, ReadyStateIsComplete, Materializing, Resumable, Filled,
              RangesNow, AllAt
<1> QED BY <1>2, <1>3, <1>5, <1>6, <1>7

(***************************************************************************)
(* The parts merge: a checkpoint of more ranges is no longer resumed, and  *)
(* none of a single range was written before.                              *)
(***************************************************************************)
LEMMA MergePartsStep == AllHolds /\ MergeParts => AllHolds'
<1> SUFFICES ASSUME AllHolds, MergeParts PROVE AllHolds'
  OBVIOUS
<1> USE DEF AllHolds, PipeTypes, PipeInv
<1>1. /\ UNCHANGED <<state, config, onDisk, facts, utxos, balances, applied, nodeTip, step>>
      /\ UNCHANGED <<seen, seenTip, ready, next, target, ranges, range, tables, writes>>
      /\ ~merged /\ merged'
  BY DEF MergeParts, metadataVars, warehouseVars, workVars
<1>2. RangesNow = RangeCount /\ RangesNow' = 1
  BY <1>1 DEF RangesNow
<1>3. MetadataTypeOK' /\ WarehouseTypeOK'
  BY <1>1 DEF MetadataTypeOK, WarehouseTypeOK
<1>4. WorkTypeOK'
  <2>1. merged' \in BOOLEAN
    BY DEF MergeParts
  <2> QED BY <1>1, <2>1 DEF WorkTypeOK
<1>5. /\ config.checkpoint.of \in {0, RangeCount} /\ onDisk[2].checkpoint.of \in {0, RangeCount}
  BY <1>2 DEF CommitOrder, PairHolds
<1>6. /\ Resumable(config.checkpoint)' => Resumable(config.checkpoint)
      /\ Resumable(onDisk[2].checkpoint)' => Resumable(onDisk[2].checkpoint)
      /\ Resumable(onDisk[2].checkpoint)' /\ Resumable(config.checkpoint) => Resumable(config.checkpoint)'
  BY <1>1, <1>2, <1>5 DEF Resumable
<1>7. CommitOrder'
  <2>1. PairHolds(state, config)' /\ PairHolds(onDisk[1], onDisk[2])'
    BY <1>1, <1>2, <1>5 DEF CommitOrder, PairHolds
  <2> QED BY <1>1, <1>6, <2>1 DEF CommitOrder, Filled
<1>8. WorkHolds'
  BY <1>1 DEF WorkHolds
<1>9. MaterializationHolds'
  BY <1>1, <1>2, <1>5, <1>6 DEF MaterializationHolds, Materializing, Filled, AllAt
<1>10. ReadyStateIsComplete'
  BY <1>1 DEF ReadyStateIsComplete, AllAt
<1> QED BY <1>3, <1>4, <1>7, <1>8, <1>9, <1>10

(***************************************************************************)
(* An iteration that ends without its last step leaves nothing in hand.    *)
(***************************************************************************)
LEMMA Forgotten ==
  ASSUME WorkTypeOK, ForgetWork, UNCHANGED <<merged, nodeTip>>
  PROVE  WorkTypeOK' /\ WorkHolds' /\ MaterializationHolds'
<1>1. NoState \in State
  BY PipelineConstants DEF NoState, State, Stages, Tails, NoTail
<1>2. WorkTypeOK'
  <2>1. /\ seen' = NoState /\ next' = "idle" /\ target' = NoTail /\ ranges' = 0 /\ range' = 0
        /\ seenTip' = NoTail /\ step' = "idle" /\ tables' = <<>> /\ writes' = {}
    BY DEF ForgetWork
  <2>2. ready' \in BOOLEAN /\ resumed' \in BOOLEAN /\ merged' \in BOOLEAN
    BY DEF ForgetWork, WorkTypeOK
  <2>3. NoTail \in Tails /\ 0 \in 0 .. RangeCount
    BY PipelineConstants DEF Tails, NoTail
  <2> QED BY <1>1, <2>1, <2>2, <2>3 DEF WorkTypeOK, Steps
<1>3. WorkHolds'
  BY DEF ForgetWork, WorkHolds
<1>4. MaterializationHolds'
  BY NotMaterializing DEF ForgetWork, Materializing
<1> QED BY <1>2, <1>3, <1>4

(***************************************************************************)
(* The process dies, is ended by the watchdog or fails: the row may record *)
(* an error, its stage and its tails stay (setCoreIndexerError).           *)
(***************************************************************************)
LEMMA ProcessFaultStep ==
  AllHolds /\ (ProcessDies \/ WatchdogExpires \/ IterationFails) => AllHolds'
<1> SUFFICES ASSUME AllHolds, ProcessDies \/ WatchdogExpires \/ IterationFails PROVE AllHolds'
  OBVIOUS
<1> USE DEF AllHolds, PipeTypes, PipeInv
<1>1. /\ ForgetWork /\ UNCHANGED <<warehouseVars, merged, nodeTip>>
      /\ UNCHANGED metadataVars \/ Relaxed(WithError, config)
  BY DEF ProcessDies, WatchdogExpires, IterationFails
<1>2. /\ WithError \in State /\ WithError.stage # "none"
      /\ WithError.sync = state.sync /\ WithError.process = state.process
      /\ state.stage = "online" => WithError.stage = "online"
  BY WithErrorRow DEF MetadataTypeOK
<1>3. config.history => WithError.stage = "online"
  BY <1>2 DEF CommitOrder, PairHolds
<1>4. state.sync <= state.sync /\ state.sync <= nodeTip
  BY PipelineConstants DEF CommitOrder, MetadataTypeOK, State, Tails, NoTail
<1>5. MetadataTypeOK' /\ CommitOrder' /\ WarehouseTypeOK' /\ ReadyStateIsComplete'
  BY <1>1, <1>2, <1>3, <1>4, RowWrite, NoWrite
<1> QED BY <1>1, <1>5, Forgotten

(***************************************************************************)
(* The metadata database crashes: the pair on disk is taken back, and what *)
(* is asked of the pair in memory was asked of it too.                     *)
(***************************************************************************)
LEMMA MetadataCrashStep == AllHolds /\ MetadataCrashes => AllHolds'
<1> SUFFICES ASSUME AllHolds, MetadataCrashes PROVE AllHolds'
  OBVIOUS
<1> USE DEF AllHolds, PipeTypes, PipeInv
<1>1. /\ ForgetWork /\ UNCHANGED <<warehouseVars, facts, utxos, merged, nodeTip>>
      /\ state' = onDisk[1] /\ config' = onDisk[2] /\ onDisk' = onDisk
  BY DEF MetadataCrashes, warehouseVars
<1>2. MetadataTypeOK'
  BY <1>1 DEF MetadataTypeOK
<1>3. CommitOrder'
  <2>1. PairHolds(state, config)' /\ PairHolds(onDisk[1], onDisk[2])'
    BY <1>1 DEF CommitOrder, PairHolds, RangesNow
  <2>2. /\ onDisk[1].process <= onDisk[1].process /\ onDisk[1].process <= facts
        /\ onDisk[1].sync <= onDisk[1].sync /\ onDisk[1].sync <= nodeTip
    BY PipelineConstants
       DEF CommitOrder, MetadataTypeOK, WarehouseTypeOK, WorkTypeOK, State, Tails, NoTail
  <2> QED BY <1>1, <2>1, <2>2 DEF CommitOrder, Resumable, Filled, RangesNow
<1>4. WarehouseTypeOK' /\ ReadyStateIsComplete'
  <2>1. config'.current => config.current
    BY <1>1 DEF CommitOrder
  <2> QED BY <1>1, <2>1, ReadyKept
<1> QED BY <1>1, <1>2, <1>3, <1>4, Forgotten

-----------------------------------------------------------------------------
(***************************************************************************)
(* The invariant holds of an empty database, with or without raw blocks    *)
(* that were stored before the row existed ...                             *)
(***************************************************************************)
LEMMA PipeStart == PipeInit => AllHolds
<1> SUFFICES ASSUME PipeInit PROVE AllHolds
  OBVIOUS
<1>1. PICK t \in {NoTail, 0} :
        config = [stage |-> "none", syncTail |-> t, processTail |-> NoTail,
                  factTail |-> NoTail, current |-> FALSE, history |-> FALSE,
                  refs |-> FALSE, checkpoint |-> NoCheckpoint]
  BY DEF PipeInit
<1>2. NoState \in State
  BY PipelineConstants DEF NoState, State, Stages, Tails, NoTail
<1>3. NoCheckpoint \in Checkpoint
  BY PipelineConstants DEF NoCheckpoint, Checkpoint, Tails, NoTail
<1>4. /\ config \in Config /\ config.checkpoint = NoCheckpoint /\ ~config.current
      /\ ~config.history /\ config.stage = "none"
      /\ config.processTail = NoTail /\ config.factTail = NoTail
  BY <1>1, <1>3, PipelineConstants DEF Config, Stages, Tails, NoTail
<1>5. /\ state = NoState /\ onDisk = <<state, config>> /\ facts = NoTail /\ applied = NoTail
      /\ utxos = NoRows /\ balances = NoRows /\ ~merged /\ merged \in BOOLEAN
      /\ step = "idle" /\ nodeTip = StartHeight
  BY DEF PipeInit
<1>6. PipeTypes
  <2>1. NoRows \in [Keys -> Tails] /\ NoTail \in Tails /\ nodeTip \in 0 .. MaxTip
    BY <1>5, PipelineConstants DEF NoRows, Tails, NoTail
  <2>2. WorkTypeOK
    <3>1. /\ next = "idle" /\ seen = NoState /\ seenTip = NoTail /\ target = NoTail
          /\ ranges = 0 /\ range = 0
      BY DEF PipeInit
    <3>2. ready \in BOOLEAN
      BY DEF PipeInit
    <3> QED BY <1>2, <1>5, <2>1, <3>1, <3>2, PipelineConstants DEF WorkTypeOK, Steps
  <2> QED BY <1>2, <1>4, <1>5, <2>1, <2>2 DEF PipeTypes, MetadataTypeOK, WarehouseTypeOK
<1>7. PairHolds(NoState, config) /\ ~Resumable(config.checkpoint)
  BY <1>4, RangesNowType, PipelineConstants DEF PairHolds, Resumable, NoState, NoCheckpoint, NoTail
<1>8. CommitOrder
  BY <1>4, <1>5, <1>7, PipelineConstants DEF CommitOrder, NoState, NoTail
<1> QED BY <1>4, <1>5, <1>6, <1>8
        DEF AllHolds, PipeInv, WorkHolds, MaterializationHolds, Materializing, ReadyStateIsComplete

(***************************************************************************)
(* ... and every step keeps it.                                            *)
(***************************************************************************)
LEMMA PipeInvariance == AllHolds /\ [PipeNext]_pipeVars => AllHolds'
<1> SUFFICES ASSUME AllHolds, [PipeNext]_pipeVars PROVE AllHolds'
  OBVIOUS
<1>1. CASE UNCHANGED pipeVars
  <2>1. /\ UNCHANGED <<state, config, onDisk, facts, utxos, balances, applied, merged, step>>
        /\ UNCHANGED <<seen, seenTip, ready, next, target, ranges, range, tables, writes, nodeTip>>
    BY <1>1 DEF pipeVars, metadataVars, warehouseVars, workVars
  <2>2. MetadataTypeOK' /\ CommitOrder'
    BY <2>1, MetadataKept DEF AllHolds, PipeTypes, PipeInv, metadataVars
  <2>3. WarehouseTypeOK' /\ WorkTypeOK'
    BY <2>1 DEF AllHolds, PipeTypes, WarehouseTypeOK, WorkTypeOK
  <2>4. WorkHolds' /\ ReadyStateIsComplete'
    BY <2>1 DEF AllHolds, PipeInv, WorkHolds, ReadyStateIsComplete, AllAt
  <2>5. MaterializationHolds'
    BY <2>1 DEF AllHolds, PipeInv, MaterializationHolds, Materializing, Resumable, Filled,
                RangesNow, AllAt
  <2> QED BY <2>2, <2>3, <2>4, <2>5 DEF AllHolds, PipeTypes, PipeInv
<1>2. CASE PipeStep
  BY <1>2, BeginIterationStep, EnsureStateStep, MarkRefsStep, PublishProgressStep,
     StartProcessingStep, AnnounceStageStep, StartSyncStep, CheckpointSyncTailStep,
     SyncWindowDoneStep, ReadReadyStep, BackfillWindowStep, ReturnToSyncStep, OnlineWindowStep,
     OnlineNoWorkStep, StartMaterializationStep, ClearTableStep, InsertRangeStep,
     CheckpointRangeStep, RangesDoneStep, DeriveStep, WriteFlagStep, DropCheckpointStep,
     PromoteStep, PromotedStep
     DEF PipeStep
<1>3. CASE ~PipeStep /\ PipeNext
  BY <1>3, NodeAdvancesStep, MergePartsStep, ProcessFaultStep, MetadataCrashStep DEF PipeNext
<1> QED BY <1>1, <1>2, <1>3

(***************************************************************************)
(* The invariant of the pipeline, under any schedule.                      *)
(***************************************************************************)
LEMMA PipeAlways == PipeSpec => []AllHolds
BY PipeStart, PipeInvariance, PTL DEF PipeSpec

(***************************************************************************)
(* The types: every tail stays below the bound, the ranges that are done   *)
(* are never more than there are.                                          *)
(***************************************************************************)
THEOREM PipeTypeCorrect == PipeSpec => []PipeTypeOK
<1>1. AllHolds => PipeTypeOK
  BY DEF AllHolds, PipeTypes, PipeInv, PipeTypeOK, MetadataTypeOK, WarehouseTypeOK, WorkTypeOK,
         CommitOrder, PairHolds, State
<1> QED BY <1>1, PipeAlways, PTL

(***************************************************************************)
(* What the API reads holds: the current state is complete when it is      *)
(* declared ready, the history is served only online, and no tail is ahead *)
(* of what was reached, for any number of ranges and faults, whatever the  *)
(* crashes of the metadata database take back.                             *)
(***************************************************************************)
THEOREM PublishedState == PipeSpec => []PublishedStateHolds
<1>1. AllHolds => PublishedStateHolds
  BY DEF AllHolds, PipeInv, CommitOrder, PairHolds, PublishedStateHolds, ReadyStateIsComplete,
         HistoryIsServedOnline, PublishedTailsAreReached
<1> QED BY <1>1, PipeAlways, PTL
=============================================================================
