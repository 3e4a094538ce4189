----------------------------- MODULE CoreWindow -----------------------------
(***************************************************************************)
(* One indexer process applying windows of blocks to the warehouse behind  *)
(* a write-ahead recovery marker.                                          *)
(*                                                                         *)
(* Two stores share no durability boundary.  The metadata database holds   *)
(* the marker and the process tail; the warehouse holds the rows of the    *)
(* windows, in fact tables that are inserted side by side, in the current- *)
(* state tables and, last, in the table of processed blocks.  Nothing is a *)
(* transaction: every statement is a step, a call that fails may leave its *)
(* insert running on the server, and the process, the host or the metadata *)
(* database may stop between any two steps.                                *)
(*                                                                         *)
(* A block is a height and the fork (0, 1, ...) it belongs to; what a      *)
(* block contains is left out.  A row of a table is its block.             *)
(***************************************************************************)
EXTENDS Integers, FiniteSets

CONSTANTS
  Online,      \* TRUE: stage online; FALSE: stage process_backfill
  Depth,       \* settings.coreReprocessDepth
  WindowSize,  \* settings.coreProcessWindow, coreBackfillWindowBlocks
  Early, Late, \* the fact tables a rewind deletes before and after the
               \* processed blocks
  FirstTip,    \* height of the node when the model starts
  MaxHeight,   \* bound: highest block
  MaxFork,     \* bound: number of reorganizations
  MaxShrink,   \* bound: times the node reports a lower tip
  MaxFaults,   \* bound: number of faults
  Faults       \* the kinds of faults: subset of FaultKinds

FaultKinds == {"error", "reconcile", "death", "power", "metadata"}

ASSUME WindowConstants ==
  /\ Online \in BOOLEAN
  /\ Depth \in Nat \ {0} /\ WindowSize \in Nat \ {0}
  /\ Early \cap Late = {} /\ IsFiniteSet(Early \cup Late)
  /\ {"processed", "current", "refs"} \cap (Early \cup Late) = {}
  /\ FirstTip \in Nat /\ MaxHeight \in Nat /\ FirstTip <= MaxHeight
  /\ MaxFork \in Nat /\ MaxShrink \in Nat /\ MaxFaults \in Nat
  /\ Faults \subseteq FaultKinds

None    == -1
Heights == 0 .. MaxHeight
Forks   == 0 .. MaxFork
Block   == Heights \X Forks
Facts   == Early \cup Late
Tables  == Facts \cup {"processed", "current", "refs"}

VARIABLES
  \* the node
  tip,        \* its best height
  chain,      \* chain[h]: fork of the block at height h (or to come there)
  branch,     \* branch[f]: height of the first block of fork f and its parent's fork
  shrinks,    \* times the tip went down
  \* the metadata database
  marker,     \* app_config row of the recovery marker, NoMarker if absent
  tail,       \* core_indexer_state.process_tail
  onlineTip,  \* core_indexer_state.online_tip (and sync_tail, once online)
  durable,    \* what of <<marker, tail, onlineTip>> has been flushed
  \* the warehouse
  rows,       \* rows[t]: the blocks whose rows fact table t holds
  twice,      \* twice[t]: the blocks whose rows t holds more than once
  processed,  \* processed[h]: fork of the newest processed-block row, or None
  current,    \* the blocks the current-state tables reflect
  refs,       \* the heights whose transactions raw sync has indexed
  running,    \* inserts the server is executing
  \* the process
  pc,
  latest,     \* node height read by this iteration
  seenTail,   \* process tail read by this iteration
  synced,     \* the chain as raw sync stored it
  window,     \* the blocks of the window
  pending,    \* those of them to insert
  from,       \* first height a rewind removes
  todo,       \* tables the rewind has still to delete from
  after,      \* where the rewind returns to
  awaited,    \* tables whose insert is awaited
  failed,     \* an awaited insert failed
  reconciled, \* this.warehouseTailReconciled
  faults      \* faults so far

node == <<tip, chain, branch, shrinks>>
metadata == <<marker, tail, onlineTip, durable>>
warehouse == <<rows, twice, processed, current, refs, running>>
rewind == <<from, todo, after>>
local == <<latest, seenTail, synced, window, pending, rewind, awaited, failed, reconciled>>
vars == <<node, metadata, warehouse, pc, local, faults>>

NoMarker == [start |-> None, end |-> None]
NoBranch == [at |-> None, parent |-> None]
Top(S)   == IF S = {} THEN None ELSE CHOOSE h \in S : \A k \in S : k <= h
Lower(a, b) == IF a < b THEN a ELSE b
Upper(a, b) == IF a > b THEN a ELSE b

\* Fork of the parent of block <<h, f>>: the previous block hash.
Parent(h, f) == IF h = branch[f].at THEN branch[f].parent ELSE f

\* getCoreProcessedTail
WarehouseTail == Top({h \in Heights : processed[h] # None})

\* Variant: blocks below the tail are not processed again.
StartAtTail(target) == Lower(seenTail + 1, target)

\* Variant: the window follows the target however far the tail is behind it.
StartNearTarget(target) == Upper(0, target - Depth + 1)

\* onlineProcessWindowStart
OnlineStart(target) ==
  Upper(0, Lower(seenTail + 1, Lower(seenTail, target) - Depth + 1))

\* Heights of a set of blocks.
HeightsOf(blocks) == {b[1] : b \in blocks}
Bottom(S) == CHOOSE h \in S : \A k \in S : h <= k

\* In the online stage blocks 0 .. FirstTip are processed already.
Done == IF Online THEN 0 .. FirstTip ELSE {}

Init ==
  /\ tip = FirstTip /\ shrinks = 0
  /\ chain = [h \in Heights |-> 0]
  /\ branch = [f \in Forks |-> NoBranch]
  /\ marker = NoMarker
  /\ tail = Top(Done)
  /\ onlineTip = FirstTip
  /\ durable = <<marker, tail, onlineTip>>
  /\ rows = [t \in Facts |-> Done \X {0}]
  /\ twice = [t \in Facts |-> {}]
  /\ processed = [h \in Heights |-> IF h \in Done THEN 0 ELSE None]
  /\ current = Done \X {0}
  /\ refs = 0 .. FirstTip
  /\ running = {}
  /\ pc = "start"
  /\ latest = FirstTip /\ seenTail = tail
  /\ synced = chain
  /\ window = {} /\ pending = {}
  /\ from = 0 /\ todo = {} /\ after = "start"
  /\ awaited = {} /\ failed = FALSE
  /\ reconciled = FALSE
  /\ faults = 0

-----------------------------------------------------------------------------
(* The start of an iteration: runDogecoinConfig                            *)

Goto(next) == pc' = next

\* start()
StartProcess ==
  /\ pc = "start"
  /\ Goto("idle")
  /\ UNCHANGED <<node, metadata, warehouse, local, faults>>

\* getBlockHeight
ReadTip ==
  /\ pc = "idle"
  /\ latest' = tip
  /\ Goto("marker")
  /\ UNCHANGED <<node, metadata, warehouse, seenTail, synced, window, pending, rewind,
                 awaited, failed, reconciled, faults>>

\* Calls rewindCoreDogecoinWindow(height) and returns to label next.
Rewind(height, next) ==
  /\ from' = height
  /\ todo' = Facts \cup {"processed", "refs"}
  /\ after' = next
  /\ Goto("drain")

\* recoverPendingCoreApplyIfNeeded: a marker left behind is recovered first.
\* The window variable holds the marker's heights until it is cleared.
ReadMarker ==
  /\ pc = "marker"
  /\ IF marker = NoMarker
       THEN Goto("tail") /\ UNCHANGED rewind
       ELSE Rewind(marker.start, "recovered")
  /\ UNCHANGED <<node, metadata, warehouse, latest, seenTail, synced, window, pending,
                 awaited, failed, reconciled, faults>>

\* The recovered marker is deleted.
ClearRecovered ==
  /\ pc = "recovered"
  /\ marker' = NoMarker
  /\ Goto("tail")
  /\ UNCHANGED <<node, tail, onlineTip, durable, warehouse, local, faults>>

\* ensureState, then reconcileProcessTailWithWarehouse: once per process, and
\* the flag is set before the rewind has happened.
ReadTail ==
  /\ pc = "tail"
  /\ seenTail' = tail
  /\ reconciled' = TRUE
  /\ IF reconciled \/ WarehouseTail >= tail
       THEN Goto("plan") /\ UNCHANGED rewind
       ELSE Rewind(WarehouseTail + 1, "retail")
  /\ UNCHANGED <<node, metadata, warehouse, latest, synced, window, pending, awaited,
                 failed, faults>>

\* Variant: the recorded tail stays where it was.
KeepTail ==
  /\ pc = "retail"
  /\ Goto("plan")
  /\ UNCHANGED <<node, metadata, warehouse, local, faults>>

\* ... and the recorded tail follows the warehouse.
LowerTail ==
  /\ pc = "retail"
  /\ tail' = from - 1
  /\ seenTail' = from - 1
  /\ Goto("plan")
  /\ UNCHANGED <<node, marker, onlineTip, durable, warehouse, latest, synced, window, pending,
                 rewind, awaited, failed, reconciled, faults>>

-----------------------------------------------------------------------------
(* Rewinding the warehouse: rewindCoreDogecoinWindow                       *)

\* Variant: the rewind does not wait for running inserts.
DrainAtOnce ==
  /\ pc = "drain"
  /\ Goto("delete")
  /\ UNCHANGED <<node, metadata, warehouse, local, faults>>

\* waitForCoreWindowInserts: nothing is deleted under a running insert.
Drain ==
  /\ pc = "drain"
  /\ running = {}
  /\ Goto("delete")
  /\ UNCHANGED <<node, metadata, warehouse, local, faults>>

Below(blocks) == {b \in blocks : b[1] < from}

\* The tables that are emptied before a table.
DeletedBefore(table) ==
  CASE table \in Early       -> {}
    [] table = "processed"   -> Early
    [] table \in Late        -> Early \cup {"processed"}
    [] table = "refs"        -> Facts \cup {"processed"}

\* deleteCoreDogecoinTail, one statement after the other: the creates and
\* spends, the processed blocks, the movements and transactions, and the
\* transaction refs, which only raw sync writes.
DeleteFrom(table) ==
  /\ pc = "delete"
  /\ table \in todo
  /\ todo \cap DeletedBefore(table) = {}
  /\ \/ /\ table = "processed"
        /\ processed' = [h \in Heights |-> IF h < from THEN processed[h] ELSE None]
        /\ UNCHANGED <<rows, twice, refs>>
     \/ /\ table = "refs"
        /\ refs' = {h \in refs : h < from}
        /\ UNCHANGED <<rows, twice, processed>>
     \/ /\ table \in Facts
        /\ rows' = [rows EXCEPT ![table] = Below(@)]
        /\ twice' = [twice EXCEPT ![table] = Below(@)]
        /\ UNCHANGED <<processed, refs>>
  /\ todo' = todo \ {table}
  /\ UNCHANGED <<node, metadata, current, running, pc, latest, seenTail, synced, window,
                 pending, from, after, awaited, failed, reconciled, faults>>

\* Variant: the current state is not rebuilt after a rewind.
DeletedOnly ==
  /\ pc = "delete"
  /\ todo = {}
  /\ Goto(after)
  /\ UNCHANGED <<node, metadata, warehouse, local, faults>>

Deleted ==
  /\ pc = "delete"
  /\ todo = {}
  /\ Goto(IF Online THEN "forget" ELSE after)
  /\ UNCHANGED <<node, metadata, warehouse, local, faults>>

\* rematerializeCoreCurrentStateAt: the current state is cleared ...
ClearCurrent ==
  /\ pc = "forget"
  /\ current' = {}
  /\ Goto("rebuild")
  /\ UNCHANGED <<node, metadata, rows, twice, processed, refs, running, local, faults>>

\* ... and built again from the facts that are left.
RebuildCurrent ==
  /\ pc = "rebuild"
  /\ current' = Below(UNION {rows[t] : t \in Early})
  /\ Goto(after)
  /\ UNCHANGED <<node, metadata, rows, twice, processed, refs, running, local, faults>>

-----------------------------------------------------------------------------
(* Choosing and loading a window                                           *)

\* processBackfill: while raw sync has stored more than is processed.
PlanBackfill ==
  /\ ~Online
  /\ pc = "plan"
  /\ Goto(IF seenTail < FirstTip THEN "load" ELSE "idle")
  /\ UNCHANGED <<node, metadata, warehouse, local, faults>>

\* advanceOnlineBacklog: raw sync follows the node to its tip, storing the
\* newest blocks and their refs again; the window is skipped if neither side
\* has moved.
PlanOnline ==
  /\ Online
  /\ pc = "plan"
  /\ synced' = chain
  /\ onlineTip' = latest
  /\ refs' = IF onlineTip = latest THEN refs
             ELSE refs \cup (Upper(0, Lower(onlineTip + 1, latest - Depth + 1)) .. latest)
  /\ Goto(IF seenTail < latest \/ onlineTip # latest THEN "load" ELSE "idle")
  /\ UNCHANGED <<node, marker, tail, durable, rows, twice, processed, current, running, latest,
                 seenTail, window, pending, rewind, awaited, failed, reconciled, faults>>

\* Online windows end at a fixed height, backfill windows when they hold
\* enough rows.
WindowEnd ==
  LET limit == Lower(IF Online THEN latest ELSE FirstTip, seenTail + WindowSize)
  IN  IF Online THEN {limit} ELSE seenTail + 1 .. limit

WindowStart == IF Online THEN OnlineStart(latest) ELSE seenTail + 1

\* The blocks of a window that raw sync stored, or that the node has now.
Stored(heights) == {<<h, synced[h]>> : h \in heights}
OfNode(heights) == {<<h, chain[h]>> : h \in heights}

\* Highest height the node is trusted for without the stored block.
FinalizedNodeHeight == latest - Depth

\* loadBackfillSnapshots: all stored blocks, or all of the node's, which are
\* read up to the finalized height only.
LoadBackfill ==
  \E end \in WindowEnd :
    \/ window' = Stored(WindowStart .. end)
    \/ end <= FinalizedNodeHeight /\ window' = OfNode(WindowStart .. end)

\* The blocks of an online window are stored once more first: a reorganization
\* while they are fetched tears the window at some height.
LoadOnline ==
  \E end \in WindowEnd, cut \in 0 .. MaxHeight + 1, lowerIsOld \in BOOLEAN :
    LET heights == WindowStart .. end
        old == {h \in heights : (h < cut) = lowerIsOld}
    IN  window' = Stored(old) \cup OfNode(heights \ old)

LoadWindow ==
  /\ pc = "load"
  /\ IF Online THEN LoadOnline ELSE LoadBackfill
  /\ refs' = refs \cup (IF Online THEN HeightsOf(window') ELSE {})
  /\ Goto("mark")
  /\ UNCHANGED <<node, metadata, rows, twice, processed, current, running, latest, seenTail, synced, pending, rewind,
                 awaited, failed, reconciled, faults>>

-----------------------------------------------------------------------------
(* Applying the window: applyWindowApplicationsWithRecovery                *)

\* Variant: the first block of the window is not marked.
ShortMarker == [start |-> Top(HeightsOf(window)), end |-> Top(HeightsOf(window))]

OwnMarker == [start |-> Bottom(HeightsOf(window)), end |-> Top(HeightsOf(window))]

\* setJsonValue, durable at once together with everything written before it.
SetMarker ==
  /\ pc = "mark"
  /\ marker' = OwnMarker
  /\ durable' = <<marker', tail, onlineTip>>
  /\ Goto("check")
  /\ UNCHANGED <<node, tail, onlineTip, warehouse, local, faults>>

\* Heights of the window whose processed block is another one.
Replaced == {b[1] : b \in {c \in window : processed[c[1]] \notin {None, c[2]}}}

\* pendingCoreWindowApplications: a replaced block rewinds everything from its
\* height on; otherwise what is processed already is left out.
CheckProcessed ==
  /\ pc = "check"
  /\ \/ /\ Replaced # {}
        /\ pending' = {b \in window : b[1] >= Bottom(Replaced)}
        /\ Rewind(Bottom(Replaced), "validate")
     \/ /\ Replaced = {}
        /\ pending' = {b \in window : processed[b[1]] = None}
        /\ Goto(IF pending' = {} THEN "unmark" ELSE "validate")
        /\ UNCHANGED rewind
  /\ UNCHANGED <<node, metadata, warehouse, latest, seenTail, synced, window, awaited,
                 failed, reconciled, faults>>

\* Variant: previous block hashes are not compared.
IsRange(blocks) ==
  HeightsOf(blocks) = Bottom(HeightsOf(blocks)) .. Top(HeightsOf(blocks))

\* assertCoreWindowShape: consecutive heights, each block the parent of the next.
IsChain(blocks) ==
  /\ HeightsOf(blocks) = Bottom(HeightsOf(blocks)) .. Top(HeightsOf(blocks))
  /\ \A b, c \in blocks : c[1] = b[1] + 1 => b[2] = Parent(c[1], c[2])

\* Variant: the block before the window is not compared.
FollowsAnything(blocks) == TRUE

\* assertCoreWindowPreviousBlock: a missing predecessor is accepted.
FollowsProcessed(blocks) ==
  \A b \in blocks :
    b[1] = Bottom(HeightsOf(blocks)) /\ b[1] > 0 =>
      processed[b[1] - 1] \in {None, Parent(b[1], b[2])}

Valid(blocks) == IsChain(blocks) /\ FollowsProcessed(blocks)

\* Sends the pending rows to the given tables, all at once.
Insert(tables) ==
  /\ running' = running \cup {[table |-> t, blocks |-> pending] : t \in tables}
  /\ awaited' = tables
  /\ failed' = FALSE

\* insertCoreWindowFacts: the fact tables side by side.
InsertFacts ==
  /\ pc = "validate"
  /\ Valid(pending)
  /\ Insert(Facts)
  /\ Goto("facts")
  /\ UNCHANGED <<node, metadata, rows, twice, processed, current, refs, latest, seenTail, synced,
                 window, pending, rewind, reconciled, faults>>

\* Variant: the first answer is enough.
SettledEarly == awaited # Facts /\ ~failed

\* Variant: a failed insert is not noticed.
SettledAnyhow == awaited = {}

Settled == awaited = {} /\ ~failed

\* insertCoreCurrentStateWindow, once the facts are in.
InsertCurrent ==
  /\ Online
  /\ pc = "facts"
  /\ Settled
  /\ Insert({"current"})
  /\ Goto("current")
  /\ UNCHANGED <<node, metadata, rows, twice, processed, current, refs, latest, seenTail, synced,
                 window, pending, rewind, reconciled, faults>>

\* The processed blocks come last.
InsertProcessed ==
  /\ pc = IF Online THEN "current" ELSE "facts"
  /\ Settled
  /\ Insert({"processed"})
  /\ Goto("processed")
  /\ UNCHANGED <<node, metadata, rows, twice, processed, current, refs, latest, seenTail, synced,
                 window, pending, rewind, reconciled, faults>>

Inserted ==
  /\ pc = "processed"
  /\ Settled
  /\ Goto("unmark")
  /\ UNCHANGED <<node, metadata, warehouse, local, faults>>

\* clearCoreApplyRecoveryMarker; the delete is not flushed at once.
ClearMarker ==
  /\ pc = "unmark"
  /\ marker = OwnMarker
  /\ marker' = NoMarker
  /\ Goto("publish")
  /\ UNCHANGED <<node, tail, onlineTip, durable, warehouse, local, faults>>

\* Variant: the height read from the node is published, not the window's end.
PublishTip ==
  /\ pc = "publish"
  /\ tail' = latest
  /\ onlineTip' = latest
  /\ Goto("idle")
  /\ UNCHANGED <<node, marker, durable, warehouse, local, faults>>

\* Variant: the next height to process is published.
PublishNext ==
  /\ pc = "publish"
  /\ tail' = Top(HeightsOf(window)) + 1
  /\ onlineTip' = latest
  /\ Goto("idle")
  /\ UNCHANGED <<node, marker, durable, warehouse, local, faults>>

\* publishWindowProgress, not flushed at once either.
Publish ==
  /\ pc = "publish"
  /\ tail' = Top(HeightsOf(window))
  /\ onlineTip' = latest
  /\ Goto("idle")
  /\ UNCHANGED <<node, marker, durable, warehouse, local, faults>>

-----------------------------------------------------------------------------
(* The server                                                              *)

\* A running insert takes effect and leaves the process list.
Land(insert) ==
  /\ insert \in running
  /\ running' = running \ {insert}
  /\ \/ /\ insert.table \in Facts
        /\ rows' = [rows EXCEPT ![insert.table] = @ \cup insert.blocks]
        /\ twice' = [twice EXCEPT ![insert.table] =
                       @ \cup (rows[insert.table] \cap insert.blocks)]
        /\ UNCHANGED <<processed, current>>
     \/ /\ insert.table = "processed"
        /\ processed' = [h \in Heights |->
             IF \E b \in insert.blocks : b[1] = h
               THEN (CHOOSE b \in insert.blocks : b[1] = h)[2] ELSE processed[h]]
        /\ UNCHANGED <<rows, twice, current>>
     \/ /\ insert.table = "current"
        /\ current' = current \cup insert.blocks
        /\ UNCHANGED <<rows, twice, processed>>
  /\ UNCHANGED <<node, metadata, refs, pc, local, faults>>

\* The process hears that its insert is done.
Answer(table) ==
  /\ table \in awaited
  /\ \A insert \in running : insert.table # table
  /\ awaited' = awaited \ {table}
  /\ UNCHANGED <<node, metadata, warehouse, pc, latest, seenTail, synced, window, pending,
                 rewind, failed, reconciled, faults>>

\* Unflushed metadata reach the disk in the background.
Flush ==
  /\ durable' = <<marker, tail, onlineTip>>
  /\ UNCHANGED <<node, marker, tail, onlineTip, warehouse, pc, local, faults>>

-----------------------------------------------------------------------------
(* Faults                                                                  *)

CanFault(kind) ==
  /\ kind \in Faults
  /\ faults < MaxFaults
  /\ faults' = faults + 1

\* An awaited insert fails: on the server, or for the process only, when its
\* deadline passes and the server goes on with it.
InsertFails(table) ==
  /\ CanFault("error")
  /\ table \in awaited
  /\ awaited' = awaited \ {table}
  /\ failed' = TRUE
  /\ running' \in {running, {insert \in running : insert.table # table}}
  /\ UNCHANGED <<node, metadata, rows, twice, processed, current, refs, pc, latest, seenTail,
                 synced, window, pending, rewind, reconciled>>

\* The iteration throws and the loop starts over, with the marker retained.
Abort ==
  /\ Goto("idle")
  /\ awaited' = {}
  /\ failed' = FALSE
  /\ UNCHANGED <<node, metadata, warehouse, latest, seenTail, synced, window, pending,
                 rewind, reconciled>>

\* All inserts of the step are settled and one of them has failed.
AbortAfterInsert ==
  /\ pc \in {"facts", "current", "processed"}
  /\ awaited = {} /\ failed
  /\ Abort
  /\ UNCHANGED faults

\* A window that is no chain or does not follow the processed blocks throws.
RejectWindow ==
  /\ pc = "validate"
  /\ ~Valid(pending)
  /\ Abort
  /\ UNCHANGED faults

InRewind == pc \in {"drain", "delete", "forget", "rebuild"}

\* The rewind that compares nothing but the tails, and has no marker.
Reconciling ==
  \/ InRewind /\ after = "retail"
  \/ pc = "retail"

\* Any other awaited call throws: a query, a delete, a metadata statement.
CallFails ==
  /\ CanFault(IF Reconciling THEN "reconcile" ELSE "error")
  /\ pc \notin {"start", "idle", "facts", "current", "processed"}
  /\ Abort

Forget ==
  /\ Goto("start")
  /\ awaited' = {} /\ failed' = FALSE /\ reconciled' = FALSE
  /\ window' = {} /\ pending' = {}
  /\ UNCHANGED <<latest, seenTail, synced, rewind>>

\* The process dies; the inserts it sent run on, or were cut off.
Die ==
  /\ CanFault("death")
  /\ pc # "start"
  /\ Forget
  /\ running' \in SUBSET running
  /\ UNCHANGED <<node, metadata, rows, twice, processed, current, refs>>

\* What the metadata database has not flushed is gone.
LoseUnflushed ==
  /\ marker' = durable[1]
  /\ tail' = durable[2]
  /\ onlineTip' = durable[3]
  /\ UNCHANGED durable

\* Labels at which a metadata statement is next.
MetadataCalls == {"marker", "recovered", "tail", "retail", "plan", "mark", "unmark", "publish"}

\* A metadata statement under way fails with the database; a process that is
\* busy with the warehouse or the node does not notice.
MetadataCrash ==
  /\ CanFault("metadata")
  /\ LoseUnflushed
  /\ Goto(IF pc \in MetadataCalls THEN "idle" ELSE pc)
  /\ UNCHANGED <<node, warehouse, local>>

\* The host stops: the process, the unflushed metadata and the newest rows of
\* every table are gone.  Processed blocks are written last, so none of them
\* survives the rows it stands for.
PowerLoss ==
  /\ CanFault("power")
  /\ Forget
  /\ LoseUnflushed
  /\ running' = {}
  /\ \E cut \in [Tables -> 0 .. MaxHeight + 1] :
       /\ \A t \in Tables : cut["processed"] <= cut[t]
       /\ processed' = [h \in Heights |-> IF h < cut["processed"] THEN processed[h] ELSE None]
       /\ rows' = [t \in Facts |-> {b \in rows[t] : b[1] < cut[t]}]
       /\ twice' = [t \in Facts |-> {b \in twice[t] : b[1] < cut[t]}]
       /\ current' = {b \in current : b[1] < cut["current"]}
       /\ refs' = {h \in refs : h < cut["refs"]}
  /\ UNCHANGED node

-----------------------------------------------------------------------------
(* The node                                                                *)

Grow ==
  /\ tip < MaxHeight
  /\ tip' = tip + 1
  /\ UNCHANGED <<chain, branch, shrinks, metadata, warehouse, pc, local, faults>>

\* A heavier branch, one block longer, replaces up to Depth blocks.
Reorg(h) ==
  LET f == Top({chain[k] : k \in Heights}) + 1
  IN  /\ f \in Forks
      /\ h \in Upper(1, tip - Depth + 1) .. tip
      /\ tip < MaxHeight
      /\ tip' = tip + 1
      /\ chain' = [k \in Heights |-> IF k < h THEN chain[k] ELSE f]
      /\ branch' = [branch EXCEPT ![f] = [at |-> h, parent |-> chain[h - 1]]]
      /\ UNCHANGED <<shrinks, metadata, warehouse, pc, local, faults>>

\* A node that is behind the one asked before.
Shrink ==
  /\ shrinks < MaxShrink
  /\ tip > 0
  /\ tip' = tip - 1
  /\ shrinks' = shrinks + 1
  /\ UNCHANGED <<chain, branch, metadata, warehouse, pc, local, faults>>

-----------------------------------------------------------------------------
ProcessStep ==
  \/ StartProcess \/ ReadTip \/ ReadMarker \/ ClearRecovered \/ ReadTail \/ LowerTail
  \/ Drain \/ (\E t \in todo : DeleteFrom(t)) \/ Deleted \/ ClearCurrent \/ RebuildCurrent
  \/ PlanBackfill \/ PlanOnline \/ LoadWindow \/ SetMarker \/ CheckProcessed
  \/ InsertFacts \/ InsertCurrent \/ InsertProcessed \/ Inserted \/ ClearMarker \/ Publish
  \/ (\E t \in awaited : Answer(t)) \/ AbortAfterInsert \/ RejectWindow

ServerStep == \E insert \in running : Land(insert)

NodeStep == Grow \/ (\E h \in Heights : Reorg(h)) \/ Shrink

FaultStep ==
  \/ \E t \in awaited : InsertFails(t)
  \/ CallFails \/ Die \/ MetadataCrash \/ PowerLoss

Next == ProcessStep \/ ServerStep \/ NodeStep \/ Flush \/ FaultStep

Spec == Init /\ [][Next]_vars

\* The process is restarted when it stops, and the server runs what it has.
FairSpec == Spec /\ WF_vars(ProcessStep) /\ WF_vars(ServerStep) /\ WF_vars(Grow)

-----------------------------------------------------------------------------
Marker == {NoMarker} \cup [start : Heights, end : Heights]
Tail   == Heights \cup {None}

TypeOK ==
  /\ tip \in Heights /\ shrinks \in Nat
  /\ chain \in [Heights -> Forks]
  /\ branch \in [Forks -> [at : Heights \cup {None}, parent : Forks \cup {None}]]
  /\ marker \in Marker /\ tail \in Tail /\ onlineTip \in Heights
  /\ durable \in Marker \X Tail \X Heights
  /\ rows \in [Facts -> SUBSET Block] /\ twice \in [Facts -> SUBSET Block]
  /\ processed \in [Heights -> Forks \cup {None}]
  /\ current \subseteq Block /\ refs \subseteq Heights
  /\ running \subseteq [table : Tables, blocks : SUBSET Block]
  /\ pc \in {"start", "idle", "marker", "recovered", "tail", "retail", "drain", "delete",
             "forget", "rebuild", "plan", "load", "mark", "check", "validate", "facts",
             "current", "processed", "unmark", "publish"}
  /\ latest \in Heights /\ seenTail \in Tail
  /\ synced \in [Heights -> Forks]
  /\ window \subseteq Block /\ pending \subseteq Block
  /\ from \in 0 .. MaxHeight + 1
  /\ todo \subseteq Facts \cup {"processed", "refs"}
  /\ after \in {"start", "recovered", "retail", "validate"}
  /\ awaited \subseteq Tables /\ failed \in BOOLEAN /\ reconciled \in BOOLEAN
  /\ faults \in Nat

-----------------------------------------------------------------------------
(* What must hold                                                          *)

\* Every fact table holds the processed block of height h and nothing else.
Exact(h) ==
  \A t \in Facts :
    {b \in rows[t] : b[1] = h} =
      IF processed[h] = None THEN {} ELSE {<<h, processed[h]>>}

\* A rewind that has begun, or one that the process will begin when it has
\* compared the tails.
Rewinding(h) ==
  \/ Reconciling /\ h >= from
  \/ ~reconciled /\ tail > WarehouseTail /\ h > WarehouseTail

Covered(h) == (marker # NoMarker /\ h >= marker.start) \/ Rewinding(h)

(***************************************************************************)
(* The write-ahead rule: wherever the tables disagree, a marker (or the    *)
(* comparison of the tails) will have the height rewound.                  *)
(***************************************************************************)
PartialRowsAreCovered == \A h \in Heights : ~Exact(h) => Covered(h)

(***************************************************************************)
(* Whatever the server is still inserting is marked, and the mark is on    *)
(* disk: no sequence of failures, crashes and restarts forgets an insert.  *)
(***************************************************************************)
InsertsAreMarked ==
  \A insert \in running :
    /\ marker # NoMarker /\ durable[1] = marker
    /\ \A b \in insert.blocks : b[1] >= marker.start

(***************************************************************************)
(* "Window recovery must never race an insert that is still in flight":    *)
(* nothing runs while the tables are rewound, and nothing from before is   *)
(* left when a window is checked.                                          *)
(***************************************************************************)
RewindRunsAlone ==
  pc \in {"delete", "forget", "rebuild", "check", "validate"} => running = {}

(***************************************************************************)
(* The inductive invariant behind the two: a window that is being applied  *)
(* is marked, durably; and the server is idle everywhere but where rows    *)
(* are inserted, or where a loop that gave up on them has not drained them *)
(* yet.                                                                    *)
(***************************************************************************)
Applying ==
  \/ pc \in {"check", "validate", "facts", "current", "processed", "unmark"}
  \/ InRewind /\ after = "validate"

MayInsert ==
  \/ pc \in {"start", "idle", "marker", "facts", "current", "processed"}
  \/ pc = "drain" /\ after = "recovered"

MarkInv ==
  /\ pc = "mark" \/ Applying => window # {}
  /\ Applying => marker = OwnMarker /\ durable[1] = marker
  /\ Applying /\ pc # "check" => pending \subseteq window
  /\ pc \in {"facts", "current", "processed"} /\ ~failed =>
       \A insert \in running : insert.table \in awaited
  /\ running # {} => MayInsert
  /\ InsertsAreMarked

(***************************************************************************)
(* No row is written twice: the tables are append-only and a window that   *)
(* is replayed would count its outputs and movements again.                *)
(***************************************************************************)
NoDuplicateRows == \A t \in Facts : twice[t] = {}

(***************************************************************************)
(* "Continuing from that tail would leave a permanent hole": the processed *)
(* blocks are all the blocks up to the newest one.                         *)
(***************************************************************************)
NoHole == \A h \in Heights : processed[h] # None => \A k \in 0 .. h : processed[k] # None

(***************************************************************************)
(* The processed blocks are one chain, whatever reorganizations happen     *)
(* while windows are loaded, applied, rewound and replayed.                *)
(***************************************************************************)
ProcessedIsAChain ==
  \A h \in Heights \ {0} :
    processed[h] # None /\ processed[h - 1] # None =>
      processed[h - 1] = Parent(h, processed[h])

(***************************************************************************)
(* Online, the current-state tables reflect exactly the processed blocks   *)
(* whenever no window is marked.                                           *)
(***************************************************************************)
CurrentStateIsExact ==
  Online =>
    \/ \E h \in Heights : Covered(h)
    \/ current = {<<h, processed[h]>> : h \in {k \in Heights : processed[k] # None}}

(***************************************************************************)
(* "Everything older is processed, everything newer is synced with refs":  *)
(* when raw sync has had its turn, the transactions of every stored block  *)
(* that is not processed yet can be found.                                 *)
(***************************************************************************)
RefsAreComplete ==
  Online /\ pc = "mark" => \A h \in 0 .. latest : processed[h] = None => h \in refs

(***************************************************************************)
(* The tail that is published never runs ahead of the processed blocks.    *)
(***************************************************************************)
PublishedTailIsProcessed ==
  [][Publish => \A h \in 0 .. tail' : processed[h] # None]_vars

(***************************************************************************)
(* Faults and reorganizations over, the indexer catches up for good: with  *)
(* the node when it is online, with raw sync in the backfill.              *)
(***************************************************************************)
CatchesUp ==
  <>[](/\ tail = IF Online THEN tip ELSE FirstTip
       /\ marker = NoMarker
       /\ \A h \in 0 .. tail : IF Online THEN processed[h] = chain[h] ELSE processed[h] # None)
=============================================================================
