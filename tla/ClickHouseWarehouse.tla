------------------------- MODULE ClickHouseWarehouse ------------------------
(***************************************************************************)
(* How the ClickHouse warehouse applies a window of blocks: several tables *)
(* without a transaction around them.  Facts (creates, spends, movements)  *)
(* are keyed by height and deleted by height; the current outputs and      *)
(* balances are rows with a version, of which readers take the highest,    *)
(* and are rebuilt from the facts when blocks are taken back.  The         *)
(* processed blocks are inserted last and decide what counts.              *)
(*                                                                         *)
(* One call runs at a time, and statements finish before the next call:    *)
(* the leases and late inserts are the subject of the modules PrimaryLease *)
(* and CoreWindow.                                                         *)
(***************************************************************************)
EXTENDS BlockEffects, Sequences

CONSTANTS
  MaxRequests,  \* bound: windows asked for
  MaxFailures,  \* bound: failed calls
  MaxLost       \* bound: current rows lost

ASSUME WarehouseConstants ==
  MaxRequests \in Nat /\ MaxFailures \in Nat /\ MaxLost \in Nat

VARIABLES
  creates,    \* rows of core_utxo_creates: key, height
  spends,     \* rows of core_utxo_spends: key, height
  movements,  \* rows of address_movements: direction, key, height
  processed,  \* rows of core_processed_blocks
  current,    \* rows of utxo_outputs_current: key, at, spent, version
  balanceRows,\* rows of balances: address, amount, version
  ready,      \* context.updateCurrentState of the next call
  phase,      \* where the call is
  asked,      \* first height of the window the call is about: the recovery marker
  pending,    \* blocks the call applies
  cutoff,     \* height from which rows are being taken back, or None
  prevouts,   \* current rows the call has read
  planned,    \* balance rows the call will write
  queue,      \* statements the call still has to run
  repaired,   \* the call has repaired prevouts once
  requests, faultCount, lost

factVars == <<creates, spends, movements, processed>>
currentVars == <<current, balanceRows, ready>>
callVars == <<phase, asked, pending, cutoff, prevouts, planned, queue, repaired>>
bounds == <<requests, faultCount, lost>>
clickVars == <<factVars, currentVars, callVars, bounds>>

None == Max(Heights(Blocks)) + 1   \* above every height

ClickInit ==
  /\ creates = {} /\ spends = {} /\ movements = {} /\ processed = {}
  /\ current = {} /\ balanceRows = {} /\ ready = FALSE
  /\ phase = "idle" /\ asked = None /\ pending = {} /\ cutoff = None /\ prevouts = {} /\ planned = {}
  /\ queue = <<>> /\ repaired = FALSE
  /\ requests = 0 /\ faultCount = 0 /\ lost = 0

-----------------------------------------------------------------------------
(* What the queries return                                                 *)

\* FINAL, or ORDER BY version DESC LIMIT 1 BY the key
Newest(rows) == {r \in rows : \A q \in rows : q.key = r.key => q.version <= r.version}

\* queryCoreHistoricalUtxoOutputRows: creates LEFT JOIN spends, up to a height.
Historical(h) ==
  LET made  == {c \in creates : c.at <= h}
      taken == {s \in spends : s.at <= h}
  IN  {[key |-> c.key, at |-> c.at,
        spent |-> IF \E s \in taken : s.key = c.key
                  THEN Max({s.at : s \in {s \in taken : s.key = c.key}}) ELSE NoHeight] :
         c \in {c \in made : \A d \in made : d.key = c.key => d.at <= c.at}}

\* getBalanceRowsByKeys: absent is zero.
BalanceOf(a) ==
  LET rows == {r \in Newest(balanceRows) : r.key = a}
  IN  IF rows = {} THEN 0 ELSE (CHOOSE r \in rows : TRUE).amount

-----------------------------------------------------------------------------
(* A call                                                                  *)

\* Variant: a table is forgotten.
DeletesNoSpends == <<"creates", "processed", "movements">>

\* deleteCoreDogecoinTail: in this order, one statement per table.
Deletes == <<"creates", "spends", "processed", "movements">>
Rebuild == <<"clearOutputs", "clearBalances", "outputs", "balances">>

\* The tail is deleted from h on; with a current state it is rebuilt below h.
TakeBack(h) ==
  /\ cutoff' = h
  /\ queue' = Deletes \o IF ~ready THEN <<>>
                         ELSE IF h > 0 THEN Rebuild ELSE SubSeq(Rebuild, 1, 2)

\* applyCoreDogecoinWindow, pendingCoreWindowApplications,
\* assertCoreWindowPreviousBlock.  The flag is the caller's.
BeginWindow(w) ==
  /\ phase = "idle" /\ cutoff = None /\ requests < MaxRequests
  /\ Pending(w, processed) # {}
  /\ Parent[First(w)] \in processed \cup {NoBlock}
  /\ requests' = requests + 1
  /\ asked' = Start(w)
  /\ pending' = Pending(w, processed)
  /\ repaired' = FALSE
  /\ IF Conflicts(w, processed) # {}
     THEN phase' = "rewind" /\ TakeBack(Min(Conflicts(w, processed)))
     ELSE phase' = "load" /\ UNCHANGED <<cutoff, queue>>
  /\ UNCHANGED <<factVars, currentVars, prevouts, planned, faultCount, lost>>

\* One statement of a rewind or of a repair's cleaning.
Delete(table) ==
  /\ creates' = IF table = "creates" THEN {r \in creates : r.at < cutoff} ELSE creates
  /\ spends' = IF table = "spends" THEN {r \in spends : r.at < cutoff} ELSE spends
  /\ movements' = IF table = "movements" THEN {r \in movements : r.at < cutoff} ELSE movements
  /\ processed' = IF table = "processed" THEN {b \in processed : Height[b] < cutoff} ELSE processed
  /\ UNCHANGED <<current, balanceRows>>

\* insertCoreCurrentUtxoRanges: the unspent outputs below the height.
UnspentRows(asOf) ==
  {[key |-> r.key, at |-> r.at, spent |-> NoHeight, version |-> asOf] :
     r \in {r \in Historical(asOf) : r.spent = NoHeight}}

\* insertCoreCurrentBalances: aggregated over the newest rows.
AggregatedRows(asOf) ==
  LET live == {r.key : r \in {r \in Newest(current) : r.spent = NoHeight}}
  IN  {[key |-> a, amount |-> Holdings(live, a), version |-> asOf] :
         a \in {Owner[o] : o \in {o \in live : Owned(o)}}}

\* One statement of a (re)materialization.
Materialized(statement, asOf) ==
  /\ current' = CASE statement = "clearOutputs" -> {}
                  [] statement = "outputs" -> current \cup UnspentRows(asOf)
                  [] OTHER -> current
  /\ balanceRows' = CASE statement = "clearBalances" -> {}
                      [] statement = "balances" -> balanceRows \cup AggregatedRows(asOf)
                      [] OTHER -> balanceRows
  /\ UNCHANGED factVars

Statement(asOf) ==
  IF Head(queue) \in {"creates", "spends", "processed", "movements"}
  THEN Delete(Head(queue)) ELSE Materialized(Head(queue), asOf)

\* rewindCoreDogecoinWindow
RewindStep ==
  /\ phase = "rewind" /\ queue # <<>>
  /\ Statement(cutoff - 1)
  /\ queue' = Tail(queue)
  /\ UNCHANGED <<ready, phase, asked, pending, cutoff, prevouts, planned, repaired, bounds>>

\* The rewind of a window goes on with the window, that of a recovery ends.
RewindDone ==
  /\ phase = "rewind" /\ queue = <<>>
  /\ cutoff' = None
  /\ phase' = IF pending = {} THEN "idle" ELSE "load"
  /\ asked' = IF pending = {} THEN None ELSE asked
  /\ UNCHANGED <<factVars, currentVars, pending, prevouts, planned, queue, repaired, bounds>>

\* externalCoreSpendKeys
External == SpentIn(pending) \ CreatedIn(pending)
Missing  == External \ {r.key : r \in current}

\* applyCoreCurrentStateMutations: an output the window spends keeps its
\* creation and gets the height of its spend.
NextOutputs(known) ==
  LET made == {[key |-> o, at |-> Height[MakerOf(o, pending)]] : o \in CreatedIn(pending)}
      old  == {[key |-> r.key, at |-> r.at] : r \in {r \in known : r.key \in External}}
  IN  {[key |-> r.key, at |-> r.at,
        spent |-> IF r.key \in SpentIn(pending) THEN Height[SpenderOf(r.key, pending)]
                  ELSE NoHeight] : r \in made \cup old}

\* coreCurrentBalanceRows: for the addresses the window touches.
NextBalances ==
  LET touched == {Owner[o] : o \in {o \in CreatedIn(pending) \cup SpentIn(pending) : Owned(o)}}
  IN  {[key |-> a, version |-> 2 * End(pending) + 1,
        amount |-> BalanceOf(a) + Holdings(CreatedIn(pending), a) - Holdings(SpentIn(pending), a)] :
         a \in touched}

\* loadCoreWindowPrevouts, buildCoreCurrentStateWindow: without a current
\* state nothing is read.
LoadPrevouts ==
  /\ phase = "load" /\ (ready => Missing = {})
  /\ prevouts' = IF ready THEN {r \in Newest(current) : r.key \in External} ELSE {}
  /\ planned' = IF ready THEN NextBalances ELSE {}
  /\ phase' = "facts"
  /\ queue' = <<>>
  /\ UNCHANGED <<factVars, currentVars, asked, pending, cutoff, repaired, bounds>>

\* insertPendingCoreWindowWithRecovery: a prevout is missing.  The facts of the
\* window are cleaned and the call goes on to the repair, once.
CleanForRepair ==
  /\ phase = "load" /\ ready /\ Missing # {} /\ ~repaired
  /\ phase' = "clean"
  /\ cutoff' = Start(pending)
  /\ queue' = Deletes
  /\ UNCHANGED <<factVars, currentVars, asked, pending, prevouts, planned, repaired, bounds>>

CleanStep ==
  /\ phase = "clean" /\ queue # <<>>
  /\ Delete(Head(queue))
  /\ queue' = Tail(queue)
  /\ UNCHANGED <<ready, phase, asked, pending, cutoff, prevouts, planned, repaired, bounds>>

\* repairMissingCoreCurrentPrevouts
Repair ==
  /\ phase = "clean" /\ queue = <<>>
  /\ LET rows == {r \in Historical(Start(pending) - 1) : r.key \in Missing}
     IN  /\ {r.key : r \in rows} = Missing /\ \A r \in rows : r.spent = NoHeight
         /\ current' = current \cup
              {[key |-> r.key, at |-> r.at, spent |-> NoHeight, version |-> 2 * r.at] : r \in rows}
  /\ repaired' = TRUE /\ cutoff' = None /\ phase' = "load"
  /\ UNCHANGED <<factVars, balanceRows, ready, asked, pending, prevouts, planned, queue, bounds>>

\* coreSpendAddressMovement: the debit of an output the call does not know is
\* left out.
WindowMovements ==
  {[dir |-> "credit", key |-> o, at |-> Height[MakerOf(o, pending)]] :
     o \in {o \in CreatedIn(pending) : Owned(o)}}
  \cup
  {[dir |-> "debit", key |-> o, at |-> Height[SpenderOf(o, pending)]] :
     o \in {o \in SpentIn(pending) : Owned(o) /\ (o \in CreatedIn(pending)
                                                  \/ o \in {r.key : r \in prevouts})}}

\* insertCoreWindowFacts: the inserts run side by side and all are awaited.
FactTables == {"creates", "spends", "movements"}
InsertFacts ==
  /\ phase = "facts" /\ Len(queue) < Cardinality(FactTables)
  /\ \E table \in FactTables \ {queue[i] : i \in DOMAIN queue} :
       /\ queue' = Append(queue, table)
       /\ creates' = creates \cup IF table # "creates" THEN {}
            ELSE {[key |-> o, at |-> Height[MakerOf(o, pending)]] : o \in CreatedIn(pending)}
       /\ spends' = spends \cup IF table # "spends" THEN {}
            ELSE {[key |-> o, at |-> Height[SpenderOf(o, pending)]] : o \in SpentIn(pending)}
       /\ movements' = movements \cup IF table # "movements" THEN {} ELSE WindowMovements
  /\ UNCHANGED <<processed, currentVars, phase, asked, pending, cutoff, prevouts, planned, repaired,
                 bounds>>

\* Variant: a spent row keeps the version of its creation.
CreateVersion(r) == 2 * r.at

\* coreCurrentUtxoVersion
UtxoVersion(r) == IF r.spent = NoHeight THEN 2 * r.at ELSE 2 * r.spent + 1

\* insertCoreCurrentStateWindow: outputs, then balances.
InsertCurrentOutputs ==
  /\ phase = "facts" /\ Len(queue) = Cardinality(FactTables)
  /\ current' = current \cup
       IF ~ready THEN {}
       ELSE {[key |-> r.key, at |-> r.at, spent |-> r.spent, version |-> UtxoVersion(r)] :
               r \in NextOutputs(prevouts)}
  /\ phase' = "balances"
  /\ queue' = <<>>
  /\ UNCHANGED <<factVars, balanceRows, ready, asked, pending, cutoff, prevouts, planned, repaired,
                 bounds>>

InsertBalances ==
  /\ phase = "balances"
  /\ balanceRows' = balanceRows \cup planned
  /\ phase' = "processed"
  /\ UNCHANGED <<factVars, current, ready, asked, pending, cutoff, prevouts, planned, queue, repaired,
                 bounds>>

EndCall == /\ phase' = "idle" /\ asked' = None /\ pending' = {} /\ prevouts' = {} /\ planned' = {}
           /\ queue' = <<>> /\ repaired' = FALSE

InsertProcessedBlocks ==
  /\ phase = "processed"
  /\ processed' = processed \cup pending
  /\ EndCall
  /\ UNCHANGED <<creates, spends, movements, currentVars, cutoff, bounds>>

-----------------------------------------------------------------------------
(* Recovery, promotion and faults                                          *)

\* A statement fails: the recovery marker of the caller names the window, and
\* nothing else is done before the recovery.
CallFails ==
  /\ phase # "idle" /\ faultCount < MaxFailures
  /\ faultCount' = faultCount + 1
  /\ cutoff' = asked
  /\ EndCall
  /\ UNCHANGED <<factVars, currentVars, requests, lost>>

\* recoverCoreDogecoinWindow
RecoverWindow ==
  /\ phase = "idle" /\ cutoff # None
  /\ TakeBack(cutoff)
  /\ asked' = cutoff
  /\ phase' = "rewind"
  /\ UNCHANGED <<factVars, currentVars, pending, prevouts, planned, repaired, bounds>>

\* materializeCoreDogecoinCurrentState, when the backfill is complete.
BeginMaterialization ==
  /\ phase = "idle" /\ cutoff = None /\ ~ready /\ processed # {}
  /\ phase' = "materialize"
  /\ queue' = Rebuild
  /\ UNCHANGED <<factVars, currentVars, asked, pending, cutoff, prevouts, planned, repaired, bounds>>

MaterializeStep ==
  /\ phase = "materialize" /\ queue # <<>>
  /\ Materialized(Head(queue), End(processed))
  /\ queue' = Tail(queue)
  /\ ready' = (queue' = <<>>)
  /\ phase' = IF queue' = <<>> THEN "idle" ELSE phase
  /\ UNCHANGED <<asked, pending, cutoff, prevouts, planned, repaired, bounds>>

\* A row of the current outputs is lost: what the repair is there for.
LoseRow ==
  /\ phase = "idle" /\ lost < MaxLost
  /\ \E r \in current : current' = {q \in current : q.key # r.key}
  /\ lost' = lost + 1
  /\ UNCHANGED <<factVars, balanceRows, ready, callVars, requests, faultCount>>

ClickNext ==
  \/ \E w \in Windows : BeginWindow(w)
  \/ RewindStep \/ RewindDone
  \/ LoadPrevouts \/ CleanForRepair \/ CleanStep \/ Repair
  \/ InsertFacts \/ InsertCurrentOutputs \/ InsertBalances \/ InsertProcessedBlocks
  \/ CallFails \/ RecoverWindow \/ BeginMaterialization \/ MaterializeStep \/ LoseRow

ClickSpec == ClickInit /\ [][ClickNext]_clickVars

-----------------------------------------------------------------------------
(* The warehouse in memory, as seen through these tables                   *)

\* Between calls, with no recovery due, callers see the tables as they are;
\* otherwise they see what the processed blocks below the cutoff say.
Resting == phase = "idle" /\ cutoff = None
Counted == {b \in processed : Height[b] < cutoff}
SeenOutputs ==
  IF Resting THEN Historical(None) ELSE Historical(End(Counted))
LiveKeys(rows) == {r.key : r \in {r \in rows : r.spent = NoHeight}}
SeenBalances ==
  [a \in Addresses |-> IF Resting /\ ready THEN BalanceOf(a) ELSE Holdings(LiveKeys(SeenOutputs), a)]
ExactMovements ==
  {[dir |-> "credit", key |-> r.key, at |-> r.at] : r \in {r \in SeenOutputs : Owned(r.key)}}
  \cup
  {[dir |-> "debit", key |-> r.key, at |-> r.spent] :
     r \in {r \in SeenOutputs : Owned(r.key) /\ r.spent # NoHeight}}

Memory == INSTANCE MemoryWarehouse WITH
  utxoOutputs <- SeenOutputs, balances <- SeenBalances,
  addressMovements <- ExactMovements, appliedBlocks <- Counted

\* Whatever fails between two statements, and whatever reorganization is taken
\* back, callers see a warehouse that applies and takes back whole windows:
\* the outputs of the fact tables, the balances of the current-state table and the
\* processed blocks change as those of the warehouse in memory do.  The movements table
\* is not among them: the movements in memory are mapped to what the outputs imply.
ActsAsInMemory == Memory!MemorySpec

\* The current rows say of each output what the facts say: no version of an
\* older height hides a newer one, also after rebuilds and repairs.  Rows that
\* were lost may be absent.
CurrentRowsAgree ==
  Resting /\ ready =>
    /\ \A r \in Newest(current) :
         [key |-> r.key, at |-> r.at, spent |-> r.spent] \in Historical(None)
    /\ Cardinality(LiveKeys(Historical(None)) \ LiveKeys(Newest(current))) <= lost

\* The movements never claim more than the facts and lack no credit.
MovementsFollowFacts ==
  Resting => /\ movements \subseteq ExactMovements
             /\ {m \in ExactMovements : m.dir = "credit"} \subseteq movements

\* What is kept beside the facts follows them: the current rows that spends
\* are resolved with, and the movements.
KeptRowsFollowFacts == CurrentRowsAgree /\ MovementsFollowFacts

\* The movements an address's history is read from are those of the warehouse
\* in memory.
MovementsAreComplete == Resting => movements = ExactMovements
=============================================================================
