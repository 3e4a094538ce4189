--------------------------- MODULE MemoryWarehouse --------------------------
(***************************************************************************)
(* The warehouse held in memory, which the tests of the indexer and a      *)
(* local deployment use: a window of blocks is applied in one step.  It is *)
(* what the ClickHouse warehouse must look like to its callers.            *)
(*                                                                         *)
(* Callers offer windows that continue what is applied or replace its end. *)
(***************************************************************************)
EXTENDS BlockEffects

VARIABLES
  utxoOutputs,      \* outputs: key, height, height it is spent at or NoHeight
  balances,         \* balances[a]
  addressMovements, \* credits and debits of addresses: direction, key, height
  appliedBlocks

memoryVars == <<utxoOutputs, balances, addressMovements, appliedBlocks>>

MemoryInit ==
  /\ utxoOutputs = {} /\ balances = [a \in Addresses |-> 0]
  /\ addressMovements = {} /\ appliedBlocks = {}

Keys(rows) == {r.key : r \in rows}
Unspent(rows) == {r \in rows : r.spent = NoHeight}

\* rebuildBalancesFromCurrentUtxos
BalancesFrom(rows) == [a \in Addresses |-> Holdings(Keys(Unspent(rows)), a)]

\* rewindInMemoryUtxoOutput: outputs of rewound blocks are gone, those the
\* rewound blocks spent are unspent again.
Rewound(rows, h) ==
  {[r EXCEPT !.spent = IF @ >= h THEN NoHeight ELSE @] : r \in {r \in rows : r.at < h}}

\* applyBatchUtxoCreates, applyBatchUtxoSpends
Applied(rows, w) ==
  LET made == {[key |-> o, at |-> Height[MakerOf(o, w)], spent |-> NoHeight] : o \in CreatedIn(w)}
      all  == {r \in rows : r.key \notin CreatedIn(w)} \cup made
  IN  {IF r.key \in SpentIn(w) THEN [r EXCEPT !.spent = Height[SpenderOf(r.key, w)]] ELSE r :
         r \in all}

\* coreApplicationAddressMovements
MovementsOf(w) ==
  {[dir |-> "credit", key |-> o, at |-> Height[MakerOf(o, w)]] : o \in {o \in CreatedIn(w) : Owned(o)}}
  \cup
  {[dir |-> "debit", key |-> o, at |-> Height[SpenderOf(o, w)]] : o \in {o \in SpentIn(w) : Owned(o)}}

\* appendUniqueAddressMovement: by movement id
NewMovements(known, w) ==
  {m \in MovementsOf(w) : ~ \E k \in known : k.dir = m.dir /\ k.key = m.key}

Sum(ms, dir, a) == Holdings({m.key : m \in {m \in ms : m.dir = dir}}, a)

\* applyCoreDogecoinWindow: rewind to the reorganization, apply what is
\* pending; balances follow the movements that are new.
Apply(w) ==
  LET h     == Min(Conflicts(w, appliedBlocks) \cup {End(appliedBlocks) + 1})
      rows  == Rewound(utxoOutputs, h)
      kept  == {m \in addressMovements : m.at < h}
      fresh == Pending(w, appliedBlocks)
      new   == NewMovements(kept, fresh)
      base  == IF Conflicts(w, appliedBlocks) = {} THEN balances ELSE BalancesFrom(rows)
  IN  /\ fresh # {}
      /\ Parent[First(w)] \in appliedBlocks \cup {NoBlock}
      /\ utxoOutputs' = Applied(rows, fresh)
      /\ addressMovements' = kept \cup new
      /\ balances' = [a \in Addresses |-> base[a] + Sum(new, "credit", a) - Sum(new, "debit", a)]
      /\ appliedBlocks' = {b \in appliedBlocks : Height[b] < h} \cup fresh

\* recoverCoreDogecoinWindow, rewindInMemoryCoreTail
Recover(h) ==
  /\ appliedBlocks' = {b \in appliedBlocks : Height[b] < h}
  /\ addressMovements' = {m \in addressMovements : m.at < h}
  /\ utxoOutputs' = Rewound(utxoOutputs, h)
  /\ balances' = BalancesFrom(utxoOutputs')

\* materializeCoreDogecoinCurrentState
Materialize ==
  /\ balances' = BalancesFrom(utxoOutputs)
  /\ UNCHANGED <<utxoOutputs, addressMovements, appliedBlocks>>

MemoryNext ==
  \/ \E w \in Windows : Apply(w)
  \/ \E h \in Heights(Blocks) : Recover(h)
  \/ Materialize

MemorySpec == MemoryInit /\ [][MemoryNext]_memoryVars
=============================================================================
