---------------------------- MODULE BlockEffects ----------------------------
(***************************************************************************)
(* What the transactions of a block do to outputs: the block applications  *)
(* the indexer hands to a warehouse.  A block is a set of transactions on  *)
(* top of a parent; a transaction spends outputs and creates outputs; an   *)
(* output without an address belongs to nobody.  Forks may contain the     *)
(* same transaction in blocks of different heights.                        *)
(***************************************************************************)
EXTENDS Integers, FiniteSets, FiniteSetsExt

CONSTANTS
  Blocks,      \* blocks of every chain the node may follow
  Parent,      \* Parent[b]: the block below b, or NoBlock
  Height,      \* Height[b]
  Txs,         \* Txs[b]: the transactions of b
  Inputs,      \* Inputs[t]: the outputs transaction t spends, {} for a coinbase
  Creations,   \* Creations[t]: the outputs transaction t creates
  Outputs,
  Addresses,
  Owner,       \* Owner[o]: an address, or NoAddress
  Amount,      \* Amount[o]: valueBase
  NoBlock, NoAddress,
  WindowSize   \* bound: blocks of a window

ASSUME EffectsConstants ==
  /\ Parent \in [Blocks -> Blocks \cup {NoBlock}] /\ NoBlock \notin Blocks
  /\ Height \in [Blocks -> Nat]
  /\ \A b \in Blocks : IF Parent[b] = NoBlock THEN Height[b] = 0
                       ELSE Height[b] = Height[Parent[b]] + 1
  /\ Owner \in [Outputs -> Addresses \cup {NoAddress}] /\ NoAddress \notin Addresses
  /\ Amount \in [Outputs -> Nat]
  /\ WindowSize \in Nat \ {0}

NoHeight == -1

\* buildTransactionSpends, buildTransactionOutputs, over the blocks of a window
Creates(b)  == UNION {Creations[t] : t \in Txs[b]}
Spends(b)   == UNION {Inputs[t] : t \in Txs[b]}
CreatedIn(w) == UNION {Creates(b) : b \in w}
SpentIn(w)   == UNION {Spends(b) : b \in w}

\* The blocks from the genesis block to a tip.
Chain(p) ==
  /\ p \subseteq Blocks
  /\ \A b \in p : Parent[b] \in p \cup {NoBlock}
  /\ \A b, c \in p : Height[b] = Height[c] => b = c

\* The chains of the node are valid: no output is created or spent twice, and
\* what is spent has been created.
ASSUME ChainsAreValid ==
  /\ IsFiniteSet(Blocks) /\ Blocks # {} /\ IsFiniteSet(Outputs)
  /\ \A b \in Blocks : Creates(b) \subseteq Outputs
  /\ \A p \in SUBSET Blocks : Chain(p) =>
       /\ SpentIn(p) \subseteq CreatedIn(p)
       /\ \A b, c \in p : b # c => /\ Creates(b) \cap Creates(c) = {}
                                   /\ Spends(b) \cap Spends(c) = {}

\* assertUniqueCoreSpend, assertUniqueCoreOutput, assertCoreApplicationShape
WellFormed(w) ==
  /\ \A b, c \in w : b # c => /\ Creates(b) \cap Creates(c) = {}
                              /\ Spends(b) \cap Spends(c) = {}
                              /\ Height[b] # Height[c]
  /\ \A b \in w : Parent[b] \in w \/ \A c \in w : Height[c] >= Height[b]

\* The windows the indexer may ask for.
Windows == {w \in SUBSET Blocks : w # {} /\ Cardinality(w) <= WindowSize /\ WellFormed(w)}

Heights(w) == {Height[b] : b \in w}
Start(w)   == Min(Heights(w))
End(w)     == Max(Heights(w) \cup {NoHeight})
First(w)   == CHOOSE b \in w : Height[b] = Start(w)
MakerOf(o, w)   == CHOOSE b \in w : o \in Creates(b)
SpenderOf(o, w) == CHOOSE b \in w : o \in Spends(b)

\* firstCoreReorgHeight: heights at which the window differs from the known blocks.
Conflicts(w, known) ==
  {Height[b] : b \in {b \in w : \E k \in known : Height[k] = Height[b] /\ k # b}}

\* isPendingCoreApplication, and all from the reorganization on
Pending(w, known) ==
  IF Conflicts(w, known) # {}
  THEN {b \in w : Height[b] >= Min(Conflicts(w, known))}
  ELSE w \ known

\* isCoreAddressMovementOutput, isBalanceAffectingCoreOutput
Owned(o) == Owner[o] # NoAddress

\* The sum of the values of outputs that belong to an address.
Holdings(os, a) == MapThenSumSet(LAMBDA o : Amount[o], {o \in os : Owner[o] = a})
=============================================================================
