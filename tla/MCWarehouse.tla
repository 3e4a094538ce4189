---------------------------- MODULE MCWarehouse -----------------------------
(***************************************************************************)
(* Two chains over one genesis block.  The transaction that spends o1 is   *)
(* in a1 and, on the other chain, one block later in c2; a2 spends what a1 *)
(* creates; one output has no address.                                     *)
(***************************************************************************)
EXTENDS ClickHouseWarehouse

MCBlocks == {"g", "a1", "a2", "c1", "c2"}
MCParent == [b \in MCBlocks |->
  CASE b = "g" -> "none" [] b \in {"a1", "c1"} -> "g" [] b = "a2" -> "a1" [] b = "c2" -> "c1"]
MCHeight == [b \in MCBlocks |-> CASE b = "g" -> 0 [] b \in {"a1", "c1"} -> 1 [] OTHER -> 2]
MCTxs == [b \in MCBlocks |->
  CASE b = "g" -> {"t0"} [] b \in {"a1", "c2"} -> {"t1"} [] b = "a2" -> {"t2"} [] b = "c1" -> {"t3"}]
MCOutputs == {"o1", "o2", "o3", "o4", "o5", "o6"}
MCInputs == [t \in {"t0", "t1", "t2", "t3"} |->
  CASE t = "t0" -> {} [] t = "t1" -> {"o1"} [] t = "t2" -> {"o3"} [] t = "t3" -> {"o2"}]
MCCreations == [t \in {"t0", "t1", "t2", "t3"} |->
  CASE t = "t0" -> {"o1", "o2"} [] t = "t1" -> {"o3", "o6"} [] t = "t2" -> {"o4"} [] t = "t3" -> {"o5"}]
MCOwner == [o \in MCOutputs |->
  CASE o \in {"o1", "o4"} -> "A" [] o \in {"o2", "o3", "o5"} -> "B" [] o = "o6" -> "nobody"]
MCAmount == [o \in MCOutputs |->
  CASE o = "o1" -> 5 [] o = "o2" -> 3 [] o = "o3" -> 4 [] o = "o4" -> 2 [] o = "o5" -> 1 [] OTHER -> 0]
=============================================================================
