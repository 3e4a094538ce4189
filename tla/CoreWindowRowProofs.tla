--------------------------- MODULE CoreWindowRowProofs ---------------------------
(***************************************************************************)
(* What the tables of the warehouse hold, for every value of the constants *)
(* of CoreWindow: no row is written twice, a height at which the fact      *)
(* tables and the processed blocks disagree is marked, and online the      *)
(* current state reflects exactly the processed blocks when none is.       *)
(*                                                                         *)
(* The faults are those of CoreWindowBlockProofs.                          *)
(***************************************************************************)
EXTENDS CoreWindowBlockProofs

\* The rows R are those of the processed blocks p and of the blocks new; below
\* a height, or everywhere.
Holds(R, p, new) == \A b \in Block : b \in R <=> p[b[1]] = b[2] \/ b \in new
HoldsBelow(R, p, n) == \A b \in Block : b[1] < n => (b \in R <=> p[b[1]] = b[2])
EmptyFrom(R, n) == \A b \in R : b[1] < n

\* Labels at which the facts agree with the processed blocks.
Agreed ==
  \/ pc \in {"recovered", "tail", "retail", "plan", "load", "mark", "check", "validate",
             "unmark", "publish", "forget", "rebuild"}
  \/ InRewind /\ after = "retail"

(***************************************************************************)
(* The fact tables are those of the processed blocks below the marker, and *)
(* everywhere when there is none; while facts are inserted, each table has *)
(* the pending blocks from when its insert has landed.                     *)
(***************************************************************************)
RowInv ==
  /\ NoDuplicateRows
  /\ \A t \in Facts :
       /\ marker = NoMarker \/ Agreed => Holds(rows[t], processed, {})
       /\ marker # NoMarker => HoldsBelow(rows[t], processed, marker.start)
       /\ InRewind => HoldsBelow(rows[t], processed, from)
       /\ pc = "delete" /\ t \notin todo => EmptyFrom(rows[t], from)
       /\ pc = "facts" => IF \E insert \in running : insert.table = t
                          THEN Holds(rows[t], processed, {})
                          ELSE failed \/ Holds(rows[t], processed, pending)
       /\ pc \in {"current", "processed"} => Holds(rows[t], processed, pending)
  /\ \A insert \in running :
       /\ insert.table \in Facts => rows[insert.table] \cap insert.blocks = {}
       /\ pc \in {"facts", "current", "processed"} =>
            /\ insert.blocks = pending
            /\ insert.table \in IF pc = "facts" THEN Facts ELSE {pc}

(***************************************************************************)
(* The same of the current state, which a rewind builds again from the     *)
(* facts; a rewind of the reconciliation leaves it empty in between, and   *)
(* is begun again by the next process.                                     *)
(***************************************************************************)
CurrentInv ==
  /\ marker = NoMarker /\ ~Reconciling /\ (reconciled \/ ProcessedBelow(processed, tail + 1)) =>
       Holds(current, processed, {})
  /\ pc \in {"recovered", "retail", "plan", "load", "mark", "check", "validate", "facts",
             "unmark", "publish"} => Holds(current, processed, {})
  /\ pc = "current" => IF \E insert \in running : insert.table = "current"
                       THEN Holds(current, processed, {})
                       ELSE failed \/ Holds(current, processed, pending)
  /\ pc = "processed" => Holds(current, processed, pending)
OnlineCurrentInv == Online => CurrentInv

-----------------------------------------------------------------------------
(***************************************************************************)
(* What a block is made of.                                                *)
(***************************************************************************)
LEMMA BlockIs ==
  \A b \in Block : /\ b[1] \in Heights /\ b[1] \in Int /\ b[1] >= 0
                   /\ b[2] \in Forks /\ b[2] # None
BY WindowConstants DEF Block, Heights, Forks, None

(***************************************************************************)
(* Rows that are those of the processed blocks are so below any height.    *)
(***************************************************************************)
LEMMA HoldsThenBelow ==
  ASSUME NEW R, NEW p, Holds(R, p, {})
  PROVE  \A n : HoldsBelow(R, p, n)
BY DEF Holds, HoldsBelow

(***************************************************************************)
(* When rows and processed blocks are cut at the same height they agree    *)
(* everywhere (deleteCoreDogecoinTail).                                    *)
(***************************************************************************)
LEMMA CutTogether ==
  ASSUME NEW R, NEW p, NEW n \in Int,
         HoldsBelow(R, p, n), EmptyFrom(R, n), NothingFrom(p, n)
  PROVE  Holds(R, p, {})
<1> SUFFICES ASSUME NEW b \in Block PROVE b \in R <=> p[b[1]] = b[2]
  BY DEF Holds
<1>1. CASE b[1] < n
  BY <1>1 DEF HoldsBelow
<1>2. CASE b[1] >= n
  <2>1. p[b[1]] # b[2]
    BY <1>2, BlockIs DEF NothingFrom
  <2>2. b \notin R
    BY <1>2, BlockIs DEF EmptyFrom
  <2> QED BY <2>1, <2>2
<1> QED BY <1>1, <1>2, BlockIs

(***************************************************************************)
(* Blocks on top of the processed ones are new to a table that holds just  *)
(* those (a row is never written twice).                                   *)
(***************************************************************************)
LEMMA FreshOnTop ==
  ASSUME NEW R, NEW p, NEW B, OnTop(p, B), Holds(R, p, {})
  PROVE  R \cap B = {} /\ Holds(R \cup B, p, B)
<1>1. Shaped(B) /\ B \subseteq Block /\ NothingFrom(p, First(B))
  BY DEF OnTop, Shaped
<1>2. \A b \in B : First(B) <= b[1] /\ First(B) \in Int
  BY <1>1, ShapeFacts, TailIsInt
<1>3. \A b \in B : p[b[1]] = None
  BY <1>1, <1>2, BlockIs DEF NothingFrom
<1>4. \A b \in B : p[b[1]] # b[2]
  BY <1>1, <1>3, BlockIs
<1>5. R \cap B = {}
  BY <1>1, <1>4 DEF Holds
<1> QED BY <1>5 DEF Holds

(***************************************************************************)
(* When the processed blocks land, exactly they are added.                 *)
(***************************************************************************)
LEMMA Joined ==
  ASSUME TypeOK, NoHole, NEW insert \in running, insert.table = "processed", Land(insert),
         OnTop(processed, insert.blocks)
  PROVE  /\ \A b \in Block : processed'[b[1]] = b[2] <=> processed[b[1]] = b[2] \/ b \in insert.blocks
         /\ \A n \in Int : (\A b \in insert.blocks : b[1] >= n) =>
              \A h \in Heights : h < n => processed'[h] = processed[h]
<1> DEFINE B == insert.blocks
<1>1. /\ Landed(processed', B)
      /\ \A h \in Heights : h \notin HeightsOf(B) => processed'[h] = processed[h]
  BY LandOnTop
<1>2. /\ Shaped(B) /\ B \subseteq Block /\ NothingFrom(processed, First(B))
      /\ \A b \in B : processed'[b[1]] = b[2]
  BY <1>1 DEF OnTop, Shaped, Landed
<1> HIDE DEF B
<1>3. \A b \in B : First(B) <= b[1] /\ First(B) \in Int
  BY <1>2, ShapeFacts, TailIsInt
<1>4. \A b \in B : processed[b[1]] = None
  BY <1>2, <1>3, BlockIs DEF NothingFrom
<1>5. ASSUME NEW b \in Block
      PROVE  processed'[b[1]] = b[2] <=> processed[b[1]] = b[2] \/ b \in B
  <2>1. CASE b[1] \in HeightsOf(B)
    <3>1. PICK c \in B : c[1] = b[1]
      BY <2>1 DEF HeightsOf
    <3>2. processed'[b[1]] = c[2] /\ processed[b[1]] = None
      BY <1>2, <1>4, <3>1
    <3>3. c[2] = b[2] <=> b = c
      BY <1>2, <3>1 DEF Block
    <3>4. b \in B => b = c
      BY <1>2, <3>1 DEF Shaped, OnePerHeight
    <3> QED BY <3>1, <3>2, <3>3, <3>4, BlockIs
  <2>2. CASE b[1] \notin HeightsOf(B)
    <3>1. b \notin B
      BY <2>2 DEF HeightsOf
    <3> QED BY <1>1, <2>2, <3>1, BlockIs DEF B
  <2> QED BY <2>1, <2>2
<1>6. ASSUME NEW n \in Int, \A b \in B : b[1] >= n, NEW h \in Heights, h < n
      PROVE  processed'[h] = processed[h]
  <2>1. h \notin HeightsOf(B)
    BY <1>2, <1>6, BlockIs DEF HeightsOf
  <2> QED BY <1>1, <2>1 DEF B
<1> QED BY <1>5, <1>6 DEF B

(***************************************************************************)
(* A rewind starts at its marker, or above it; only the rewind of the      *)
(* reconciliation has none.                                                *)
(***************************************************************************)
LEMMA CutAboveMarker ==
  ASSUME TypeOK, MarkInv, TailInv, BlockInv, InRewind
  PROVE  /\ marker # NoMarker => marker.start <= from
         /\ marker = NoMarker => after = "retail"
<1>1. after \in {"recovered", "retail", "validate"}
  BY DEF TailInv
<1>2. CASE after = "recovered"
  <2>1. marker # NoMarker /\ from = marker.start
    BY <1>2 DEF TailInv
  <2>2. from \in Int
    BY WindowConstants DEF TypeOK
  <2> QED BY <2>1, <2>2
<1>3. CASE after = "retail"
  BY <1>3 DEF TailInv, Reconciling
<1>4. CASE after = "validate"
  <2>1. /\ marker = OwnMarker /\ window # {} /\ Shaped(window)
        /\ Shaped(pending) /\ First(pending) = from /\ pending = From(window, from)
    BY <1>4 DEF MarkInv, Applying, TailInv, HasWindow, BlockInv
  <2>2. marker # NoMarker /\ marker.start = First(window)
    BY <2>1, MarkerIs
  <2>3. First(window) <= First(pending)
    BY <2>1, PendingIsRest
  <2> QED BY <2>1, <2>2, <2>3
<1> QED BY <1>1, <1>2, <1>3, <1>4

(***************************************************************************)
(* Every step keeps the rows those of the processed blocks.                *)
(***************************************************************************)
LEMMA RowStep ==
  ASSUME FaultsAreApart, BlocksHold, RowInv, [Next]_vars
  PROVE  RowInv'
<1> USE DEF RowInv, NoDuplicateRows, Agreed, InRewind, Goto, node, metadata, warehouse, rewind, local
<1>h. TailInv /\ BlockInv /\ MarkInv /\ TypeOK /\ NoHole
  BY DEF BlocksHold, BlockInv
<1>b. \A t \in Facts : Holds(rows[t], processed, {}) => \A n : HoldsBelow(rows[t], processed, n)
  BY HoldsThenBelow
<1>a. InRewind => after \in {"recovered", "retail", "validate"}
  BY <1>h DEF TailInv
<1>1. CASE StartProcess
  BY <1>h, <1>b, <1>a, <1>1 DEF StartProcess
<1>2. CASE ReadTip
  BY <1>h, <1>b, <1>a, <1>2 DEF ReadTip
<1>3. CASE ReadMarker
  <2>1. pc = "marker" /\ UNCHANGED <<rows, twice, processed, marker, running>>
    BY <1>3 DEF ReadMarker
  <2>2. CASE marker = NoMarker
    BY <1>h, <2>1, <2>2, <1>3 DEF ReadMarker
  <2>3. CASE marker # NoMarker
    <3>1. pc' = "drain" /\ from' = marker.start /\ after' = "recovered"
      BY <2>3, <1>3 DEF ReadMarker, Rewind
    <3> QED BY <1>h, <2>1, <2>3, <3>1
  <2> QED BY <2>2, <2>3
<1>4. CASE ClearRecovered
  BY <1>h, <1>b, <1>a, <1>4 DEF ClearRecovered
<1>5. CASE ReadTail
  <2>1. /\ pc = "tail" /\ UNCHANGED <<rows, twice, processed, marker, running>>
        /\ pc' = "plan" \/ (pc' = "drain" /\ after' = "retail")
    BY <1>5 DEF ReadTail, Rewind
  <2> QED BY <1>h, <1>b, <2>1
<1>6. CASE LowerTail
  BY <1>h, <1>b, <1>a, <1>6 DEF LowerTail
<1>7. CASE Drain
  <2>1. pc = "drain" /\ todo = Facts \cup {"processed", "refs"}
    BY <1>h, <1>7 DEF Drain, BlockInv
  <2> QED BY <2>1, <1>7 DEF Drain
<1>8. ASSUME NEW t \in todo, DeleteFrom(t) PROVE RowInv'
  <2>1. /\ pc = "delete" /\ pc' = pc /\ todo' = todo \ {t} /\ running = {}
        /\ UNCHANGED <<running, marker, from, after, failed, pending>>
    BY <1>h, <1>8 DEF DeleteFrom, MarkInv, MayInsert
  <2>2. /\ from \in Int /\ (marker # NoMarker => marker.start \in Int)
        /\ rows \in [Facts -> SUBSET Block]
    BY <1>h, WindowConstants DEF TypeOK, Marker, Heights
  <2>3. marker # NoMarker => marker.start <= from
    BY <1>h, <1>a, <2>1, CutAboveMarker
  <2>4. marker = NoMarker => after = "retail"
    BY <1>h, <1>a, <2>1, CutAboveMarker
  <2>5. after = "retail" => NothingFrom(processed, from)
    BY <1>h, <2>1 DEF TailInv, Reconciling
  <2>6. CASE t = "processed"
    <3>1. /\ processed' = [h \in Heights |-> IF h < from THEN processed[h] ELSE None]
          /\ UNCHANGED <<rows, twice>>
      BY <1>8, <2>6, WindowConstants DEF DeleteFrom, Facts
    <3>2. \A h \in Heights : h < from => processed'[h] = processed[h]
      BY <3>1
    <3>3. ASSUME NEW s \in Facts
          PROVE  /\ HoldsBelow(rows[s], processed', from)
                 /\ marker # NoMarker => HoldsBelow(rows[s], processed', marker.start)
      <4>1. HoldsBelow(rows[s], processed, from)
        BY <2>1
      <4>2. HoldsBelow(rows[s], processed', from)
        BY <3>2, <4>1, BlockIs DEF HoldsBelow
      <4>3. ASSUME marker # NoMarker PROVE HoldsBelow(rows[s], processed', marker.start)
        <5>1. \A b \in Block : b[1] < marker.start => b[1] < from
          BY <2>2, <2>3, <4>3, BlockIs
        <5> QED BY <4>2, <5>1 DEF HoldsBelow
      <4> QED BY <4>2, <4>3
    <3>4. after = "retail" => processed' = processed
      <4>1. ASSUME after = "retail", NEW h \in Heights PROVE processed'[h] = processed[h]
        BY <2>2, <2>5, <3>1, <4>1, TailIsInt DEF NothingFrom
      <4> QED BY <1>h, <3>1, <4>1 DEF TypeOK
    <3>5. \A s \in Facts : s \notin todo' => s \notin todo
      BY <2>1, <2>6, WindowConstants DEF Facts
    <3> QED BY <2>1, <2>4, <3>1, <3>3, <3>4, <3>5
  <2>7. CASE t = "refs"
    <3>1. UNCHANGED <<rows, twice, processed>>
      BY <1>8, <2>7, WindowConstants DEF DeleteFrom, Facts
    <3>2. \A s \in Facts : s \notin todo' => s \notin todo
      BY <2>1, <2>7, WindowConstants DEF Facts
    <3> QED BY <2>1, <3>1, <3>2
  <2>8. CASE t \in Facts
    <3>0. t # "processed" /\ t # "refs"
      BY <2>8, WindowConstants DEF Facts
    <3>1. /\ rows' = [rows EXCEPT ![t] = {b \in rows[t] : b[1] < from}]
          /\ twice' = [twice EXCEPT ![t] = {b \in twice[t] : b[1] < from}]
          /\ UNCHANGED processed
      BY <1>8, <3>0 DEF DeleteFrom, Below
    <3>2. rows'[t] = {b \in rows[t] : b[1] < from} /\ \A s \in Facts : s # t => rows'[s] = rows[s]
      BY <2>2, <2>8, <3>1
    <3>3. NoDuplicateRows'
      BY <1>h, <2>8, <3>1 DEF TypeOK
    <3>4. EmptyFrom(rows'[t], from)
      BY <3>2 DEF EmptyFrom
    <3>5. HoldsBelow(rows'[t], processed, from)
      BY <2>1, <2>8, <3>2 DEF HoldsBelow
    <3>6. ASSUME marker # NoMarker PROVE HoldsBelow(rows'[t], processed, marker.start)
      <4>1. \A b \in Block : b[1] < marker.start => b[1] < from
        BY <2>2, <2>3, <3>6, BlockIs
      <4> QED BY <3>5, <4>1 DEF HoldsBelow
    <3>7. after = "retail" => Holds(rows'[t], processed, {})
      BY <2>2, <2>5, <3>4, <3>5, CutTogether
    <3>8. \A s \in Facts : s # t => (s \notin todo' => s \notin todo)
      BY <2>1
    <3> HIDE DEF NoDuplicateRows
    <3> QED BY <2>1, <2>4, <2>8, <3>1, <3>2, <3>3, <3>4, <3>5, <3>6, <3>7, <3>8
  <2> QED BY <1>h, <2>6, <2>7, <2>8 DEF TypeOK
<1>9. CASE Deleted
  <2>1. /\ pc = "delete" /\ todo = {} /\ running = {}
        /\ pc' \in {"forget", after}
        /\ UNCHANGED <<rows, twice, processed, running, marker, from, after>>
    BY <1>h, <1>9 DEF Deleted, MarkInv, MayInsert
  <2>2. NothingFrom(processed, from) /\ from \in Int
    BY <1>h, <2>1, WindowConstants DEF BlockInv, TypeOK
  <2>3. \A t \in Facts : Holds(rows[t], processed, {})
    BY <2>1, <2>2, CutTogether
  <2>4. pc' \in {"forget", "recovered", "retail", "validate"}
    BY <1>a, <2>1
  <2> QED BY <1>b, <2>1, <2>3, <2>4
<1>10. CASE ClearCurrent
  BY <1>h, <1>b, <1>a, <1>10 DEF ClearCurrent
<1>11. CASE RebuildCurrent
  <2>1. /\ pc = "rebuild" /\ running = {} /\ pc' \in {"recovered", "retail", "validate"}
        /\ UNCHANGED <<rows, twice, processed, running, marker, from, after>>
    BY <1>h, <1>a, <1>11 DEF RebuildCurrent, MarkInv, MayInsert
  <2> QED BY <1>h, <2>1
<1>12. CASE PlanBackfill
  BY <1>h, <1>b, <1>a, <1>12 DEF PlanBackfill
<1>13. CASE PlanOnline
  BY <1>h, <1>b, <1>a, <1>13 DEF PlanOnline
<1>14. CASE LoadWindow
  BY <1>h, <1>b, <1>a, <1>14 DEF LoadWindow
<1>15. CASE SetMarker
  <2>1. /\ pc = "mark" /\ running = {} /\ pc' = "check"
        /\ UNCHANGED <<rows, twice, processed, running>>
    BY <1>h, <1>15 DEF SetMarker, MarkInv, MayInsert
  <2> QED BY <1>h, <1>b, <2>1
<1>16. CASE CheckProcessed
  <2>1. /\ pc = "check" /\ running = {} /\ pc' \in {"drain", "validate", "unmark"}
        /\ UNCHANGED <<rows, twice, processed, running, marker>>
        /\ pc' = "drain" => after' = "validate"
    BY <1>h, <1>16 DEF CheckProcessed, Rewind, MarkInv, MayInsert
  <2> QED BY <1>h, <1>b, <2>1
<1>17. CASE InsertFacts
  <2>1. /\ pc = "validate" /\ pc' = "facts" /\ running = {}
        /\ UNCHANGED <<rows, twice, processed, marker, pending>>
    BY <1>h, <1>17 DEF InsertFacts, MarkInv, MayInsert
  <2>2. running' = {[table |-> t, blocks |-> pending] : t \in Facts}
    BY <1>17, <2>1 DEF InsertFacts, Insert
  <2>3. \A t \in Facts : Holds(rows[t], processed, {}) /\ rows[t] \cap pending = {}
    BY <1>h, <2>1, FreshOnTop DEF BlockInv
  <2>4. \A t \in Facts : \E insert \in running' : insert.table = t
    <3> SUFFICES ASSUME NEW t \in Facts PROVE \E insert \in running' : insert.table = t
      OBVIOUS
    <3>1. [table |-> t, blocks |-> pending] \in running'
      BY <2>2
    <3> QED BY <3>1
  <2>5. \A insert \in running' : insert.table \in Facts /\ insert.blocks = pending
    BY <2>2
  <2> QED BY <1>b, <2>1, <2>3, <2>4, <2>5
<1>18. CASE InsertCurrent
  <2>1. /\ pc = "facts" /\ pc' = "current" /\ running = {} /\ ~failed
        /\ UNCHANGED <<rows, twice, processed, marker, pending>>
    BY <1>h, <1>18 DEF InsertCurrent, Settled, MarkInv, MayInsert
  <2>2. running' = {[table |-> "current", blocks |-> pending]}
    BY <1>18, <2>1 DEF InsertCurrent, Insert
  <2>3. \A insert \in running' :
          insert.table = "current" /\ insert.table \notin Facts /\ insert.blocks = pending
    BY <2>2, WindowConstants DEF Facts
  <2> QED BY <1>b, <2>1, <2>3
<1>19. CASE InsertProcessed
  <2>1. /\ pc \in {"facts", "current"} /\ pc' = "processed" /\ running = {} /\ ~failed
        /\ UNCHANGED <<rows, twice, processed, marker, pending>>
    BY <1>h, <1>19 DEF InsertProcessed, Settled, MarkInv, MayInsert
  <2>2. running' = {[table |-> "processed", blocks |-> pending]}
    BY <1>19, <2>1 DEF InsertProcessed, Insert
  <2>3. \A insert \in running' :
          insert.table = "processed" /\ insert.table \notin Facts /\ insert.blocks = pending
    BY <2>2, WindowConstants DEF Facts
  <2> QED BY <1>b, <2>1, <2>3
<1>20. CASE Inserted
  <2>1. /\ pc = "processed" /\ pc' = "unmark" /\ running = {} /\ ~failed
        /\ UNCHANGED <<rows, twice, processed, running, marker>>
    BY <1>h, <1>20 DEF Inserted, Settled, MarkInv, MayInsert
  <2>2. \A b \in pending : processed[b[1]] = b[2]
    BY <1>h, <2>1 DEF BlockInv, Landed
  <2>3. \A t \in Facts : Holds(rows[t], processed, {})
    BY <2>1, <2>2 DEF Holds
  <2> QED BY <1>b, <2>1, <2>3
<1>21. CASE ClearMarker
  BY <1>h, <1>b, <1>a, <1>21 DEF ClearMarker
<1>22. CASE Publish
  BY <1>h, <1>b, <1>a, <1>22 DEF Publish
<1>23. ASSUME NEW t \in awaited, Answer(t) PROVE RowInv'
  BY <1>h, <1>b, <1>a, <1>23 DEF Answer
<1>24. CASE AbortAfterInsert
  BY <1>h, <1>b, <1>a, <1>24 DEF AbortAfterInsert, Abort
<1>25. CASE RejectWindow
  BY <1>h, <1>b, <1>a, <1>25 DEF RejectWindow, Abort
<1>26. ASSUME NEW insert \in running, Land(insert) PROVE RowInv'
  <2>1. /\ running' = running \ {insert} /\ marker # NoMarker
        /\ UNCHANGED <<pc, marker, pending, from, todo, after, failed>>
        /\ \A b \in insert.blocks : b[1] >= marker.start
        /\ pc \in {"start", "idle", "marker", "facts", "current", "processed"}
             \/ (pc = "drain" /\ after = "recovered" /\ from = marker.start)
    BY <1>h, <1>26 DEF Land, MarkInv, MayInsert, InsertsAreMarked, TailInv
  <2>2. /\ marker.start \in Int /\ rows \in [Facts -> SUBSET Block] /\ twice \in [Facts -> SUBSET Block]
        /\ insert.blocks \subseteq Block
    BY <1>h, <2>1, WindowConstants DEF TypeOK, Marker, Heights
  <2>3. \A other \in running' : other.table # insert.table
    BY <1>h, <2>1 DEF BlockInv
  <2>4. CASE insert.table \in Facts
    <3>0. insert.table # "processed" /\ insert.table # "current"
      BY <2>4, WindowConstants DEF Facts
    <3>1. /\ rows' = [rows EXCEPT ![insert.table] = rows[insert.table] \cup insert.blocks]
          /\ twice' = [twice EXCEPT ![insert.table] =
                         twice[insert.table] \cup (rows[insert.table] \cap insert.blocks)]
          /\ UNCHANGED processed
      BY <1>26, <3>0 DEF Land
    <3>2. /\ rows'[insert.table] = rows[insert.table] \cup insert.blocks
          /\ \A s \in Facts : s # insert.table => rows'[s] = rows[s]
      BY <2>2, <2>4, <3>1
    <3>3. \A s \in Facts : twice'[s] = {}
      BY <2>2, <2>4, <3>1
    <3>4. HoldsBelow(rows'[insert.table], processed, marker.start)
      <4>1. \A b \in Block : b[1] < marker.start => b \notin insert.blocks
        BY <2>1, <2>2, BlockIs
      <4> QED BY <2>1, <2>4, <3>2, <4>1 DEF HoldsBelow
    <3>5. pc \notin {"current", "processed"}
      BY <2>4, WindowConstants DEF Facts
    <3>6. pc = "facts" => Holds(rows'[insert.table], processed, pending)
      <4> SUFFICES ASSUME pc = "facts" PROVE Holds(rows'[insert.table], processed, pending)
        OBVIOUS
      <4>1. Holds(rows[insert.table], processed, {}) /\ insert.blocks = pending
        BY <2>4
      <4> QED BY <3>2, <4>1 DEF Holds
    <3>7. ASSUME NEW s \in Facts, pc = "facts"
          PROVE  IF \E other \in running' : other.table = s
                 THEN Holds(rows'[s], processed, {})
                 ELSE failed \/ Holds(rows'[s], processed, pending)
      <4>1. CASE s = insert.table
        BY <2>3, <3>6, <3>7, <4>1
      <4>2. CASE s # insert.table
        BY <2>1, <3>2, <3>7, <4>2
      <4> QED BY <4>1, <4>2
    <3>8. \A other \in running' : other.table \in Facts => rows'[other.table] \cap other.blocks = {}
      BY <2>1, <2>3, <3>2
    <3>9. \A s \in Facts : HoldsBelow(rows'[s], processed, marker.start)
      BY <2>1, <3>2, <3>4
    <3>10. /\ ~Agreed' /\ marker' # NoMarker /\ NoDuplicateRows' /\ pc' \notin {"delete", "current", "processed"}
           /\ InRewind' => from' = marker'.start
           /\ pc' = "facts" => pc = "facts"
      BY <2>1, <3>3, <3>5
    <3>11. \A s \in Facts : HoldsBelow(rows'[s], processed', marker'.start)
      BY <2>1, <3>1, <3>9
    <3>12. \A other \in running' : pc' = "facts" => other.blocks = pending' /\ other.table \in Facts
      BY <2>1
    <3>13. \A s \in Facts : pc' = "facts" =>
             IF \E other \in running' : other.table = s
             THEN Holds(rows'[s], processed', {})
             ELSE failed' \/ Holds(rows'[s], processed', pending')
      <4>1. processed' = processed /\ failed' = failed /\ pending' = pending /\ pc' = pc
        BY <2>1, <3>1
      <4> HIDE DEF Agreed, InRewind, NoDuplicateRows
      <4> QED BY <3>7, <4>1, Zenon
    <3> HIDE DEF Agreed, InRewind, NoDuplicateRows
    <3> QED BY <3>8, <3>10, <3>11, <3>12, <3>13
  <2>5. CASE insert.table = "processed"
    <3>1. UNCHANGED <<rows, twice>>
      BY <1>26, <2>5, WindowConstants DEF Land, Facts
    <3>2. OnTop(processed, insert.blocks)
      BY <1>h, <2>5 DEF BlockInv
    <3>3. /\ \A b \in Block : processed'[b[1]] = b[2] <=> processed[b[1]] = b[2] \/ b \in insert.blocks
          /\ \A h \in Heights : h < marker.start => processed'[h] = processed[h]
      BY <1>h, <1>26, <2>1, <2>2, <2>5, <3>2, Joined
    <3>4. \A t \in Facts : HoldsBelow(rows[t], processed', marker.start)
      BY <2>1, <3>3, BlockIs DEF HoldsBelow
    <3>5. pc \notin {"facts", "current"} /\ (pc = "processed" => insert.blocks = pending)
      BY <1>h, <2>5 DEF BlockInv
    <3>6. pc = "processed" => \A t \in Facts : Holds(rows[t], processed', pending)
      BY <3>3, <3>5 DEF Holds
    <3> QED BY <2>1, <3>1, <3>4, <3>5, <3>6
  <2>6. CASE insert.table \notin Facts /\ insert.table # "processed"
    <3>1. UNCHANGED <<rows, twice, processed>>
      BY <1>26, <2>6 DEF Land
    <3> QED BY <2>1, <2>3, <2>6, <3>1
  <2> QED BY <2>4, <2>5, <2>6
<1>27. CASE Grow
  BY <1>h, <1>b, <1>a, <1>27 DEF Grow
<1>28. ASSUME NEW h \in Heights, Reorg(h) PROVE RowInv'
  BY <1>h, <1>b, <1>a, <1>28 DEF Reorg
<1>29. CASE Shrink
  BY <1>h, <1>b, <1>a, <1>29 DEF Shrink
<1>30. CASE Flush
  BY <1>h, <1>b, <1>a, <1>30 DEF Flush
<1>31. ASSUME NEW t \in awaited, InsertFails(t) PROVE RowInv'
  BY <1>h, <1>b, <1>a, <1>31 DEF InsertFails
<1>32. CASE CallFails
  BY <1>h, <1>b, <1>a, <1>32 DEF CallFails, Abort
<1>33. CASE Die
  BY <1>h, <1>b, <1>a, <1>33 DEF Die, Forget
<1>34. CASE MetadataCrash
  <2>1. /\ marker' = durable[1] /\ UNCHANGED <<rows, twice, processed, running, pending, from, todo, after, failed>>
        /\ pc' = IF pc \in MetadataCalls THEN "idle" ELSE pc
    BY <1>34 DEF MetadataCrash, LoseUnflushed
  <2>2. CASE marker # NoMarker
    <3>1. marker' = marker
      BY <1>h, <2>1, <2>2 DEF TailInv
    <3> QED BY <1>h, <2>1, <2>2, <3>1 DEF MetadataCalls
  <2>3. CASE marker = NoMarker
    <3>1. \A t \in Facts : Holds(rows[t], processed, {})
      BY <2>3
    <3>2. running = {} /\ pc \notin {"facts", "current", "processed"}
      <4>1. ~Applying
        BY <1>h, <2>3, MarkerIs DEF MarkInv
      <4> QED BY <1>h, <2>3, <4>1 DEF MarkInv, InsertsAreMarked, Applying
    <3> QED BY <1>b, <2>1, <3>1, <3>2
  <2> QED BY <2>2, <2>3
<1>35. CASE PowerLoss
  BY <1>h, <1>b, <1>a, <1>35 DEF PowerLoss, CanFault, FaultsAreApart
<1>36. CASE UNCHANGED vars
  BY <1>h, <1>b, <1>a, <1>36 DEF vars
<1> QED
  BY <1>1, <1>2, <1>3, <1>4, <1>5, <1>6, <1>7, <1>8, <1>9, <1>10, <1>11, <1>12, <1>13,
     <1>14, <1>15, <1>16, <1>17, <1>18, <1>19, <1>20, <1>21, <1>22, <1>23, <1>24, <1>25,
     <1>26, <1>27, <1>28, <1>29, <1>30, <1>31, <1>32, <1>33, <1>34, <1>35, <1>36
     DEF Next, ProcessStep, ServerStep, NodeStep, FaultStep

-----------------------------------------------------------------------------
(***************************************************************************)
(* Online, every step keeps the current state that of the processed        *)
(* blocks. The current state is built again from the creates, so there is  *)
(* such a table.                                                           *)
(***************************************************************************)
LEMMA CurrentStep ==
  ASSUME FaultsAreApart, Early # {}, BlocksHold, RowInv, OnlineCurrentInv, [Next]_vars
  PROVE  OnlineCurrentInv'
<1> SUFFICES ASSUME Online PROVE CurrentInv'
  BY DEF OnlineCurrentInv
<1> USE DEF CurrentInv, InRewind, Goto, node, metadata, warehouse, rewind, local
<1>h. TailInv /\ BlockInv /\ MarkInv /\ TypeOK /\ NoHole /\ CurrentInv
  BY DEF BlocksHold, BlockInv, OnlineCurrentInv
<1>a. InRewind => after \in {"recovered", "retail", "validate"}
  BY <1>h DEF TailInv
<1>m. InRewind /\ marker = NoMarker => Reconciling
  BY <1>h, CutAboveMarker DEF Reconciling
<1>p. Applying => marker # NoMarker
  BY <1>h, MarkerIs DEF MarkInv
<1>1. CASE StartProcess
  BY <1>h, <1>m, <1>p, <1>1 DEF StartProcess, Reconciling
<1>2. CASE ReadTip
  BY <1>h, <1>m, <1>p, <1>2 DEF ReadTip, Reconciling
<1>3. CASE ReadMarker
  <2>1. /\ pc = "marker" /\ UNCHANGED <<current, processed, marker, running, reconciled, tail>>
        /\ pc' = IF marker = NoMarker THEN "tail" ELSE "drain"
    BY <1>3 DEF ReadMarker, Rewind
  <2> QED BY <1>h, <2>1 DEF Reconciling
<1>4. CASE ClearRecovered
  BY <1>h, <1>m, <1>p, <1>4 DEF ClearRecovered, Reconciling
<1>5. CASE ReadTail
  <2>1. /\ pc = "tail" /\ marker = NoMarker /\ ~Reconciling
        /\ UNCHANGED <<current, processed, marker, running, tail>>
    BY <1>h, <1>5 DEF ReadTail, TailInv, Reconciling
  <2>2. CASE reconciled \/ WarehouseTail >= tail
    <3>1. pc' = "plan"
      BY <1>5, <2>2 DEF ReadTail
    <3>2. reconciled \/ ProcessedBelow(processed, tail + 1)
      <4>1. ASSUME WarehouseTail >= tail PROVE ProcessedBelow(processed, tail + 1)
        <5>1. tail \in Int /\ WarehouseTail \in Int /\ ProcessedBelow(processed, WarehouseTail + 1)
          BY <1>h, WarehouseTailIs, TailIsInt DEF TypeOK
        <5>2. tail + 1 \in Int /\ WarehouseTail + 1 \in Int /\ tail + 1 <= WarehouseTail + 1
          BY <4>1, <5>1
        <5> QED BY <5>1, <5>2, BelowLower
      <4> QED BY <2>2, <4>1
    <3>3. Holds(current, processed, {})
      BY <1>h, <2>1, <3>2
    <3> QED BY <2>1, <3>1, <3>3
  <2>3. CASE ~(reconciled \/ WarehouseTail >= tail)
    <3>1. pc' = "drain" /\ after' = "retail"
      BY <1>5, <2>3 DEF ReadTail, Rewind
    <3> QED BY <3>1 DEF Reconciling
  <2> QED BY <2>2, <2>3
<1>6. CASE LowerTail
  BY <1>h, <1>m, <1>p, <1>6 DEF LowerTail, Reconciling
<1>7. CASE Drain
  BY <1>h, <1>m, <1>p, <1>7 DEF Drain, Reconciling
<1>8. ASSUME NEW t \in todo, DeleteFrom(t) PROVE CurrentInv'
  <2>1. pc = "delete" /\ pc' = "delete" /\ UNCHANGED <<marker, after>>
    BY <1>8 DEF DeleteFrom
  <2> QED BY <1>m, <2>1 DEF Reconciling
<1>9. CASE Deleted
  <2>1. pc = "delete" /\ pc' = "forget" /\ UNCHANGED <<marker, after>>
    BY <1>9 DEF Deleted
  <2> QED BY <1>m, <2>1 DEF Reconciling
<1>10. CASE ClearCurrent
  <2>1. pc = "forget" /\ pc' = "rebuild" /\ UNCHANGED <<marker, after>>
    BY <1>10 DEF ClearCurrent
  <2> QED BY <1>m, <2>1 DEF Reconciling
<1>11. CASE RebuildCurrent
  <2>1. /\ pc = "rebuild" /\ pc' \in {"recovered", "retail", "validate"}
        /\ processed' = processed
        /\ current' = {b \in UNION {rows[t] : t \in Early} : b[1] < from}
    BY <1>a, <1>11 DEF RebuildCurrent, Below
  <2>2. NothingFrom(processed, from) /\ from \in Int
    BY <1>h, <2>1, WindowConstants DEF BlockInv, TypeOK
  <2>3. \A t \in Early : Holds(rows[t], processed, {})
    BY <2>1 DEF RowInv, Agreed, Facts
  <2>4. Holds(current', processed, {})
    <3> SUFFICES ASSUME NEW b \in Block PROVE b \in current' <=> processed[b[1]] = b[2]
      BY DEF Holds
    <3>1. \A t \in Early : b \in rows[t] <=> processed[b[1]] = b[2]
      BY <2>3 DEF Holds
    <3>2. processed[b[1]] = b[2] => b[1] < from
      BY <2>2, BlockIs DEF NothingFrom
    <3> QED BY <2>1, <3>1, <3>2
  <2> QED BY <2>1, <2>4
<1>12. CASE PlanBackfill
  BY <1>h, <1>m, <1>p, <1>12 DEF PlanBackfill, Reconciling
<1>13. CASE PlanOnline
  BY <1>h, <1>m, <1>p, <1>13 DEF PlanOnline, Reconciling
<1>14. CASE LoadWindow
  BY <1>h, <1>m, <1>p, <1>14 DEF LoadWindow, Reconciling
<1>15. CASE SetMarker
  BY <1>h, <1>m, <1>p, <1>15 DEF SetMarker, Reconciling
<1>16. CASE CheckProcessed
  <2>1. /\ pc = "check" /\ pc' \in {"drain", "validate", "unmark"}
        /\ UNCHANGED <<current, processed, marker, running, reconciled, tail>> /\ marker # NoMarker
    BY <1>p, <1>16 DEF CheckProcessed, Rewind, Applying
  <2> QED BY <1>h, <2>1
<1>17. CASE InsertFacts
  <2>1. /\ pc = "validate" /\ pc' = "facts" /\ marker # NoMarker
        /\ UNCHANGED <<current, processed, marker>>
    BY <1>p, <1>17 DEF InsertFacts, Applying
  <2> QED BY <1>h, <2>1
<1>18. CASE InsertCurrent
  <2>1. /\ pc = "facts" /\ pc' = "current" /\ marker # NoMarker
        /\ UNCHANGED <<current, processed, marker>>
    BY <1>p, <1>18 DEF InsertCurrent, Applying
  <2>2. [table |-> "current", blocks |-> pending] \in running'
    BY <1>18 DEF InsertCurrent, Insert
  <2>3. \E insert \in running' : insert.table = "current"
    BY <2>2
  <2> QED BY <1>h, <2>1, <2>3
<1>19. CASE InsertProcessed
  <2>1. /\ pc = "current" /\ pc' = "processed" /\ marker # NoMarker /\ running = {} /\ ~failed
        /\ UNCHANGED <<current, processed, marker, pending>>
    BY <1>h, <1>p, <1>19 DEF InsertProcessed, Settled, Applying, MarkInv
  <2> QED BY <1>h, <2>1
<1>20. CASE Inserted
  <2>1. /\ pc = "processed" /\ pc' = "unmark" /\ running = {} /\ ~failed /\ marker # NoMarker
        /\ UNCHANGED <<current, processed, marker>>
    BY <1>h, <1>p, <1>20 DEF Inserted, Settled, MarkInv, Applying
  <2>2. \A b \in pending : processed[b[1]] = b[2]
    BY <1>h, <2>1 DEF BlockInv, Landed
  <2>3. Holds(current, processed, pending)
    BY <1>h, <2>1
  <2>4. Holds(current, processed, {})
    BY <2>2, <2>3 DEF Holds
  <2> QED BY <2>1, <2>4
<1>21. CASE ClearMarker
  BY <1>h, <1>m, <1>p, <1>21 DEF ClearMarker, Reconciling
<1>22. CASE Publish
  BY <1>h, <1>m, <1>p, <1>22 DEF Publish, Reconciling
<1>23. ASSUME NEW t \in awaited, Answer(t) PROVE CurrentInv'
  BY <1>h, <1>m, <1>p, <1>23 DEF Answer, Reconciling
<1>24. CASE AbortAfterInsert
  <2>1. marker # NoMarker /\ marker' = marker /\ pc' = "idle"
    BY <1>p, <1>24 DEF AbortAfterInsert, Abort, Applying
  <2> QED BY <2>1
<1>25. CASE RejectWindow
  <2>1. marker # NoMarker /\ marker' = marker /\ pc' = "idle"
    BY <1>p, <1>25 DEF RejectWindow, Abort, Applying
  <2> QED BY <2>1
<1>26. ASSUME NEW insert \in running, Land(insert) PROVE CurrentInv'
  <2>1. /\ running' = running \ {insert} /\ marker # NoMarker /\ UNCHANGED <<pc, marker, pending, failed>>
        /\ pc \in {"start", "idle", "marker", "facts", "current", "processed", "drain"}
    BY <1>h, <1>26 DEF Land, MarkInv, MayInsert, InsertsAreMarked
  <2>2. pc \in {"facts", "current", "processed"} =>
          insert.blocks = pending /\ insert.table \in IF pc = "facts" THEN Facts ELSE {pc}
    BY DEF RowInv
  <2>3. CASE pc = "facts"
    <3>1. insert.table \notin {"current", "processed"}
      BY <2>2, <2>3, WindowConstants DEF Facts
    <3>2. UNCHANGED <<current, processed>>
      BY <1>26, <3>1 DEF Land
    <3> QED BY <1>h, <2>1, <2>3, <3>2
  <2>4. CASE pc = "current"
    <3>0. insert.table = "current" /\ insert.table \notin Facts
      BY <2>2, <2>4, WindowConstants DEF Facts
    <3>1. current' = current \cup pending /\ processed' = processed
      BY <1>26, <2>2, <2>4, <3>0 DEF Land
    <3>2. Holds(current, processed, {})
      BY <1>h, <2>4, <3>0
    <3>3. Holds(current', processed', pending)
      BY <3>1, <3>2 DEF Holds
    <3>4. \A other \in running' : other.table # "current"
      BY <1>h, <2>1, <3>0 DEF BlockInv
    <3> QED BY <2>1, <2>4, <3>3, <3>4
  <2>5. CASE pc = "processed"
    <3>0. insert.table = "processed" /\ insert.table \notin Facts
      BY <2>2, <2>5, WindowConstants DEF Facts
    <3>1. current' = current /\ OnTop(processed, insert.blocks)
      BY <1>h, <1>26, <3>0 DEF Land, BlockInv
    <3>2. \A b \in Block : processed'[b[1]] = b[2] <=> processed[b[1]] = b[2] \/ b \in pending
      BY <1>h, <1>26, <2>2, <2>5, <3>0, <3>1, Joined
    <3>3. Holds(current, processed, pending)
      BY <1>h, <2>5
    <3>4. Holds(current', processed', pending)
      BY <3>1, <3>2, <3>3 DEF Holds
    <3> QED BY <2>1, <2>5, <3>4
  <2>6. CASE pc \notin {"facts", "current", "processed"}
    BY <2>1, <2>6
  <2> QED BY <2>3, <2>4, <2>5, <2>6
<1>27. CASE Grow
  BY <1>h, <1>m, <1>p, <1>27 DEF Grow, Reconciling
<1>28. ASSUME NEW h \in Heights, Reorg(h) PROVE CurrentInv'
  BY <1>h, <1>m, <1>p, <1>28 DEF Reorg, Reconciling
<1>29. CASE Shrink
  BY <1>h, <1>m, <1>p, <1>29 DEF Shrink, Reconciling
<1>30. CASE Flush
  BY <1>h, <1>m, <1>p, <1>30 DEF Flush, Reconciling
<1>31. ASSUME NEW t \in awaited, InsertFails(t) PROVE CurrentInv'
  BY <1>h, <1>m, <1>p, <1>31 DEF InsertFails, Reconciling
<1>32. CASE CallFails
  <2>1. /\ pc' = "idle" /\ ~Reconciling /\ pc \notin {"facts", "current", "processed"}
        /\ UNCHANGED <<current, processed, marker, tail, reconciled>>
    BY <1>32 DEF CallFails, CanFault, Abort, FaultsAreApart
  <2> QED BY <1>h, <2>1
<1>33. CASE Die
  <2>1. pc' = "start" /\ ~reconciled' /\ UNCHANGED <<current, processed, marker, tail>>
    BY <1>33 DEF Die, Forget
  <2> SUFFICES ASSUME marker = NoMarker, ProcessedBelow(processed, tail + 1)
               PROVE  Holds(current, processed, {})
    BY <2>1
  <2>2. ~Reconciling
    <3> SUFFICES ASSUME Reconciling PROVE FALSE
      OBVIOUS
    <3>1. from <= tail /\ NothingFrom(processed, from)
      BY <1>h DEF TailInv
    <3>2. from \in Int /\ tail \in Int /\ from \in Heights
      BY <1>h, <3>1, TailIsInt, WindowConstants DEF TypeOK, Heights, Tail, None
    <3>3. processed[from] = None /\ processed[from] # None
      BY <3>1, <3>2 DEF NothingFrom, ProcessedBelow
    <3> QED BY <3>3
  <2> QED BY <1>h, <2>2
<1>34. CASE MetadataCrash
  <2>1. /\ marker' = durable[1] /\ tail' = durable[2] /\ CrashHolds
        /\ pc' = IF pc \in MetadataCalls THEN "idle" ELSE pc
        /\ UNCHANGED <<current, processed, running, pending, failed, reconciled>>
    BY <1>h, <1>34 DEF MetadataCrash, LoseUnflushed, CanFault, TailInv
  <2>2. marker' = NoMarker => marker = NoMarker
    BY <1>h, <2>1 DEF TailInv
  <2>3. ~Reconciling /\ (reconciled \/ ProcessedBelow(processed, tail + 1))
    BY <2>1 DEF CrashHolds
  <2> QED BY <1>h, <2>1, <2>2, <2>3
<1>35. CASE PowerLoss
  BY <1>h, <1>m, <1>p, <1>35 DEF PowerLoss, CanFault, FaultsAreApart, Reconciling
<1>36. CASE UNCHANGED vars
  BY <1>h, <1>m, <1>p, <1>36 DEF vars, Reconciling
<1> QED
  BY <1>1, <1>2, <1>3, <1>4, <1>5, <1>6, <1>7, <1>8, <1>9, <1>10, <1>11, <1>12, <1>13,
     <1>14, <1>15, <1>16, <1>17, <1>18, <1>19, <1>20, <1>21, <1>22, <1>23, <1>24, <1>25,
     <1>26, <1>27, <1>28, <1>29, <1>30, <1>31, <1>32, <1>33, <1>34, <1>35, <1>36
     DEF Next, ProcessStep, ServerStep, NodeStep, FaultStep

-----------------------------------------------------------------------------
(***************************************************************************)
(* The process starts with the tables agreeing.                            *)
(***************************************************************************)
LEMMA RowsInit == Init => RowInv /\ OnlineCurrentInv
<1> SUFFICES ASSUME Init PROVE RowInv /\ OnlineCurrentInv
  OBVIOUS
<1>1. /\ pc = "start" /\ marker = NoMarker /\ running = {}
      /\ rows = [t \in Facts |-> Done \X {0}] /\ twice = [t \in Facts |-> {}]
      /\ current = Done \X {0}
      /\ processed = [h \in Heights |-> IF h \in Done THEN 0 ELSE None]
  BY DEF Init
<1>2. Holds(Done \X {0}, processed, {})
  BY <1>1, WindowConstants DEF Holds, Block, Forks, None
<1>3. RowInv
  BY <1>1, <1>2 DEF RowInv, NoDuplicateRows, InRewind
<1>4. CurrentInv
  BY <1>1, <1>2 DEF CurrentInv
<1> QED BY <1>3, <1>4 DEF OnlineCurrentInv

(***************************************************************************)
(* What holds of the rows is inductive together with what holds of the     *)
(* processed blocks.                                                       *)
(***************************************************************************)
LEMMA RowsInvariance ==
  ASSUME FaultsAreApart
  PROVE  Spec => [](BlocksHold /\ RowInv)
<1>1. Spec => [](BlocksHold /\ ForkInv /\ ChainInv)
  BY BlocksInvariance
<1>2. Init => RowInv
  BY RowsInit
<1>3. BlocksHold /\ RowInv /\ [Next]_vars => RowInv'
  BY RowStep
<1> QED BY <1>1, <1>2, <1>3, PTL DEF Spec

(***************************************************************************)
(* The same of the current state.                                          *)
(***************************************************************************)
LEMMA CurrentInvariance ==
  ASSUME FaultsAreApart, Early # {}
  PROVE  Spec => [](BlocksHold /\ OnlineCurrentInv)
<1>1. Spec => [](BlocksHold /\ RowInv)
  BY RowsInvariance
<1>2. Init => OnlineCurrentInv
  BY RowsInit
<1>3. BlocksHold /\ RowInv /\ OnlineCurrentInv /\ [Next]_vars => OnlineCurrentInv'
  BY CurrentStep
<1> QED BY <1>1, <1>2, <1>3, PTL DEF Spec

(***************************************************************************)
(* No row is written twice: whatever inserts fail while the server goes on *)
(* with them, whatever windows are replayed, no fact table ever holds a    *)
(* block's rows two times (waitForCoreWindowInserts, then                  *)
(* deleteCoreDogecoinTail, before a window is applied again).              *)
(***************************************************************************)
THEOREM RowsAreWrittenOnce ==
  ASSUME FaultsAreApart
  PROVE  Spec => []NoDuplicateRows
<1>1. RowInv => NoDuplicateRows
  BY DEF RowInv
<1> QED BY <1>1, RowsInvariance, PTL

(***************************************************************************)
(* The write-ahead rule: a height at which a fact table and the processed  *)
(* blocks disagree is at or above the start of a recovery marker           *)
(* (setJsonValue before the first insert, clearCoreApplyRecoveryMarker     *)
(* after the last).                                                        *)
(***************************************************************************)
THEOREM DisagreementIsMarked ==
  ASSUME FaultsAreApart
  PROVE  Spec => []PartialRowsAreCovered
<1>1. BlocksHold /\ RowInv => PartialRowsAreCovered
  <2> SUFFICES ASSUME TypeOK, RowInv, NEW h \in Heights, ~Covered(h)
               PROVE  Exact(h)
    BY DEF PartialRowsAreCovered, BlocksHold
  <2>1. marker # NoMarker => marker.start \in Int /\ h \in Int /\ h < marker.start
    BY WindowConstants DEF Covered, TypeOK, Marker, Heights
  <2>2. ASSUME NEW t \in Facts
        PROVE  {b \in rows[t] : b[1] = h} =
                 IF processed[h] = None THEN {} ELSE {<<h, processed[h]>>}
    <3>1. \A b \in Block : b[1] = h => (b \in rows[t] <=> processed[h] = b[2])
      <4>1. CASE marker = NoMarker
        BY <4>1 DEF RowInv, Holds
      <4>2. CASE marker # NoMarker
        BY <2>1, <4>2 DEF RowInv, HoldsBelow
      <4> QED BY <4>1, <4>2
    <3>2. rows[t] \subseteq Block
      BY DEF TypeOK
    <3>3. CASE processed[h] = None
      BY <3>1, <3>2, <3>3, BlockIs
    <3>4. CASE processed[h] # None
      <4>1. <<h, processed[h]>> \in Block
        BY <3>4 DEF TypeOK, Block
      <4>2. \A b \in Block : b[1] = h /\ b[2] = processed[h] => b = <<h, processed[h]>>
        BY DEF Block
      <4>3. \A b \in rows[t] : b[1] = h => b = <<h, processed[h]>>
        BY <3>1, <3>2, <4>2
      <4>4. <<h, processed[h]>> \in rows[t]
        BY <3>1, <4>1
      <4> QED BY <3>4, <4>3, <4>4
    <3> QED BY <3>3, <3>4
  <2> QED BY <2>2 DEF Exact
<1> QED BY <1>1, RowsInvariance, PTL

(***************************************************************************)
(* Online, the current-state tables reflect exactly the processed blocks   *)
(* whenever no rewind is due (rematerializeCoreCurrentStateAt,             *)
(* insertCoreCurrentStateWindow).                                          *)
(***************************************************************************)
THEOREM CurrentStateStaysExact ==
  ASSUME FaultsAreApart, Early # {}
  PROVE  Spec => []CurrentStateIsExact
<1>1. BlocksHold /\ OnlineCurrentInv => CurrentStateIsExact
  <2> SUFFICES ASSUME TypeOK, NoHole, TailInv, CurrentInv, \A h \in Heights : ~Covered(h)
               PROVE  current = {<<h, processed[h]>> : h \in {k \in Heights : processed[k] # None}}
    BY DEF CurrentStateIsExact, OnlineCurrentInv, BlocksHold, BlockInv
  <2>t. tail \in Int /\ tail >= -1 /\ tail <= MaxHeight /\ (tail >= 0 => tail \in Heights)
    BY WindowConstants DEF TypeOK, Tail, Heights, None
  <2>1. marker = NoMarker
    <3> SUFFICES ASSUME marker # NoMarker PROVE FALSE
      OBVIOUS
    <3>1. marker.start \in Heights /\ marker.start \in Int
      BY TailIsInt DEF TypeOK, Marker
    <3> QED BY <3>1 DEF Covered
  <2>2. ~Reconciling
    <3> SUFFICES ASSUME Reconciling PROVE FALSE
      OBVIOUS
    <3>1. from <= tail /\ from \in Nat
      BY WindowConstants DEF TailInv, TypeOK
    <3>2. from \in Heights
      BY <2>t, <3>1, WindowConstants DEF Heights
    <3> QED BY <3>1, <3>2 DEF Covered, Rewinding
  <2>3. reconciled \/ ProcessedBelow(processed, tail + 1)
    <3> SUFFICES ASSUME ~reconciled, ~ProcessedBelow(processed, tail + 1) PROVE FALSE
      OBVIOUS
    <3>1. /\ WarehouseTail \in Int /\ WarehouseTail >= -1
          /\ ProcessedBelow(processed, WarehouseTail + 1)
      BY WarehouseTailIs, TailIsInt
    <3>2. tail > WarehouseTail
      <4>1. ASSUME tail <= WarehouseTail PROVE FALSE
        <5>1. tail + 1 \in Int /\ WarehouseTail + 1 \in Int /\ tail + 1 <= WarehouseTail + 1
          BY <2>t, <3>1, <4>1
        <5> QED BY <3>1, <5>1, BelowLower
      <4> QED BY <2>t, <3>1, <4>1
    <3>3. tail \in Heights
      BY <2>t, <3>1, <3>2
    <3> QED BY <3>2, <3>3 DEF Covered, Rewinding
  <2>4. Holds(current, processed, {}) /\ current \subseteq Block
    BY <2>1, <2>2, <2>3 DEF CurrentInv, TypeOK
  <2>5. \A b \in current : b = <<b[1], processed[b[1]]>> /\ b[1] \in Heights /\ processed[b[1]] # None
    <3> SUFFICES ASSUME NEW b \in current
                 PROVE  b = <<b[1], processed[b[1]]>> /\ b[1] \in Heights /\ processed[b[1]] # None
      OBVIOUS
    <3>1. b \in Block /\ processed[b[1]] = b[2]
      BY <2>4 DEF Holds
    <3>2. b = <<b[1], b[2]>>
      BY <3>1 DEF Block
    <3> QED BY <3>1, <3>2, BlockIs
  <2>6. ASSUME NEW h \in Heights, processed[h] # None PROVE <<h, processed[h]>> \in current
    <3>1. <<h, processed[h]>> \in Block
      BY <2>6 DEF TypeOK, Block
    <3> QED BY <2>4, <3>1 DEF Holds
  <2> QED BY <2>5, <2>6
<1> QED BY <1>1, CurrentInvariance, PTL
=============================================================================
