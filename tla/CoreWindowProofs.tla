-------------------------- MODULE CoreWindowProofs --------------------------
(***************************************************************************)
(* What is proved of CoreWindow for every value of its constants: the      *)
(* types, and that the recovery marker and the drain before a rewind keep  *)
(* an abandoned insert from ever meeting a rewind.                         *)
(***************************************************************************)
EXTENDS CoreWindow, WellFoundedInduction, TLAPS

(***************************************************************************)
(* A set of natural numbers has a least element; window ends are chosen    *)
(* with it.                                                                *)
(***************************************************************************)
LEMMA LeastExists ==
  ASSUME NEW S, S \subseteq Nat, S # {}
  PROVE  \E m \in S : \A k \in S : m <= k
<1>1. PICK x \in S : \A y \in S : ~ (<<y, x>> \in OpToRel(<, Nat))
  BY WFMin, NatLessThanWellFounded
<1>2. \A y \in S : ~ (y < x)
  BY <1>1 DEF OpToRel
<1> QED BY <1>2

(***************************************************************************)
(* A bounded set of natural numbers has a greatest element; tails are      *)
(* chosen with it.                                                         *)
(***************************************************************************)
LEMMA GreatestExists ==
  ASSUME NEW n \in Nat, NEW S, S \subseteq 0 .. n, S # {}
  PROVE  \E m \in S : \A k \in S : k <= m
<1> DEFINE D == {n - s : s \in S}
<1>1. D \subseteq Nat
  <2>1. \A s \in S : n - s \in Nat OBVIOUS
  <2> QED BY <2>1
<1>2. D # {}
  <2>1. PICK s \in S : TRUE OBVIOUS
  <2>2. n - s \in D BY <2>1
  <2> QED BY <2>2
<1>3. PICK d \in D : \A k \in D : d <= k
  <2> HIDE DEF D
  <2> QED BY <1>1, <1>2, LeastExists
<1>4. PICK m \in S : d = n - m OBVIOUS
<1>5. \A k \in S : n - m <= n - k BY <1>3, <1>4
<1> QED BY <1>5

(***************************************************************************)
(* The first height of a window is one of its heights (markers start       *)
(* there).                                                                 *)
(***************************************************************************)
LEMMA BottomIn ==
  ASSUME NEW S, S \subseteq Heights, S # {}
  PROVE  Bottom(S) \in S /\ \A k \in S : Bottom(S) <= k
<1>1. S \subseteq Nat BY WindowConstants DEF Heights
<1> QED BY <1>1, LeastExists DEF Bottom

(***************************************************************************)
(* The newest of some heights is a height, or None when there is none      *)
(* (getCoreProcessedTail).                                                 *)
(***************************************************************************)
LEMMA TopType ==
  ASSUME NEW S, S \subseteq Heights
  PROVE  Top(S) \in Tail /\ (S # {} => Top(S) \in S)
<1>1. CASE S = {} BY <1>1 DEF Top, Tail
<1>2. CASE S # {}
  <2>1. \E m \in S : \A k \in S : k <= m
    BY <1>2, WindowConstants, GreatestExists DEF Heights
  <2> QED BY <1>2, <2>1 DEF Top, Tail
<1> QED BY <1>1, <1>2

(***************************************************************************)
(* The heights of a set of blocks are heights.                             *)
(***************************************************************************)
LEMMA HeightsOfType ==
  ASSUME NEW B, B \subseteq Block
  PROVE  HeightsOf(B) \subseteq Heights /\ (B # {} => HeightsOf(B) # {})
BY DEF HeightsOf, Block

(***************************************************************************)
(* The process starts in a state of the right types.                       *)
(***************************************************************************)
LEMMA TypeInit == Init => TypeOK
<1> SUFFICES ASSUME Init PROVE TypeOK
  OBVIOUS
<1>1. Done \subseteq Heights /\ FirstTip \in Heights /\ 0 \in Forks /\ -1 \notin Heights
  BY WindowConstants DEF Done, Heights, Forks
<1>2. Top(Done) \in Tail
  BY <1>1, TopType
<1>3. Done \X {0} \subseteq Block
  BY <1>1 DEF Block
<1>4. 0 .. FirstTip \subseteq Heights /\ 0 \in 0 .. MaxHeight + 1
  BY WindowConstants DEF Heights
<1> QED BY <1>1, <1>2, <1>3, <1>4 DEF Init, TypeOK, Marker, NoMarker, NoBranch, None

(***************************************************************************)
(* A loaded window holds, for every height between its start and some end, *)
(* the stored block or the node's, and nothing else (fillBackfillWindow,   *)
(* processOnlineWindow).                                                   *)
(***************************************************************************)
LEMMA LoadedIsOfWindow ==
  ASSUME LoadWindow
  PROVE  \E end \in WindowEnd :
           /\ window' \subseteq Stored(WindowStart .. end) \cup OfNode(WindowStart .. end)
           /\ \A h \in WindowStart .. end : \E b \in window' : b[1] = h
<1>1. CASE Online
  <2>1. PICK end \in WindowEnd, cut \in 0 .. MaxHeight + 1, lowerIsOld \in BOOLEAN :
          LET heights == WindowStart .. end
              old == {h \in heights : (h < cut) = lowerIsOld}
          IN  window' = Stored(old) \cup OfNode(heights \ old)
    BY <1>1 DEF LoadWindow, LoadOnline
  <2> DEFINE heights == WindowStart .. end
             old == {h \in heights : (h < cut) = lowerIsOld}
  <2>2. window' = Stored(old) \cup OfNode(heights \ old)
    BY <2>1
  <2>3. old \subseteq heights
    OBVIOUS
  <2> HIDE DEF heights, old
  <2>4. window' \subseteq Stored(heights) \cup OfNode(heights)
    BY <2>2, <2>3 DEF Stored, OfNode
  <2>5. ASSUME NEW h \in heights PROVE \E b \in window' : b[1] = h
    <3>1. CASE h \in old
      <4>1. <<h, synced[h]>> \in window' BY <2>2, <3>1 DEF Stored
      <4> QED BY <4>1
    <3>2. CASE h \notin old
      <4>1. <<h, chain[h]>> \in window' BY <2>2, <3>2 DEF OfNode
      <4> QED BY <4>1
    <3> QED BY <3>1, <3>2
  <2> QED BY <2>4, <2>5 DEF heights
<1>2. CASE ~Online
  <2>1. PICK end \in WindowEnd :
          window' \in {Stored(WindowStart .. end), OfNode(WindowStart .. end)}
    BY <1>2 DEF LoadWindow, LoadBackfill
  <2> DEFINE heights == WindowStart .. end
  <2>2. window' \in {Stored(heights), OfNode(heights)}
    BY <2>1
  <2> HIDE DEF heights
  <2>3. window' \subseteq Stored(heights) \cup OfNode(heights)
    BY <2>2
  <2>4. ASSUME NEW h \in heights PROVE \E b \in window' : b[1] = h
    <3>1. <<h, synced[h]>> \in window' \/ <<h, chain[h]>> \in window'
      BY <2>2 DEF Stored, OfNode
    <3> QED BY <3>1
  <2> QED BY <2>3, <2>4 DEF heights
<1> QED BY <1>1, <1>2, WindowConstants

(***************************************************************************)
(* Every step keeps the types. A window that is about to be marked must    *)
(* not be empty: its first and last height become the marker.              *)
(***************************************************************************)
LEMMA TypeStep ==
  ASSUME TypeOK, pc = "mark" => window # {}, [Next]_vars
  PROVE  TypeOK'
<1> USE DEF TypeOK, Goto, node, metadata, warehouse, rewind, local
<1>f. ASSUME Forget
      PROVE  /\ pc' = "start" /\ awaited' = {} /\ failed' = FALSE /\ reconciled' = FALSE
             /\ window' = {} /\ pending' = {}
             /\ latest' = latest /\ seenTail' = seenTail /\ synced' = synced
             /\ from' = from /\ todo' = todo /\ after' = after
  BY <1>f DEF Forget
<1>1. CASE Die
  <2>1. running' \subseteq running
    BY <1>1 DEF Die
  <2>2. Forget /\ faults' \in Nat /\ UNCHANGED <<node, metadata, rows, twice, processed, current, refs>>
    BY <1>1 DEF Die, CanFault
  <2> QED BY <2>1, <2>2, <1>f
<1>2. CASE CallFails
  <2>1. faults' \in Nat
    BY <1>2 DEF CallFails, CanFault
  <2>2. Abort
    BY <1>2 DEF CallFails
  <2> QED BY <2>1, <2>2 DEF Abort
<1>i. ASSUME NEW T \in SUBSET Tables, Insert(T)
      PROVE  /\ running' \subseteq [table : Tables, blocks : SUBSET Block]
             /\ awaited' \subseteq Tables /\ failed' \in BOOLEAN
  <2>1. {[table |-> t, blocks |-> pending] : t \in T} \subseteq [table : Tables, blocks : SUBSET Block]
    <3>1. \A t \in T : [table |-> t, blocks |-> pending] \in [table : Tables, blocks : SUBSET Block]
      OBVIOUS
    <3> QED BY <3>1
  <2> QED BY <1>i, <2>1 DEF Insert
<1>3. CASE InsertFacts
  <2>1. Insert(Facts) BY <1>3 DEF InsertFacts
  <2>2. Facts \in SUBSET Tables BY DEF Tables
  <2> QED BY <1>3, <1>i, <2>1, <2>2 DEF InsertFacts
<1>4. CASE InsertCurrent
  <2>1. Insert({"current"}) BY <1>4 DEF InsertCurrent
  <2>2. {"current"} \in SUBSET Tables BY DEF Tables
  <2> QED BY <1>4, <1>i, <2>1, <2>2 DEF InsertCurrent
<1>5. CASE InsertProcessed
  <2>1. Insert({"processed"}) BY <1>5 DEF InsertProcessed
  <2>2. {"processed"} \in SUBSET Tables BY DEF Tables
  <2> QED BY <1>5, <1>i, <2>1, <2>2 DEF InsertProcessed
<1>6. CASE RebuildCurrent
  <2>1. Below(UNION {rows[t] : t \in Early}) \subseteq Block
    BY DEF Below, Facts
  <2> QED BY <1>6, <2>1 DEF RebuildCurrent
<1>7. CASE ReadTail
  <2>1. WarehouseTail \in Tail
    BY TopType DEF WarehouseTail
  <2>2. WarehouseTail + 1 \in 0 .. MaxHeight + 1
    BY <2>1, WindowConstants DEF Tail, Heights, None
  <2> QED BY <1>7, <2>2 DEF ReadTail, Rewind
<1>8. ASSUME NEW t \in todo, DeleteFrom(t) PROVE TypeOK'
  <2>1. t = "processed" => processed' \in [Heights -> Forks \cup {None}]
    BY <1>8, WindowConstants DEF DeleteFrom, Facts
  <2>2. /\ t # "processed" => processed' = processed
        /\ t # "refs" => refs' = refs
        /\ refs' \subseteq refs
    BY <1>8, WindowConstants DEF DeleteFrom, Facts
  <2>3. rows' \in [Facts -> SUBSET Block] /\ twice' \in [Facts -> SUBSET Block]
    BY <1>8 DEF DeleteFrom, Below
  <2> QED BY <1>8, <2>1, <2>2, <2>3 DEF DeleteFrom
<1>9. CASE PlanOnline
  <2>1. refs' \subseteq Heights
    BY <1>9, WindowConstants DEF PlanOnline, Upper, Lower, Heights
  <2> QED BY <1>9, <2>1 DEF PlanOnline
<1>10. CASE LoadWindow
  <2>1. PICK end \in WindowEnd : window' \subseteq Stored(WindowStart .. end) \cup OfNode(WindowStart .. end)
    BY <1>10, LoadedIsOfWindow
  <2>2. WindowStart \in Nat
    BY WindowConstants DEF WindowStart, OnlineStart, Upper, Lower, Tail, Heights, None
  <2>3. end \in Int /\ end <= MaxHeight
    BY WindowConstants DEF WindowEnd, Lower, Tail, Heights, None
  <2>4. WindowStart .. end \subseteq Heights
    BY <2>2, <2>3, WindowConstants DEF Heights
  <2>5. window' \subseteq Block
    BY <2>1, <2>4 DEF Block, Stored, OfNode
  <2>6. HeightsOf(window') \subseteq Heights
    BY <2>5, HeightsOfType
  <2>7. refs' \subseteq Heights
    BY <1>10, <2>6 DEF LoadWindow
  <2> QED BY <1>10, <2>5, <2>7 DEF LoadWindow
<1>11. CASE SetMarker
  <2>1. HeightsOf(window) \subseteq Heights /\ HeightsOf(window) # {}
    BY <1>11, HeightsOfType DEF SetMarker
  <2>2. OwnMarker \in [start : Heights, end : Heights]
    BY <2>1, BottomIn, TopType DEF OwnMarker
  <2> QED BY <1>11, <2>2 DEF SetMarker, Marker
<1>12. CASE CheckProcessed
  <2>1. Replaced \subseteq Heights
    BY DEF Replaced, Block
  <2>2. Replaced # {} => Bottom(Replaced) \in 0 .. MaxHeight + 1
    <3>1. Replaced # {} => Bottom(Replaced) \in Heights
      BY <2>1, BottomIn
    <3> QED BY <3>1, WindowConstants DEF Heights
  <2>3. pending' \subseteq window
    <3>1. \/ pending' = {b \in window : b[1] >= Bottom(Replaced)}
          \/ pending' = {b \in window : processed[b[1]] = None}
      BY <1>12 DEF CheckProcessed
    <3> QED BY <3>1
  <2>4. CASE Replaced # {}
    BY <1>12, <2>2, <2>3, <2>4 DEF CheckProcessed, Rewind
  <2>5. CASE Replaced = {}
    BY <1>12, <2>3, <2>5 DEF CheckProcessed
  <2> QED BY <2>4, <2>5
<1>13. CASE Publish
  <2>1. Top(HeightsOf(window)) \in Tail
    BY HeightsOfType, TopType
  <2> QED BY <1>13, <2>1 DEF Publish
<1>14. ASSUME NEW t \in awaited, Answer(t) PROVE TypeOK'
  BY <1>14 DEF Answer
<1>15. ASSUME NEW insert \in running, Land(insert) PROVE TypeOK'
  <2>1. insert.blocks \subseteq Block
    OBVIOUS
  <2>2. rows' \in [Facts -> SUBSET Block] /\ twice' \in [Facts -> SUBSET Block]
    BY <1>15, <2>1 DEF Land
  <2>3. current' \subseteq Block
    BY <1>15, <2>1 DEF Land
  <2>4. processed' \in [Heights -> Forks \cup {None}]
    <3>1. ASSUME NEW h \in Heights, \E b \in insert.blocks : b[1] = h
          PROVE  (CHOOSE b \in insert.blocks : b[1] = h)[2] \in Forks
      BY <2>1, <3>1 DEF Block
    <3> QED BY <1>15, <3>1 DEF Land
  <2>5. running' \subseteq running
    BY <1>15 DEF Land
  <2> QED BY <1>15, <2>2, <2>3, <2>4, <2>5 DEF Land
<1>16. ASSUME NEW t \in awaited, InsertFails(t) PROVE TypeOK'
  <2>1. running' \subseteq running
    BY <1>16 DEF InsertFails
  <2> QED BY <1>16, <2>1 DEF InsertFails, CanFault
<1>17. CASE PowerLoss
  <2>1. /\ processed' \in [Heights -> Forks \cup {None}]
        /\ rows' \in [Facts -> SUBSET Block] /\ twice' \in [Facts -> SUBSET Block]
        /\ current' \subseteq Block /\ refs' \subseteq Heights
    BY <1>17 DEF PowerLoss
  <2>2. /\ Forget /\ LoseUnflushed /\ faults' \in Nat /\ running' = {}
        /\ UNCHANGED node
    BY <1>17 DEF PowerLoss, CanFault
  <2>3. marker' \in Marker /\ tail' \in Tail /\ onlineTip' \in Heights /\ durable' = durable
    BY <2>2 DEF LoseUnflushed
  <2> QED BY <2>1, <2>2, <2>3, <1>f
<1>18. ASSUME NEW h \in Heights, Reorg(h) PROVE TypeOK'
  <2> DEFINE f == Top({chain[k] : k \in Heights}) + 1
  <2>1. f \in Forks
    BY <1>18 DEF Reorg
  <2>2. h - 1 \in Heights
    BY <1>18, WindowConstants DEF Reorg, Upper, Heights
  <2>3. tip' \in Heights
    BY <1>18, WindowConstants DEF Reorg, Heights
  <2> HIDE DEF f
  <2>4. chain' = [k \in Heights |-> IF k < h THEN chain[k] ELSE f]
    BY <1>18 DEF Reorg, f
  <2>5. branch' = [branch EXCEPT ![f] = [at |-> h, parent |-> chain[h - 1]]]
    BY <1>18 DEF Reorg, f
  <2>6. chain' \in [Heights -> Forks]
    BY <2>1, <2>4
  <2>7. branch' \in [Forks -> [at : Heights \cup {None}, parent : Forks \cup {None}]]
    BY <2>1, <2>2, <2>5
  <2> QED BY <1>18, <2>3, <2>6, <2>7 DEF Reorg
<1>19. CASE StartProcess
  BY <1>19, WindowConstants DEF StartProcess
<1>20. CASE ReadTip
  BY <1>20, WindowConstants DEF ReadTip
<1>21. CASE ReadMarker
  BY <1>21, WindowConstants DEF ReadMarker, Rewind, Marker, NoMarker, None, Heights
<1>22. CASE ClearRecovered
  BY <1>22, WindowConstants DEF ClearRecovered, Marker
<1>23. CASE LowerTail
  BY <1>23, WindowConstants DEF LowerTail, Tail, Heights, None
<1>24. CASE Drain
  BY <1>24, WindowConstants DEF Drain
<1>25. CASE Deleted
  BY <1>25, WindowConstants DEF Deleted
<1>26. CASE ClearCurrent
  BY <1>26, WindowConstants DEF ClearCurrent
<1>27. CASE PlanBackfill
  BY <1>27, WindowConstants DEF PlanBackfill
<1>28. CASE Inserted
  BY <1>28, WindowConstants DEF Inserted
<1>29. CASE ClearMarker
  BY <1>29, WindowConstants DEF ClearMarker, Marker
<1>30. CASE AbortAfterInsert
  BY <1>30, WindowConstants DEF AbortAfterInsert, Abort
<1>31. CASE RejectWindow
  BY <1>31, WindowConstants DEF RejectWindow, Abort
<1>32. CASE Flush
  BY <1>32, WindowConstants DEF Flush
<1>33. CASE MetadataCrash
  BY <1>33, WindowConstants DEF MetadataCrash, CanFault, LoseUnflushed
<1>34. CASE Grow
  BY <1>34, WindowConstants DEF Grow, Heights
<1>35. CASE Shrink
  BY <1>35, WindowConstants DEF Shrink, Heights
<1>36. CASE UNCHANGED vars
  BY <1>36 DEF vars
<1> QED
  BY <1>1, <1>2, <1>3, <1>4, <1>5, <1>6, <1>7, <1>8, <1>9, <1>10, <1>11, <1>12, <1>13, <1>14, <1>15, <1>16, <1>17, <1>18, <1>19, <1>20, <1>21, <1>22, <1>23, <1>24, <1>25, <1>26, <1>27, <1>28, <1>29, <1>30, <1>31, <1>32, <1>33, <1>34, <1>35, <1>36
     DEF Next, ProcessStep, ServerStep, NodeStep, FaultStep

(***************************************************************************)
(* The marker a window sets is a marker, and covers every block of the     *)
(* window.                                                                 *)
(***************************************************************************)
LEMMA MarkCoversWindow ==
  ASSUME TypeOK, window # {}
  PROVE  OwnMarker # NoMarker /\ \A b \in window : b[1] >= OwnMarker.start
<1>1. HeightsOf(window) \subseteq Heights /\ HeightsOf(window) # {}
  BY HeightsOfType DEF TypeOK
<1>2. /\ Bottom(HeightsOf(window)) \in Heights
      /\ \A k \in HeightsOf(window) : Bottom(HeightsOf(window)) <= k
  BY <1>1, BottomIn
<1>3. OwnMarker # NoMarker
  BY <1>2, WindowConstants DEF OwnMarker, NoMarker, None, Heights
<1>4. \A b \in window : b[1] \in HeightsOf(window)
  BY DEF HeightsOf
<1>5. \A b \in window : b[1] >= Bottom(HeightsOf(window))
  BY <1>1, <1>2, <1>4, WindowConstants DEF Heights
<1> QED BY <1>3, <1>5 DEF OwnMarker

(***************************************************************************)
(* Every step keeps the invariant: inserts are only sent from an idle      *)
(* server under a durable marker, and the marker is only cleared when      *)
(* they are settled or drained.                                            *)
(***************************************************************************)
LEMMA MarkStep ==
  ASSUME TypeOK, MarkInv, [Next]_vars
  PROVE  MarkInv'
<1> USE DEF MarkInv, Applying, MayInsert, InRewind, InsertsAreMarked, OwnMarker, Goto, node, metadata, warehouse, rewind, local
<1>i. ASSUME NEW T, Insert(T), running = {}, Applying, pc # "check",
             UNCHANGED <<metadata, window, pending>>,
             pc' \in {"facts", "current", "processed"}
      PROVE  MarkInv'
  <2>1. \A insert \in running' : insert.table \in T /\ insert.blocks = pending
    BY <1>i DEF Insert
  <2>2. marker # NoMarker /\ \A b \in window : b[1] >= marker.start
    BY <1>i, MarkCoversWindow
  <2>3. InsertsAreMarked'
    BY <1>i, <2>1, <2>2
  <2>4. awaited' = T
    BY <1>i DEF Insert
  <2> QED BY <1>i, <2>1, <2>3, <2>4
<1>1. CASE InsertFacts
  <2>1. Insert(Facts) BY <1>1 DEF InsertFacts
  <2>2. running = {} BY <1>1 DEF InsertFacts
  <2> QED BY <1>1, <1>i, <2>1, <2>2 DEF InsertFacts
<1>2. CASE InsertCurrent
  <2>1. Insert({"current"}) BY <1>2 DEF InsertCurrent
  <2>2. running = {} BY <1>2 DEF InsertCurrent, Settled
  <2> QED BY <1>2, <1>i, <2>1, <2>2 DEF InsertCurrent
<1>3. CASE InsertProcessed
  <2>1. Insert({"processed"}) BY <1>3 DEF InsertProcessed
  <2>2. running = {} BY <1>3 DEF InsertProcessed, Settled
  <2> QED BY <1>3, <1>i, <2>1, <2>2 DEF InsertProcessed
<1>4. CASE SetMarker
  BY <1>4 DEF SetMarker
<1>5. CASE LoadWindow
  <2>1. PICK end \in WindowEnd : \A h \in WindowStart .. end : \E b \in window' : b[1] = h
    BY <1>5, LoadedIsOfWindow
  <2>2. WindowStart \in WindowStart .. end
    BY WindowConstants
       DEF TypeOK, WindowStart, WindowEnd, OnlineStart, Upper, Lower, Tail, Heights, None
  <2>3. window' # {}
    BY <2>1, <2>2
  <2> QED BY <1>5, <2>3 DEF LoadWindow
<1>6. CASE StartProcess
  BY <1>6 DEF StartProcess, TypeOK
<1>7. CASE ReadTip
  BY <1>7 DEF ReadTip, TypeOK
<1>8. CASE ReadMarker
  BY <1>8 DEF ReadMarker, TypeOK, Rewind
<1>9. CASE ClearRecovered
  BY <1>9 DEF ClearRecovered, TypeOK
<1>10. CASE ReadTail
  BY <1>10 DEF ReadTail, TypeOK, Rewind
<1>11. CASE LowerTail
  BY <1>11 DEF LowerTail, TypeOK
<1>12. CASE Drain
  BY <1>12 DEF Drain, TypeOK
<1>13. ASSUME NEW t \in todo, DeleteFrom(t) PROVE MarkInv'
  BY <1>13 DEF DeleteFrom, TypeOK
<1>14. CASE Deleted
  BY <1>14 DEF Deleted, TypeOK
<1>15. CASE ClearCurrent
  BY <1>15 DEF ClearCurrent, TypeOK
<1>16. CASE RebuildCurrent
  BY <1>16 DEF RebuildCurrent, TypeOK
<1>17. CASE PlanBackfill
  BY <1>17 DEF PlanBackfill, TypeOK
<1>18. CASE PlanOnline
  BY <1>18 DEF PlanOnline, TypeOK
<1>19. CASE CheckProcessed
  BY <1>19 DEF CheckProcessed, TypeOK, Rewind
<1>20. CASE Inserted
  BY <1>20 DEF Inserted, TypeOK, Settled
<1>21. CASE ClearMarker
  BY <1>21 DEF ClearMarker, TypeOK
<1>22. CASE Publish
  BY <1>22 DEF Publish, TypeOK
<1>23. ASSUME NEW t \in awaited, Answer(t) PROVE MarkInv'
  BY <1>23 DEF Answer, TypeOK
<1>24. CASE AbortAfterInsert
  BY <1>24 DEF AbortAfterInsert, TypeOK, Abort
<1>25. CASE RejectWindow
  BY <1>25 DEF RejectWindow, TypeOK, Abort
<1>26. ASSUME NEW insert \in running, Land(insert) PROVE MarkInv'
  BY <1>26 DEF Land, TypeOK
<1>27. CASE Flush
  BY <1>27 DEF Flush, TypeOK
<1>28. ASSUME NEW t \in awaited, InsertFails(t) PROVE MarkInv'
  BY <1>28 DEF InsertFails, TypeOK
<1>29. CASE CallFails
  BY <1>29 DEF CallFails, TypeOK, Abort
<1>30. CASE Die
  BY <1>30 DEF Die, TypeOK, Forget
<1>31. CASE MetadataCrash
  BY <1>31 DEF MetadataCrash, TypeOK, LoseUnflushed, MetadataCalls
<1>32. CASE PowerLoss
  BY <1>32 DEF PowerLoss, TypeOK, Forget, LoseUnflushed
<1>33. CASE Grow
  BY <1>33 DEF Grow, TypeOK
<1>34. CASE Shrink
  BY <1>34 DEF Shrink, TypeOK
<1>35. ASSUME NEW h \in Heights, Reorg(h) PROVE MarkInv'
  BY <1>35 DEF Reorg, TypeOK
<1>36. CASE UNCHANGED vars
  BY <1>36 DEF vars
<1> QED
  BY <1>1, <1>2, <1>3, <1>4, <1>5, <1>6, <1>7, <1>8, <1>9, <1>10, <1>11, <1>12, <1>13, <1>14, <1>15, <1>16, <1>17, <1>18, <1>19, <1>20, <1>21, <1>22, <1>23, <1>24, <1>25, <1>26, <1>27, <1>28, <1>29, <1>30, <1>31, <1>32, <1>33, <1>34, <1>35, <1>36
     DEF Next, ProcessStep, ServerStep, NodeStep, FaultStep

(***************************************************************************)
(* The invariant holds at first ...                                        *)
(***************************************************************************)
LEMMA MarkInit == Init => MarkInv
BY DEF Init, MarkInv, Applying, MayInsert, InRewind, InsertsAreMarked

(***************************************************************************)
(* ... and with the types it is inductive, whatever the process, the       *)
(* server, the node and the faults do.                                     *)
(***************************************************************************)
LEMMA Invariance == Spec => [](TypeOK /\ MarkInv)
<1>1. Init => TypeOK /\ MarkInv
  BY TypeInit, MarkInit
<1>2. TypeOK /\ MarkInv /\ [Next]_vars => (TypeOK /\ MarkInv)'
  <2>1. MarkInv => (pc = "mark" => window # {})
    BY DEF MarkInv
  <2> QED BY <2>1, TypeStep, MarkStep
<1> QED BY <1>1, <1>2, PTL DEF Spec

(***************************************************************************)
(* Every variable keeps its type: heights stay within the chain, forks are *)
(* known, the marker is absent or an interval.                             *)
(***************************************************************************)
THEOREM TypeCorrect == Spec => []TypeOK
BY Invariance, PTL

(***************************************************************************)
(* Whatever the server is inserting is marked durably (the write-ahead     *)
(* marker of applyWindowApplicationsWithRecovery), after any number of     *)
(* failures, crashes and restarts, for chains and windows of any size and  *)
(* any number of fact tables.                                              *)
(***************************************************************************)
THEOREM MarkedInserts == Spec => []InsertsAreMarked
<1>1. MarkInv => InsertsAreMarked
  BY DEF MarkInv
<1> QED BY <1>1, Invariance, PTL

(***************************************************************************)
(* Nothing is deleted, compared or rebuilt while an insert of an abandoned *)
(* request is still running (waitForCoreWindowInserts).                    *)
(***************************************************************************)
THEOREM LonelyRewind == Spec => []RewindRunsAlone
<1>1. MarkInv => RewindRunsAlone
  BY DEF MarkInv, RewindRunsAlone, MayInsert
<1> QED BY <1>1, Invariance, PTL
=============================================================================
