------------------------- MODULE CoreWindowBlockProofs -------------------------
(***************************************************************************)
(* Which blocks are processed, for every value of the constants of         *)
(* CoreWindow: no height is skipped, the processed blocks are one chain,   *)
(* and the tail that is published is processed.                            *)
(*                                                                         *)
(* The faults must not meet in the ways that leave a hole (the README      *)
(* lists them, with the runs that show each): a power loss, a rewind of    *)
(* the reconciliation that fails, and online a node that falls back or a   *)
(* death of the process beside a crash of the metadata database.           *)
(***************************************************************************)
EXTENDS CoreWindowProofs

FaultsAreApart ==
  /\ Faults \cap {"power", "reconcile"} = {}
  /\ Online => MaxShrink = 0 /\ ~({"death", "metadata"} \subseteq Faults)

-----------------------------------------------------------------------------
(* Vocabulary, over the processed blocks p                                 *)

\* The first height a window may start at when the process tail is t.
Floor(t) == IF Online THEN Upper(0, t - Depth + 1) ELSE t + 1

ProcessedBelow(p, n) == \A k \in Heights : k < n => p[k] # None
NothingFrom(p, n)    == \A k \in Heights : k >= n => p[k] = None

First(blocks) == Bottom(HeightsOf(blocks))
Last(blocks)  == Top(HeightsOf(blocks))

\* One block at each height from the first to the last.
OnePerHeight(blocks) == \A b, c \in blocks : b[1] = c[1] => b = c
Shaped(blocks) ==
  /\ blocks # {} /\ blocks \subseteq Block
  /\ OnePerHeight(blocks)
  /\ HeightsOf(blocks) = First(blocks) .. Last(blocks)

\* The processed blocks end where these begin, or these are the last of them.
OnTop(p, blocks) ==
  Shaped(blocks) /\ ProcessedBelow(p, First(blocks)) /\ NothingFrom(p, First(blocks))
Landed(p, blocks) ==
  /\ Shaped(blocks) /\ ProcessedBelow(p, Last(blocks) + 1) /\ NothingFrom(p, Last(blocks) + 1)
  /\ \A b \in blocks : p[b[1]] = b[2]

\* The blocks from a height on.
From(blocks, h) == {b \in blocks : b[1] >= h}

-----------------------------------------------------------------------------
(***************************************************************************)
(* The tails. What a window starting at the floor of a tail relies on is   *)
(* processed, below whichever tail, marker and rewind there is; a window   *)
(* in hand starts above the tail's floor and ends at or above the tail.    *)
(***************************************************************************)
HasWindow == pc \in {"mark", "publish"} \/ Applying

\* Where the metadata database may crash, no tail is ever lowered, so what it
\* falls back to is below what it had.
CrashHolds ==
  /\ durable[2] <= tail /\ ~Reconciling
  /\ durable[1] # NoMarker => Floor(durable[2]) <= durable[1].start
  /\ Online /\ ~reconciled =>
       /\ pc \in {"start", "idle", "marker", "tail"} /\ running = {}
       /\ marker = NoMarker /\ durable[1] = NoMarker /\ ProcessedBelow(processed, tail + 1)

TailInv ==
  /\ ProcessedBelow(processed, Floor(tail))
  /\ marker # NoMarker => durable[1] = marker /\ Floor(tail) <= marker.start
  /\ InRewind => Floor(tail) <= from /\ after \in {"recovered", "retail", "validate"}
  /\ InRewind /\ after = "recovered" => marker # NoMarker /\ from = marker.start
  /\ Reconciling =>
       /\ marker = NoMarker /\ from <= tail /\ seenTail = tail
       /\ ProcessedBelow(processed, from) /\ NothingFrom(processed, from)
  /\ pc \in {"tail", "plan", "publish"} => marker = NoMarker
  /\ pc = "plan" => seenTail = tail
  /\ pc = "load" => tail <= seenTail /\ ProcessedBelow(processed, Floor(seenTail))
  /\ HasWindow =>
       Shaped(window) /\ ProcessedBelow(processed, First(window)) /\ tail <= Last(window)
  /\ pc = "mark" => Floor(tail) <= First(window)
  /\ Online => tail <= latest /\ seenTail <= latest /\ latest <= tip
  /\ Online /\ HasWindow => Last(window) <= latest
  /\ "metadata" \in Faults => CrashHolds

(***************************************************************************)
(* The blocks to insert continue the processed ones: they are the window   *)
(* from where the processed blocks end, or from where the rewind cut them; *)
(* the table of processed blocks is written once, by one insert.           *)
(***************************************************************************)
BlockInv ==
  /\ NoHole
  /\ pc = "drain" => todo = Facts \cup {"processed", "refs"}
  /\ InRewind /\ pc # "drain" /\ (pc = "delete" => "processed" \notin todo) =>
       NothingFrom(processed, from)
  /\ pc = "recovered" => NothingFrom(processed, from)
  /\ InRewind /\ after = "validate" =>
       /\ Shaped(pending) /\ First(pending) = from /\ pending = From(window, from)
       /\ ProcessedBelow(processed, from)
  /\ pc \in {"validate", "facts", "current"} => OnTop(processed, pending)
  /\ pc \in {"validate", "facts", "current", "processed"} =>
       pending = From(window, First(pending))
  /\ pc = "processed" =>
       \/ Landed(processed, pending)
       \/ /\ OnTop(processed, pending)
          /\ failed \/ \E insert \in running : insert.table = "processed"
  /\ pc \in {"unmark", "publish"} => ProcessedBelow(processed, Last(window) + 1)
  /\ \A insert \in running : insert.table = "processed" =>
       /\ OnTop(processed, insert.blocks)
       /\ pc \notin {"facts", "current"} /\ (pc = "processed" => insert.blocks = pending)
  /\ \A i, j \in running : i.table = j.table => i = j

BlocksHold == TypeOK /\ MarkInv /\ TailInv /\ BlockInv

-----------------------------------------------------------------------------
(***************************************************************************)
(* The floor of a tail is a height at most one above it, and grows with    *)
(* it (onlineProcessWindowStart).                                          *)
(***************************************************************************)
LEMMA FloorFacts ==
  /\ \A t \in Tail : Floor(t) \in Nat /\ Floor(t) <= t + 1
  /\ \A t, u \in Tail : t <= u => Floor(t) <= Floor(u)
  /\ ~Online => \A t \in Tail : Floor(t) = t + 1
BY WindowConstants DEF Floor, Upper, Tail, Heights, None

(***************************************************************************)
(* A tail is an integer.                                                   *)
(***************************************************************************)
LEMMA TailIsInt ==
  /\ \A t \in Tail : t \in Int /\ t >= -1
  /\ \A h \in Heights : h \in Int /\ h >= 0 /\ h \in Tail
  /\ None \in Tail
BY WindowConstants DEF Tail, Heights, None

(***************************************************************************)
(* The least and the greatest of some heights are what they are called.    *)
(***************************************************************************)
LEMMA BottomIs ==
  ASSUME NEW S, S \subseteq Heights, NEW m \in S, \A k \in S : m <= k
  PROVE  Bottom(S) = m
<1>1. Bottom(S) \in S /\ \A k \in S : Bottom(S) <= k
  BY BottomIn
<1>2. Bottom(S) \in Int /\ m \in Int
  BY <1>1, TailIsInt
<1>3. Bottom(S) <= m /\ m <= Bottom(S)
  BY <1>1
<1> QED BY <1>2, <1>3

(***************************************************************************)
(* The same of the greatest.                                               *)
(***************************************************************************)
LEMMA TopIs ==
  ASSUME NEW S, S \subseteq Heights, S # {}
  PROVE  /\ Top(S) \in S /\ \A k \in S : k <= Top(S)
         /\ \A m \in S : (\A k \in S : k <= m) => Top(S) = m
<1>1. \E m \in S : \A k \in S : k <= m
  BY WindowConstants, GreatestExists DEF Heights
<1>2. Top(S) \in S /\ \A k \in S : k <= Top(S)
  BY <1>1 DEF Top
<1>3. ASSUME NEW m \in S, \A k \in S : k <= m PROVE Top(S) = m
  <2>1. Top(S) \in Int /\ m \in Int
    BY <1>2, TailIsInt
  <2>2. Top(S) <= m /\ m <= Top(S)
    BY <1>2, <1>3
  <2> QED BY <2>1, <2>2
<1> QED BY <1>2, <1>3

(***************************************************************************)
(* The heights of shaped blocks.                                           *)
(***************************************************************************)
LEMMA ShapeFacts ==
  ASSUME NEW B, Shaped(B)
  PROVE  /\ First(B) \in Heights /\ Last(B) \in Heights /\ First(B) <= Last(B)
         /\ \A b \in B : b[1] \in Heights /\ First(B) <= b[1] /\ b[1] <= Last(B)
         /\ \A h \in Heights : First(B) <= h /\ h <= Last(B) => \E b \in B : b[1] = h
<1>1. HeightsOf(B) \subseteq Heights /\ HeightsOf(B) # {}
  BY HeightsOfType DEF Shaped
<1>2. First(B) \in HeightsOf(B) /\ \A k \in HeightsOf(B) : First(B) <= k
  BY <1>1, BottomIn DEF First
<1>3. Last(B) \in HeightsOf(B) /\ \A k \in HeightsOf(B) : k <= Last(B)
  BY <1>1, TopIs DEF Last
<1>4. \A b \in B : b[1] \in HeightsOf(B)
  BY DEF HeightsOf
<1>5. \A h \in HeightsOf(B) : \E b \in B : b[1] = h
  BY DEF HeightsOf
<1>6. \A h \in Heights : First(B) <= h /\ h <= Last(B) => h \in HeightsOf(B)
  BY <1>1, <1>2, <1>3, TailIsInt DEF Shaped
<1> QED BY <1>1, <1>2, <1>3, <1>4, <1>5, <1>6

(***************************************************************************)
(* Blocks whose heights are an interval are shaped, from its first height  *)
(* to its last.                                                            *)
(***************************************************************************)
LEMMA IntervalIsShaped ==
  ASSUME NEW B, B \subseteq Block, OnePerHeight(B),
         NEW l \in Heights, NEW u \in Heights, l <= u, HeightsOf(B) = l .. u
  PROVE  Shaped(B) /\ First(B) = l /\ Last(B) = u
<1>1. HeightsOf(B) \subseteq Heights /\ l \in HeightsOf(B) /\ u \in HeightsOf(B)
  BY WindowConstants DEF Heights
<1>2. \A k \in HeightsOf(B) : l <= k /\ k <= u
  BY TailIsInt
<1>3. First(B) = l
  BY <1>1, <1>2, BottomIs DEF First
<1>4. Last(B) = u
  BY <1>1, <1>2, TopIs DEF Last
<1>5. B # {}
  BY <1>1 DEF HeightsOf
<1> QED BY <1>3, <1>4, <1>5 DEF Shaped

(***************************************************************************)
(* The rest of a window from one of its heights on is shaped.              *)
(***************************************************************************)
LEMMA RestIsShaped ==
  ASSUME NEW B, Shaped(B), NEW h \in Heights, First(B) <= h, h <= Last(B)
  PROVE  Shaped(From(B, h)) /\ First(From(B, h)) = h /\ Last(From(B, h)) = Last(B)
<1>1. /\ First(B) \in Heights /\ Last(B) \in Heights
      /\ \A b \in B : b[1] \in Heights /\ First(B) <= b[1] /\ b[1] <= Last(B)
      /\ \A k \in Heights : First(B) <= k /\ k <= Last(B) => \E b \in B : b[1] = k
  BY ShapeFacts
<1>2. HeightsOf(From(B, h)) = h .. Last(B)
  <2>1. \A b \in From(B, h) : b[1] \in h .. Last(B)
    <3>1. ASSUME NEW b \in From(B, h) PROVE b[1] \in h .. Last(B)
      <4>1. b \in B /\ b[1] >= h
        BY DEF From
      <4>2. b[1] \in Int /\ h \in Int /\ Last(B) \in Int /\ b[1] <= Last(B)
        BY <1>1, <4>1, TailIsInt
      <4> QED BY <4>1, <4>2
    <3> QED BY <3>1
  <2>2. ASSUME NEW k \in h .. Last(B) PROVE \E b \in From(B, h) : b[1] = k
    <3>1. k \in Heights /\ First(B) <= k /\ k <= Last(B) /\ k >= h
      BY <1>1, WindowConstants DEF Heights
    <3> QED BY <1>1, <3>1 DEF From
  <2> QED BY <2>1, <2>2 DEF HeightsOf
<1>3. From(B, h) \subseteq Block /\ OnePerHeight(From(B, h))
  BY DEF From, Shaped, OnePerHeight
<1> QED BY <1>1, <1>2, <1>3, IntervalIsShaped

(***************************************************************************)
(* What is processed below a height is processed below a lower one.        *)
(***************************************************************************)
LEMMA BelowLower ==
  ASSUME NEW p, NEW m \in Int, NEW n \in Int, m <= n, ProcessedBelow(p, n)
  PROVE  ProcessedBelow(p, m)
BY TailIsInt DEF ProcessedBelow

(***************************************************************************)
(* A loaded window starts at the floor of the tail it was planned for and  *)
(* ends at or above it (fillBackfillWindow, processOnlineWindow).          *)
(***************************************************************************)
LEMMA LoadedIsShaped ==
  ASSUME TypeOK, LoadWindow, Online => seenTail <= latest
  PROVE  /\ Shaped(window') /\ First(window') = Floor(seenTail) /\ seenTail <= Last(window')
         /\ Online => Last(window') <= latest
<1>1. PICK end \in WindowEnd :
        /\ window' \subseteq Stored(WindowStart .. end) \cup OfNode(WindowStart .. end)
        /\ \A h \in WindowStart .. end : \E b \in window' : b[1] = h
  BY LoadedIsOfWindow
<1>2. /\ seenTail \in Int /\ seenTail >= -1 /\ latest \in Int /\ latest >= 0
      /\ latest <= MaxHeight /\ seenTail <= MaxHeight
  BY WindowConstants DEF TypeOK, Tail, Heights, None
<1>3. WindowStart = Floor(seenTail)
  BY <1>2, WindowConstants DEF WindowStart, OnlineStart, Floor, Upper, Lower
<1>4. /\ WindowStart \in Nat /\ end \in Nat /\ WindowStart <= end /\ end <= MaxHeight
      /\ seenTail <= end /\ (Online => end <= latest)
  BY <1>2, WindowConstants DEF WindowStart, OnlineStart, WindowEnd, Upper, Lower
<1>5. WindowStart \in Heights /\ end \in Heights /\ WindowStart .. end \subseteq Heights
  BY <1>4, WindowConstants DEF Heights
<1>6. window' \subseteq Block
  BY <1>1, <1>5 DEF Stored, OfNode, Block, TypeOK
<1>7. OnePerHeight(window')
  <2>1. CASE Online
    <3>1. PICK e \in WindowEnd, cut \in 0 .. MaxHeight + 1, lowerIsOld \in BOOLEAN :
            LET heights == WindowStart .. e
                old == {h \in heights : (h < cut) = lowerIsOld}
            IN  window' = Stored(old) \cup OfNode(heights \ old)
      BY <2>1 DEF LoadWindow, LoadOnline
    <3> DEFINE heights == WindowStart .. e
               old == {h \in heights : (h < cut) = lowerIsOld}
    <3>2. window' = Stored(old) \cup OfNode(heights \ old)
      BY <3>1
    <3> HIDE DEF heights, old
    <3> QED BY <3>2 DEF Stored, OfNode, OnePerHeight
  <2>2. CASE ~Online
    <3>1. PICK e \in WindowEnd : window' \in {Stored(WindowStart .. e), OfNode(WindowStart .. e)}
      BY <2>2 DEF LoadWindow, LoadBackfill
    <3> QED BY <3>1 DEF Stored, OfNode, OnePerHeight
  <2> QED BY <2>1, <2>2
<1>8. HeightsOf(window') = WindowStart .. end
  BY <1>1 DEF HeightsOf, Stored, OfNode
<1>9. Shaped(window') /\ First(window') = WindowStart /\ Last(window') = end
  BY <1>4, <1>5, <1>6, <1>7, <1>8, IntervalIsShaped
<1> QED BY <1>3, <1>4, <1>9

(***************************************************************************)
(* The newest processed block is where the processed blocks end            *)
(* (getCoreProcessedTail).                                                 *)
(***************************************************************************)
LEMMA WarehouseTailIs ==
  ASSUME TypeOK, NoHole
  PROVE  /\ WarehouseTail \in Tail
         /\ ProcessedBelow(processed, WarehouseTail + 1)
         /\ NothingFrom(processed, WarehouseTail + 1)
         /\ \A n \in Tail : ProcessedBelow(processed, n + 1) => n <= WarehouseTail
<1> DEFINE S == {h \in Heights : processed[h] # None}
<1>1. S \subseteq Heights /\ WarehouseTail = Top(S)
  BY DEF WarehouseTail
<1>2. CASE S = {}
  <2>1. WarehouseTail = -1
    BY <1>1, <1>2 DEF Top, None
  <2>2. \A h \in Heights : processed[h] = None
    BY <1>2
  <2>3. ASSUME NEW n \in Tail, ProcessedBelow(processed, n + 1) PROVE n <= -1
    BY <2>2, <2>3, WindowConstants DEF ProcessedBelow, Tail, Heights, None
  <2> QED BY <2>1, <2>2, <2>3, TailIsInt DEF ProcessedBelow, NothingFrom, None
<1>3. CASE S # {}
  <2>1. WarehouseTail \in S /\ \A k \in S : k <= WarehouseTail
    BY <1>1, <1>3, TopIs
  <2>2. WarehouseTail \in Heights /\ processed[WarehouseTail] # None
        /\ WarehouseTail \in Int /\ WarehouseTail >= 0 /\ WarehouseTail \in Tail
    BY <2>1, TailIsInt
  <2> DEFINE w == WarehouseTail
  <2> HIDE DEF w
  <2>3. w \in Heights /\ w \in Int /\ w >= 0
    BY <2>2 DEF w
  <2>4. \A k \in 0 .. w : processed[k] # None
    BY <2>2 DEF NoHole, w
  <2>5. \A k \in Heights : processed[k] # None => k <= w
    BY <2>1 DEF w
  <2>6. ProcessedBelow(processed, w + 1)
    BY <2>3, <2>4, TailIsInt DEF ProcessedBelow
  <2>7. NothingFrom(processed, w + 1)
    BY <2>3, <2>5, TailIsInt DEF NothingFrom
  <2>8. ASSUME NEW n \in Tail, ProcessedBelow(processed, n + 1) PROVE n <= w
    <3>1. CASE n = None
      BY <3>1, <2>3 DEF None
    <3>2. CASE n \in Heights
      BY <2>3, <2>5, <2>8, <3>2, TailIsInt DEF ProcessedBelow
    <3> QED BY <3>1, <3>2 DEF Tail
  <2> QED BY <2>2, <2>6, <2>7, <2>8 DEF w
<1> QED BY <1>2, <1>3

(***************************************************************************)
(* A window's marker starts at its first block.                            *)
(***************************************************************************)
LEMMA MarkerIs ==
  ASSUME TypeOK, window # {}
  PROVE  OwnMarker # NoMarker /\ OwnMarker.start = First(window)
BY MarkCoversWindow DEF OwnMarker, First

(***************************************************************************)
(* Every step keeps what holds of the tails.                               *)
(***************************************************************************)
LEMMA TailStep ==
  ASSUME FaultsAreApart, BlocksHold, (TypeOK /\ MarkInv)', [Next]_vars
  PROVE  TailInv'
<1> USE DEF BlocksHold, TailInv, CrashHolds, HasWindow, Applying, InRewind, Reconciling, Goto,
            node, metadata, warehouse, rewind, local
<1>t. /\ tail \in Tail /\ seenTail \in Tail /\ durable[2] \in Tail
      /\ latest \in Heights /\ tip \in Heights /\ from \in Nat
      /\ tail \in Int /\ seenTail \in Int /\ durable[2] \in Int /\ latest \in Int /\ tip \in Int
  BY TailIsInt, WindowConstants DEF TypeOK
<1> HIDE DEF BlocksHold
<1>h. TailInv /\ BlockInv /\ MarkInv /\ TypeOK
  BY DEF BlocksHold
<1>m. \A B : Shaped(B) => First(B) \in Int /\ Last(B) \in Int /\ First(B) <= Last(B)
  BY ShapeFacts, TailIsInt
<1>1. CASE StartProcess
  BY <1>h, <1>t, <1>1 DEF StartProcess
<1>2. CASE ReadTip
  BY <1>h, <1>t, <1>2 DEF ReadTip
<1>3. CASE ReadMarker
  BY <1>h, <1>t, <1>3 DEF ReadMarker, Rewind
<1>4. CASE ClearRecovered
  BY <1>h, <1>t, <1>4 DEF ClearRecovered
<1>5. CASE ReadTail
  <2>1. pc = "tail" /\ marker = NoMarker /\ seenTail' = tail /\ reconciled'
        /\ UNCHANGED <<node, metadata, warehouse, latest, window>>
    BY <1>h, <1>5 DEF ReadTail
  <2>2. CASE reconciled \/ WarehouseTail >= tail
    BY <1>h, <1>t, <1>5, <2>1, <2>2 DEF ReadTail
  <2>3. CASE ~(reconciled \/ WarehouseTail >= tail)
    <3>1. from' = WarehouseTail + 1 /\ after' = "retail" /\ pc' = "drain"
      BY <1>5, <2>3 DEF ReadTail, Rewind
    <3>2. /\ WarehouseTail \in Tail
          /\ ProcessedBelow(processed, WarehouseTail + 1) /\ NothingFrom(processed, WarehouseTail + 1)
          /\ \A n \in Tail : ProcessedBelow(processed, n + 1) => n <= WarehouseTail
      BY <1>h, WarehouseTailIs DEF BlockInv
    <3>3. WarehouseTail \in Int /\ WarehouseTail < tail
      BY <1>t, <2>3, <3>2, TailIsInt
    <3>4. ~ProcessedBelow(processed, tail + 1)
      BY <1>t, <3>2, <3>3
    <3>5. "metadata" \notin Faults
      <4>1. ~Online => Floor(tail) = tail + 1
        BY <1>t, FloorFacts
      <4> QED BY <1>h, <2>1, <2>3, <3>4, <4>1
    <3>6. Floor(tail) <= WarehouseTail + 1
      <4>1. Floor(tail) \in Int /\ Floor(tail) - 1 \in Tail /\ (Floor(tail) - 1) + 1 = Floor(tail)
        BY <1>t, FloorFacts, WindowConstants DEF Tail, Heights, None
      <4>2. Floor(tail) - 1 <= WarehouseTail
        BY <1>h, <3>2, <4>1
      <4> QED BY <3>3, <4>1, <4>2
    <3> QED BY <1>h, <1>t, <2>1, <3>1, <3>2, <3>3, <3>5, <3>6
  <2> QED BY <2>2, <2>3
<1>6. CASE LowerTail
  <2>1. /\ Reconciling /\ pc' = "plan" /\ tail' = from - 1 /\ seenTail' = from - 1
        /\ UNCHANGED <<node, marker, durable, warehouse, latest, window, from, reconciled>>
    BY <1>6 DEF LowerTail
  <2>2. /\ marker = NoMarker /\ from <= tail /\ ProcessedBelow(processed, from)
        /\ "metadata" \notin Faults
    BY <1>h, <2>1
  <2>3. from - 1 \in Tail
    BY <1>t, <2>2, WindowConstants DEF Tail, Heights, None
  <2>4. Floor(from - 1) \in Int /\ Floor(from - 1) <= from
    BY <1>t, <2>3, FloorFacts
  <2>5. ProcessedBelow(processed, Floor(from - 1))
    BY <1>t, <2>2, <2>4, BelowLower
  <2>6. Online => from - 1 <= latest
    BY <1>h, <1>t, <2>2
  <2> QED BY <1>h, <1>6, <2>1, <2>2, <2>5, <2>6 DEF LowerTail
<1>7. CASE Drain
  BY <1>h, <1>t, <1>7 DEF Drain
<1>8. ASSUME NEW t \in todo, DeleteFrom(t) PROVE TailInv'
  <2>1. /\ pc = "delete" /\ pc' = pc
        /\ UNCHANGED <<node, metadata, running, latest, seenTail, window, from, after, reconciled>>
    BY <1>8 DEF DeleteFrom
  <2>2. CASE t = "processed"
    <3>1. processed' = [h \in Heights |-> IF h < from THEN processed[h] ELSE None]
      BY <1>8, <2>2, WindowConstants DEF DeleteFrom, Facts
    <3>2. ASSUME NEW n \in Int, n <= from, ProcessedBelow(processed, n)
          PROVE  ProcessedBelow(processed', n)
      BY <1>t, <3>1, <3>2, TailIsInt DEF ProcessedBelow
    <3>3. NothingFrom(processed', from)
      BY <1>t, <3>1, TailIsInt DEF NothingFrom
    <3>4. ProcessedBelow(processed', Floor(tail))
      BY <1>h, <1>t, <2>1, <3>2, FloorFacts
    <3>5. Reconciling => ProcessedBelow(processed', from)
      BY <1>h, <1>t, <3>2
    <3>6. after = "validate" => ProcessedBelow(processed', First(window))
      <4> SUFFICES ASSUME after = "validate" PROVE ProcessedBelow(processed', First(window))
        OBVIOUS
      <4>1. Shaped(pending) /\ First(pending) = from /\ pending \subseteq window /\ Shaped(window)
        BY <1>h, <2>1 DEF BlockInv, From
      <4>2. PICK b \in pending : b[1] = from
        <5>1. First(pending) \in Heights /\ First(pending) \in Int /\ First(pending) <= Last(pending)
          BY <4>1, ShapeFacts, TailIsInt
        <5> QED BY <4>1, <5>1, ShapeFacts
      <4>3. First(window) <= from
        BY <4>1, <4>2, ShapeFacts
      <4> QED BY <1>h, <1>m, <2>1, <3>2, <4>1, <4>3
    <3> QED BY <1>h, <1>t, <2>1, <3>3, <3>4, <3>5, <3>6
  <2>3. CASE t # "processed"
    <3>1. processed' = processed
      BY <1>8, <2>3 DEF DeleteFrom
    <3> QED BY <1>h, <1>t, <2>1, <3>1
  <2> QED BY <2>2, <2>3
<1>9. CASE Deleted
  BY <1>h, <1>t, <1>9 DEF Deleted
<1>10. CASE ClearCurrent
  BY <1>h, <1>t, <1>10 DEF ClearCurrent
<1>11. CASE RebuildCurrent
  BY <1>h, <1>t, <1>11 DEF RebuildCurrent
<1>12. CASE PlanBackfill
  BY <1>h, <1>t, <1>12 DEF PlanBackfill
<1>13. CASE PlanOnline
  BY <1>h, <1>t, <1>13 DEF PlanOnline
<1>14. CASE LoadWindow
  <2>1. /\ pc = "load" /\ pc' = "mark"
        /\ UNCHANGED <<node, metadata, processed, running, latest, seenTail, from, after, reconciled>>
    BY <1>14 DEF LoadWindow
  <2>2. /\ Shaped(window') /\ First(window') = Floor(seenTail) /\ seenTail <= Last(window')
        /\ Online => Last(window') <= latest
    BY <1>h, <1>14, LoadedIsShaped
  <2>3. Floor(tail) <= Floor(seenTail)
    BY <1>h, <1>t, <2>1, FloorFacts
  <2>4. tail <= Last(window')
    <3>1. Last(window') \in Int
      BY <1>m, <2>2
    <3> QED BY <1>h, <1>t, <2>1, <2>2, <3>1
  <2> QED BY <1>h, <2>1, <2>2, <2>3, <2>4
<1>15. CASE SetMarker
  <2>1. /\ pc = "mark" /\ pc' = "check" /\ marker' = OwnMarker
        /\ durable' = <<OwnMarker, tail, onlineTip>>
        /\ UNCHANGED <<node, tail, warehouse, latest, seenTail, window, from, after, reconciled>>
    BY <1>15 DEF SetMarker
  <2>2. OwnMarker # NoMarker /\ OwnMarker.start = First(window)
    <3>1. window # {}
      BY <1>h, <2>1 DEF MarkInv
    <3> QED BY <1>h, <3>1, MarkerIs
  <2>3. durable'[1] = OwnMarker /\ durable'[2] = tail
    BY <2>1
  <2> QED BY <1>h, <1>t, <2>1, <2>2, <2>3
<1>16. CASE CheckProcessed
  <2>1. /\ pc = "check" /\ pc' \in {"drain", "unmark", "validate"}
        /\ UNCHANGED <<node, metadata, warehouse, latest, seenTail, window, reconciled>>
    BY <1>16 DEF CheckProcessed, Rewind
  <2>2. CASE pc' = "drain"
    <3>1. Replaced # {} /\ from' = Bottom(Replaced) /\ after' = "validate"
      BY <1>16, <2>2 DEF CheckProcessed, Rewind
    <3>2. Replaced \subseteq HeightsOf(window) /\ Replaced \subseteq Heights
      BY <1>h DEF Replaced, HeightsOf, TypeOK, Block
    <3>3. Bottom(Replaced) \in HeightsOf(window)
      BY <3>1, <3>2, BottomIn
    <3>4. First(window) <= Bottom(Replaced)
      BY <1>h, <2>1, <3>3, ShapeFacts DEF HeightsOf
    <3>5. Bottom(Replaced) \in Int
      BY <3>1, <3>2, BottomIn, TailIsInt
    <3>6. Floor(tail) <= First(window)
      <4>1. marker = OwnMarker /\ window # {}
        BY <1>h, <2>1 DEF MarkInv
      <4>2. OwnMarker # NoMarker /\ OwnMarker.start = First(window)
        BY <1>h, <4>1, MarkerIs
      <4> QED BY <1>h, <4>1, <4>2
    <3>7. Floor(tail) <= Bottom(Replaced)
      BY <1>h, <1>m, <1>t, <2>1, <3>4, <3>5, <3>6, FloorFacts
    <3> QED BY <1>h, <2>1, <2>2, <3>1, <3>7
  <2>3. CASE pc' # "drain"
    <3>1. UNCHANGED <<from, after>>
      BY <1>16, <2>3 DEF CheckProcessed, Rewind
    <3> QED BY <1>h, <2>1, <2>3, <3>1
  <2> QED BY <2>2, <2>3
<1>17. CASE InsertFacts
  BY <1>h, <1>t, <1>17 DEF InsertFacts
<1>18. CASE InsertCurrent
  BY <1>h, <1>t, <1>18 DEF InsertCurrent
<1>19. CASE InsertProcessed
  BY <1>h, <1>t, <1>19 DEF InsertProcessed
<1>20. CASE Inserted
  BY <1>h, <1>t, <1>20 DEF Inserted
<1>21. CASE ClearMarker
  BY <1>h, <1>t, <1>21 DEF ClearMarker
<1>22. CASE Publish
  <2>1. /\ pc = "publish" /\ pc' = "idle" /\ tail' = Last(window)
        /\ UNCHANGED <<node, marker, durable, warehouse, latest, seenTail, window, from, after, reconciled>>
    BY <1>22 DEF Publish, Last
  <2>2. Last(window) \in Tail /\ Last(window) \in Int
    BY <1>h, <2>1, ShapeFacts, TailIsInt
  <2>3. ProcessedBelow(processed, Floor(Last(window)))
    <3>1. ProcessedBelow(processed, Last(window) + 1)
      BY <1>h, <2>1 DEF BlockInv
    <3>2. Floor(Last(window)) \in Int /\ Floor(Last(window)) <= Last(window) + 1
      BY <2>2, FloorFacts
    <3> QED BY <2>2, <3>1, <3>2, BelowLower
  <2>4. "metadata" \in Faults => durable[2] <= Last(window)
    BY <1>h, <1>t, <2>1, <2>2
  <2> QED BY <1>h, <1>t, <2>1, <2>3, <2>4
<1>23. ASSUME NEW t \in awaited, Answer(t) PROVE TailInv'
  BY <1>h, <1>t, <1>23 DEF Answer
<1>24. CASE AbortAfterInsert
  BY <1>h, <1>t, <1>24 DEF AbortAfterInsert, Abort
<1>25. CASE RejectWindow
  BY <1>h, <1>t, <1>25 DEF RejectWindow, Abort
<1>26. ASSUME NEW insert \in running, Land(insert) PROVE TailInv'
  <2>1. /\ running' = running \ {insert}
        /\ UNCHANGED <<node, metadata, pc, latest, seenTail, window, from, after, reconciled>>
    BY <1>26 DEF Land
  <2>2. \A h \in Heights : processed[h] # None => processed'[h] # None
    <3>1. \A h \in Heights : (\E b \in insert.blocks : b[1] = h)
             => (CHOOSE b \in insert.blocks : b[1] = h)[2] # None
      <4>1. insert.blocks \subseteq Block
        BY <1>h DEF TypeOK
      <4>2. \A b \in Block : b[2] # None
        BY WindowConstants DEF Block, Forks, None
      <4> QED BY <4>1, <4>2
    <3> QED BY <1>26, <3>1 DEF Land
  <2>3. \A n : ProcessedBelow(processed, n) => ProcessedBelow(processed', n)
    BY <2>2 DEF ProcessedBelow
  <2>4. ~Reconciling
    BY <1>h DEF MarkInv, MayInsert
  <2> QED BY <1>h, <1>t, <2>1, <2>3, <2>4
<1>27. CASE Grow
  BY <1>h, <1>t, <1>27 DEF Grow
<1>28. ASSUME NEW h \in Heights, Reorg(h) PROVE TailInv'
  BY <1>h, <1>t, <1>28 DEF Reorg
<1>29. CASE Shrink
  <2>1. ~Online
    BY <1>h, <1>29 DEF Shrink, FaultsAreApart, TypeOK
  <2> QED BY <1>h, <1>29, <2>1 DEF Shrink
<1>30. CASE Flush
  BY <1>h, <1>t, <1>30 DEF Flush
<1>31. ASSUME NEW t \in awaited, InsertFails(t) PROVE TailInv'
  BY <1>h, <1>t, <1>31 DEF InsertFails
<1>32. CASE CallFails
  BY <1>h, <1>t, <1>32 DEF CallFails, Abort
<1>33. CASE Die
  <2>1. "metadata" \in Faults => ~Online
    BY <1>33 DEF Die, CanFault, FaultsAreApart
  <2> QED BY <1>h, <1>33, <2>1 DEF Die, Forget
<1>34. CASE MetadataCrash
  <2>1. /\ "metadata" \in Faults /\ marker' = durable[1] /\ tail' = durable[2] /\ durable' = durable
        /\ pc' = IF pc \in MetadataCalls THEN "idle" ELSE pc
        /\ UNCHANGED <<node, warehouse, latest, seenTail, window, from, after, reconciled>>
    BY <1>34 DEF MetadataCrash, LoseUnflushed, CanFault
  <2>2. CrashHolds
    BY <1>h, <2>1
  <2>3. /\ Floor(durable[2]) \in Int /\ Floor(tail) \in Int /\ Floor(durable[2]) <= Floor(tail)
    BY <1>t, <2>2, FloorFacts
  <2>4. ProcessedBelow(processed, Floor(durable[2]))
    BY <1>h, <2>3, BelowLower
  <2>5. Online /\ ~reconciled => ProcessedBelow(processed, durable[2] + 1)
    BY <1>t, <2>2, BelowLower
  <2>6. InRewind => Floor(durable[2]) <= from
    BY <1>h, <1>t, <2>3
  <2>7. HasWindow => durable[2] <= Last(window)
    BY <1>h, <1>m, <1>t, <2>2
  <2>8. /\ pc = "load" => durable[2] <= seenTail
        /\ Online => durable[2] <= latest
    BY <1>h, <1>t, <2>2
  <2>9. CrashHolds'
    BY <1>h, <1>t, <2>1, <2>2, <2>5 DEF MetadataCalls
  <2>10. marker' # NoMarker => durable'[1] = marker' /\ Floor(tail') <= marker'.start
    BY <2>1, <2>2
  <2>11. marker # NoMarker => marker' = marker
    BY <1>h, <2>1
  <2>12. /\ InRewind' => InRewind /\ Floor(tail') <= from' /\ after' \in {"recovered", "retail", "validate"}
         /\ InRewind' /\ after' = "recovered" => marker' # NoMarker /\ from' = marker'.start
         /\ ~Reconciling'
    BY <1>h, <2>1, <2>2, <2>6, <2>11 DEF MetadataCalls
  <2>13. /\ pc' \notin {"tail", "plan", "publish", "mark"}
         /\ pc' = "load" => pc = "load"
         /\ HasWindow' => HasWindow
    BY <2>1 DEF MetadataCalls
  <2> QED BY <1>h, <2>1, <2>4, <2>7, <2>8, <2>9, <2>10, <2>12, <2>13
<1>35. CASE PowerLoss
  BY <1>h, <1>t, <1>35 DEF PowerLoss, CanFault, FaultsAreApart
<1>36. CASE UNCHANGED vars
  BY <1>h, <1>36 DEF vars
<1> QED
  BY <1>1, <1>2, <1>3, <1>4, <1>5, <1>6, <1>7, <1>8, <1>9, <1>10, <1>11, <1>12, <1>13,
     <1>14, <1>15, <1>16, <1>17, <1>18, <1>19, <1>20, <1>21, <1>22, <1>23, <1>24, <1>25,
     <1>26, <1>27, <1>28, <1>29, <1>30, <1>31, <1>32, <1>33, <1>34, <1>35, <1>36
     DEF Next, ProcessStep, ServerStep, NodeStep, FaultStep

(***************************************************************************)
(* Blocks on top of the processed ones land: they are processed then, and  *)
(* still nothing is skipped.                                               *)
(***************************************************************************)
LEMMA LandOnTop ==
  ASSUME TypeOK, NoHole, NEW insert \in running, insert.table = "processed", Land(insert),
         OnTop(processed, insert.blocks)
  PROVE  /\ Landed(processed', insert.blocks) /\ NoHole'
         /\ \A h \in Heights : processed'[h] =
              IF h \in HeightsOf(insert.blocks)
              THEN (CHOOSE b \in insert.blocks : b[1] = h)[2] ELSE processed[h]
<1> DEFINE B == insert.blocks
<1>1. B \subseteq Block /\ Shaped(B) /\ OnePerHeight(B)
  BY DEF TypeOK, OnTop, Shaped
<1>2. processed' = [h \in Heights |-> IF \E b \in B : b[1] = h
                       THEN (CHOOSE b \in B : b[1] = h)[2] ELSE processed[h]]
  BY WindowConstants DEF Land, Facts
<1>3. ProcessedBelow(processed, First(B)) /\ NothingFrom(processed, First(B))
  BY DEF OnTop
<1> HIDE DEF B
<1>4. /\ First(B) \in Heights /\ Last(B) \in Heights /\ First(B) <= Last(B)
      /\ First(B) \in Int /\ Last(B) \in Int
      /\ \A b \in B : b[1] \in Heights /\ First(B) <= b[1] /\ b[1] <= Last(B)
      /\ \A h \in Heights : First(B) <= h /\ h <= Last(B) => \E b \in B : b[1] = h
  BY <1>1, ShapeFacts, TailIsInt
<1>5. ASSUME NEW b \in B PROVE processed'[b[1]] = b[2] /\ b[2] # None
  <2>1. \A c \in B : c[1] = b[1] => c = b
    BY <1>1 DEF OnePerHeight
  <2>2. (CHOOSE c \in B : c[1] = b[1]) = b
    BY <2>1
  <2>3. b[1] \in Heights /\ b[2] # None
    BY <1>1, WindowConstants DEF Block, Forks, None
  <2>4. processed'[b[1]] = (CHOOSE c \in B : c[1] = b[1])[2]
    BY <1>2, <2>3
  <2> QED BY <2>2, <2>3, <2>4
<1>6. ASSUME NEW h \in Heights
      PROVE  /\ h <= Last(B) => processed'[h] # None
             /\ h > Last(B) => processed'[h] = None
  <2>0. h \in Int
    BY TailIsInt
  <2>1. CASE h < First(B)
    <3>1. ~\E b \in B : b[1] = h
      BY <1>4, <2>0, <2>1
    <3> QED BY <1>2, <1>3, <1>4, <2>0, <2>1, <3>1 DEF ProcessedBelow
  <2>2. CASE First(B) <= h /\ h <= Last(B)
    <3>1. PICK b \in B : b[1] = h
      BY <1>4, <2>2
    <3> QED BY <1>5, <2>0, <2>2, <3>1, <1>4
  <2>3. CASE h > Last(B)
    <3>1. ~\E b \in B : b[1] = h
      BY <1>4, <2>0, <2>3
    <3>2. processed[h] = None
      BY <1>3, <1>4, <2>0, <2>3 DEF NothingFrom
    <3> QED BY <1>2, <1>4, <2>0, <2>3, <3>1, <3>2
  <2> QED BY <1>4, <2>0, <2>1, <2>2, <2>3
<1>7. ProcessedBelow(processed', Last(B) + 1) /\ NothingFrom(processed', Last(B) + 1)
  BY <1>4, <1>6, TailIsInt DEF ProcessedBelow, NothingFrom
<1>8. NoHole'
  <2> SUFFICES ASSUME NEW h \in Heights, processed'[h] # None, NEW k \in 0 .. h
               PROVE  processed'[k] # None
    BY DEF NoHole
  <2>1. h \in Int /\ h <= Last(B)
    BY <1>4, <1>6, TailIsInt
  <2>2. k \in Heights /\ k \in Int /\ k <= h
    BY WindowConstants DEF Heights
  <2> QED BY <1>4, <1>6, <2>1, <2>2
<1>9. \A h : (\E b \in B : b[1] = h) <=> h \in HeightsOf(B)
  BY DEF HeightsOf
<1> QED BY <1>1, <1>2, <1>5, <1>7, <1>8, <1>9 DEF Landed, B

(***************************************************************************)
(* The pending blocks are the end of the window.                           *)
(***************************************************************************)
LEMMA PendingIsRest ==
  ASSUME Shaped(window), Shaped(pending), pending = From(window, First(pending))
  PROVE  First(window) <= First(pending) /\ Last(pending) = Last(window)
<1>1. First(pending) \in Heights /\ First(pending) \in Int /\ First(pending) <= Last(pending)
  BY ShapeFacts, TailIsInt
<1>2. PICK b \in pending : b[1] = First(pending)
  BY <1>1, ShapeFacts
<1>3. b \in window
  BY <1>2 DEF From
<1>4. First(window) <= First(pending) /\ First(pending) <= Last(window)
  BY <1>2, <1>3, ShapeFacts
<1>5. Last(From(window, First(pending))) = Last(window)
  BY <1>1, <1>4, RestIsShaped
<1> QED BY <1>4, <1>5

(***************************************************************************)
(* Every step keeps what holds of the blocks.                              *)
(***************************************************************************)
LEMMA BlockStep ==
  ASSUME FaultsAreApart, BlocksHold, (TypeOK /\ MarkInv)', [Next]_vars
  PROVE  BlockInv'
<1> USE DEF BlockInv, InRewind, Goto, node, metadata, warehouse, rewind, local
<1>h. TailInv /\ BlockInv /\ MarkInv /\ TypeOK
  BY DEF BlocksHold
<1>n. processed' = processed => (NoHole => NoHole')
  BY DEF NoHole
<1>a. InRewind => after \in {"recovered", "retail", "validate"}
  BY <1>h DEF TailInv
<1>1. CASE StartProcess
  BY <1>h, <1>n, <1>a, <1>1 DEF StartProcess
<1>2. CASE ReadTip
  BY <1>h, <1>n, <1>a, <1>2 DEF ReadTip
<1>3. CASE ReadMarker
  BY <1>h, <1>n, <1>a, <1>3 DEF ReadMarker, Rewind
<1>4. CASE ClearRecovered
  BY <1>h, <1>n, <1>a, <1>4 DEF ClearRecovered
<1>5. CASE ReadTail
  BY <1>h, <1>n, <1>a, <1>5 DEF ReadTail, Rewind
<1>6. CASE LowerTail
  BY <1>h, <1>n, <1>a, <1>6 DEF LowerTail
<1>7. CASE Drain
  BY <1>h, <1>n, <1>a, <1>7 DEF Drain
<1>8. ASSUME NEW t \in todo, DeleteFrom(t) PROVE BlockInv'
  <2>1. /\ pc = "delete" /\ pc' = pc /\ todo' = todo \ {t} /\ running = {}
        /\ UNCHANGED <<running, window, pending, from, after, failed>>
    BY <1>h, <1>8 DEF DeleteFrom, MarkInv, MayInsert
  <2>2. CASE t = "processed"
    <3>1. processed' = [h \in Heights |-> IF h < from THEN processed[h] ELSE None]
      BY <1>8, <2>2, WindowConstants DEF DeleteFrom, Facts
    <3>2. from \in Int
      BY <1>h, WindowConstants DEF TypeOK
    <3>3. NothingFrom(processed', from)
      BY <3>1, <3>2, TailIsInt DEF NothingFrom
    <3>4. ProcessedBelow(processed, from) => ProcessedBelow(processed', from)
      BY <3>1, <3>2, TailIsInt DEF ProcessedBelow
    <3>5. NoHole'
      <4> SUFFICES ASSUME NEW h \in Heights, processed'[h] # None, NEW k \in 0 .. h
                   PROVE  processed'[k] # None
        BY DEF NoHole
      <4>1. h < from /\ processed[h] # None
        BY <3>1
      <4>2. processed[k] # None
        BY <1>h, <4>1 DEF NoHole
      <4>3. k \in Heights /\ k \in Int /\ h \in Int /\ k <= h
        BY WindowConstants DEF Heights
      <4> QED BY <3>1, <3>2, <4>1, <4>2, <4>3
    <3> QED BY <1>h, <2>1, <3>3, <3>4, <3>5
  <2>3. CASE t # "processed"
    <3>1. processed' = processed
      BY <1>8, <2>3 DEF DeleteFrom
    <3> QED BY <1>h, <1>n, <2>1, <2>3, <3>1
  <2> QED BY <2>2, <2>3
<1>9. CASE Deleted
  <2>1. after = "validate" => OnTop(processed, pending) /\ pending = From(window, First(pending))
    BY <1>h, <1>9 DEF Deleted, OnTop
  <2>2. running = {} /\ NothingFrom(processed, from)
    BY <1>h, <1>9 DEF Deleted, MarkInv, MayInsert
  <2>3. UNCHANGED <<processed, running, window, pending, from, after, todo, failed>>
    BY <1>9 DEF Deleted
  <2> QED BY <1>h, <1>n, <1>a, <1>9, <2>1, <2>2, <2>3 DEF Deleted
<1>10. CASE ClearCurrent
  BY <1>h, <1>n, <1>a, <1>10 DEF ClearCurrent
<1>11. CASE RebuildCurrent
  <2>1. after = "validate" => OnTop(processed, pending) /\ pending = From(window, First(pending))
    BY <1>h, <1>11 DEF RebuildCurrent, OnTop
  <2>2. running = {} /\ NothingFrom(processed, from)
    BY <1>h, <1>11 DEF RebuildCurrent, MarkInv, MayInsert
  <2>3. UNCHANGED <<processed, running, window, pending, from, after, todo, failed>>
    BY <1>11 DEF RebuildCurrent
  <2> QED BY <1>h, <1>n, <1>a, <1>11, <2>1, <2>2, <2>3 DEF RebuildCurrent
<1>12. CASE PlanBackfill
  BY <1>h, <1>n, <1>a, <1>12 DEF PlanBackfill
<1>13. CASE PlanOnline
  BY <1>h, <1>n, <1>a, <1>13 DEF PlanOnline
<1>14. CASE LoadWindow
  BY <1>h, <1>n, <1>a, <1>14 DEF LoadWindow
<1>15. CASE SetMarker
  BY <1>h, <1>n, <1>a, <1>15 DEF SetMarker
<1>16. CASE CheckProcessed
  <2>1. /\ pc = "check" /\ running = {}
        /\ UNCHANGED <<processed, running, window, failed>>
    BY <1>h, <1>16 DEF CheckProcessed, MarkInv, MayInsert
  <2>2. Shaped(window) /\ ProcessedBelow(processed, First(window)) /\ NoHole
    BY <1>h, <2>1 DEF TailInv, HasWindow, Applying
  <2>3. /\ First(window) \in Heights /\ Last(window) \in Heights /\ First(window) <= Last(window)
        /\ First(window) \in Int /\ Last(window) \in Int
        /\ \A b \in window : b[1] \in Heights /\ b[1] \in Int /\ First(window) <= b[1] /\ b[1] <= Last(window)
        /\ \A h \in Heights : First(window) <= h /\ h <= Last(window) => \E b \in window : b[1] = h
    BY <2>2, ShapeFacts, TailIsInt
  <2>4. CASE Replaced # {}
    <3>1. /\ pc' = "drain" /\ from' = Bottom(Replaced) /\ after' = "validate"
          /\ pending' = From(window, Bottom(Replaced)) /\ todo' = Facts \cup {"processed", "refs"}
      BY <1>16, <2>4 DEF CheckProcessed, Rewind, From
    <3> DEFINE r == Bottom(Replaced)
    <3>2. Replaced \subseteq Heights
      BY <2>3 DEF Replaced
    <3>3. r \in Replaced /\ r \in Heights
      BY <2>4, <3>2, BottomIn
    <3>4. PICK b \in window : b[1] = r /\ processed[r] # None
      BY <3>3 DEF Replaced
    <3> HIDE DEF r
    <3>5. First(window) <= r /\ r <= Last(window)
      BY <2>3, <3>4
    <3>6. Shaped(From(window, r)) /\ First(From(window, r)) = r
      BY <2>2, <3>3, <3>5, RestIsShaped
    <3>7. ProcessedBelow(processed, r)
      BY <2>2, <3>3, <3>4, TailIsInt DEF NoHole, ProcessedBelow, Heights
    <3> QED BY <1>h, <1>n, <2>1, <3>1, <3>6, <3>7 DEF r
  <2>5. CASE Replaced = {}
    <3>1. /\ pending' = {b \in window : processed[b[1]] = None}
          /\ pc' = IF pending' = {} THEN "unmark" ELSE "validate"
      BY <1>16, <2>5 DEF CheckProcessed
    <3>2. CASE pending' = {}
      <4>1. ASSUME NEW k \in Heights, k < Last(window) + 1 PROVE processed[k] # None
        <5>1. k \in Int
          BY TailIsInt
        <5>2. CASE k < First(window)
          BY <2>2, <5>2 DEF ProcessedBelow
        <5>3. CASE k >= First(window)
          <6>1. PICK b \in window : b[1] = k
            BY <2>3, <4>1, <5>1, <5>3
          <6> QED BY <3>1, <3>2, <6>1
        <5> QED BY <2>3, <5>1, <5>2, <5>3
      <4>2. ProcessedBelow(processed, Last(window) + 1)
        BY <4>1 DEF ProcessedBelow
      <4> QED BY <1>h, <1>n, <2>1, <3>1, <3>2, <4>2
    <3>3. CASE pending' # {}
      <4> DEFINE w == WarehouseTail + 1
      <4>1. /\ w \in Int /\ ProcessedBelow(processed, w) /\ NothingFrom(processed, w)
        BY <1>h, <2>2, WarehouseTailIs, TailIsInt
      <4> HIDE DEF w
      <4>2. \A b \in window : processed[b[1]] = None <=> b[1] >= w
        BY <2>3, <4>1 DEF ProcessedBelow, NothingFrom
      <4>3. pending' = From(window, w)
        BY <3>1, <4>2 DEF From
      <4>4. PICK b \in window : processed[b[1]] = None
        BY <3>1, <3>3
      <4>5. w <= Last(window)
        BY <2>3, <4>1, <4>2, <4>4
      <4>6. First(window) <= w
        <5>1. ~(w < First(window))
          <6> SUFFICES ASSUME w < First(window) PROVE FALSE
            OBVIOUS
          <6>1. PICK c \in window : c[1] = First(window)
            BY <2>3
          <6>2. First(window) - 1 >= w
            BY <2>3, <4>1
          <6>3. w >= 0
            <7>1. WarehouseTail \in Tail
              BY <1>h, <2>2, WarehouseTailIs
            <7> QED BY <7>1, TailIsInt DEF w
          <6>4. w \in Heights
            BY <2>3, <4>1, <6>2, <6>3, WindowConstants DEF Heights
          <6>5. processed[w] # None
            BY <2>2, <6>4 DEF ProcessedBelow
          <6> QED BY <4>1, <6>4, <6>5 DEF NothingFrom
        <5> QED BY <2>3, <4>1, <5>1
      <4>7. w \in Heights
        BY <2>3, <4>1, <4>5, <4>6, WindowConstants DEF Heights
      <4>8. Shaped(pending') /\ First(pending') = w
        BY <2>2, <4>3, <4>5, <4>6, <4>7, RestIsShaped
      <4>9. OnTop(processed, pending') /\ pending' = From(window, First(pending'))
        BY <4>1, <4>3, <4>8 DEF OnTop
      <4> QED BY <1>h, <1>n, <2>1, <3>1, <3>3, <4>9
    <3> QED BY <3>2, <3>3
  <2> QED BY <2>4, <2>5
<1>17. CASE InsertFacts
  <2>1. running = {} /\ pc \in {"validate", "facts"} /\ pc' \in {"facts", "current"}
        /\ UNCHANGED <<processed, window, pending>>
    BY <1>h, <1>17 DEF InsertFacts, Settled, MarkInv, MayInsert
  <2>2. running' = {[table |-> t, blocks |-> pending] : t \in Facts}
    BY <1>17, <2>1 DEF InsertFacts, Insert
  <2>3. \A insert \in running' : insert.table # "processed"
    BY <2>2, WindowConstants DEF Facts
  <2>4. \A i, j \in running' : i.table = j.table => i = j
    BY <2>2
  <2> QED BY <1>h, <1>n, <2>1, <2>3, <2>4
<1>18. CASE InsertCurrent
  <2>1. running = {} /\ pc \in {"validate", "facts"} /\ pc' \in {"facts", "current"}
        /\ UNCHANGED <<processed, window, pending>>
    BY <1>h, <1>18 DEF InsertCurrent, Settled, MarkInv, MayInsert
  <2>2. running' = {[table |-> t, blocks |-> pending] : t \in {"current"}}
    BY <1>18, <2>1 DEF InsertCurrent, Insert
  <2>3. \A insert \in running' : insert.table # "processed"
    BY <2>2, WindowConstants DEF Facts
  <2>4. \A i, j \in running' : i.table = j.table => i = j
    BY <2>2
  <2> QED BY <1>h, <1>n, <2>1, <2>3, <2>4
<1>19. CASE InsertProcessed
  <2>1. running = {} /\ pc \in {"facts", "current"} /\ pc' = "processed"
        /\ UNCHANGED <<processed, window, pending>>
    BY <1>h, <1>19 DEF InsertProcessed, Settled, MarkInv, MayInsert
  <2>2. running' = {[table |-> "processed", blocks |-> pending]}
    BY <1>19, <2>1 DEF InsertProcessed, Insert
  <2>3. \A insert \in running' : insert.table = "processed" /\ insert.blocks = pending
    BY <2>2
  <2>4. \E insert \in running' : insert.table = "processed"
    BY <2>2
  <2>5. \A i, j \in running' : i.table = j.table => i = j
    BY <2>2
  <2> QED BY <1>h, <1>n, <2>1, <2>3, <2>4, <2>5
<1>20. CASE Inserted
  <2>1. /\ pc = "processed" /\ pc' = "unmark" /\ running = {} /\ ~failed
        /\ UNCHANGED <<processed, running, window, pending>>
    BY <1>h, <1>20 DEF Inserted, Settled, MarkInv, MayInsert
  <2>2. Landed(processed, pending) /\ pending = From(window, First(pending))
    BY <1>h, <2>1
  <2>3. Shaped(window)
    BY <1>h, <2>1 DEF TailInv, HasWindow, Applying
  <2>4. Last(pending) = Last(window)
    BY <2>2, <2>3, PendingIsRest DEF Landed
  <2>5. ProcessedBelow(processed, Last(window) + 1)
    BY <2>2, <2>4 DEF Landed
  <2> QED BY <1>h, <1>n, <2>1, <2>5
<1>21. CASE ClearMarker
  BY <1>h, <1>n, <1>a, <1>21 DEF ClearMarker
<1>22. CASE Publish
  BY <1>h, <1>n, <1>a, <1>22 DEF Publish
<1>23. ASSUME NEW t \in awaited, Answer(t) PROVE BlockInv'
  BY <1>h, <1>n, <1>a, <1>23 DEF Answer
<1>24. CASE AbortAfterInsert
  BY <1>h, <1>n, <1>a, <1>24 DEF AbortAfterInsert, Abort
<1>25. CASE RejectWindow
  BY <1>h, <1>n, <1>a, <1>25 DEF RejectWindow, Abort
<1>26. ASSUME NEW insert \in running, Land(insert) PROVE BlockInv'
  <2>1. /\ running' = running \ {insert} /\ running # {}
        /\ UNCHANGED <<pc, window, pending, from, todo, after, failed>>
    BY <1>26 DEF Land
  <2>2. /\ pc \notin {"delete", "forget", "rebuild", "recovered", "validate", "unmark", "publish"}
        /\ ~(InRewind /\ after = "validate")
    BY <1>h, <2>1 DEF MarkInv, MayInsert
  <2>3. CASE insert.table = "processed"
    <3>1. OnTop(processed, insert.blocks)
      BY <1>h, <2>3
    <3>2. Landed(processed', insert.blocks) /\ NoHole'
      BY <1>h, <1>26, <2>3, <3>1, LandOnTop
    <3>3. \A other \in running' : other.table # "processed"
      BY <1>h, <2>1, <2>3
    <3> QED BY <1>h, <2>1, <2>2, <2>3, <3>2, <3>3
  <2>4. CASE insert.table # "processed"
    <3>1. processed' = processed
      BY <1>26, <2>4 DEF Land
    <3> QED BY <1>h, <1>n, <2>1, <2>2, <2>4, <3>1
  <2> QED BY <2>3, <2>4
<1>27. CASE Grow
  BY <1>h, <1>n, <1>a, <1>27 DEF Grow
<1>28. ASSUME NEW h \in Heights, Reorg(h) PROVE BlockInv'
  BY <1>h, <1>n, <1>a, <1>28 DEF Reorg
<1>29. CASE Shrink
  BY <1>h, <1>n, <1>a, <1>29 DEF Shrink
<1>30. CASE Flush
  BY <1>h, <1>n, <1>a, <1>30 DEF Flush
<1>31. ASSUME NEW t \in awaited, InsertFails(t) PROVE BlockInv'
  BY <1>h, <1>n, <1>a, <1>31 DEF InsertFails
<1>32. CASE CallFails
  BY <1>h, <1>n, <1>a, <1>32 DEF CallFails, Abort
<1>33. CASE Die
  BY <1>h, <1>n, <1>a, <1>33 DEF Die, Forget
<1>34. CASE MetadataCrash
  BY <1>h, <1>n, <1>a, <1>34 DEF MetadataCrash, LoseUnflushed, MetadataCalls
<1>35. CASE PowerLoss
  BY <1>h, <1>n, <1>a, <1>35 DEF PowerLoss, CanFault, FaultsAreApart
<1>36. CASE UNCHANGED vars
  BY <1>h, <1>n, <1>36 DEF vars
<1> QED
  BY <1>1, <1>2, <1>3, <1>4, <1>5, <1>6, <1>7, <1>8, <1>9, <1>10, <1>11, <1>12, <1>13,
     <1>14, <1>15, <1>16, <1>17, <1>18, <1>19, <1>20, <1>21, <1>22, <1>23, <1>24, <1>25,
     <1>26, <1>27, <1>28, <1>29, <1>30, <1>31, <1>32, <1>33, <1>34, <1>35, <1>36
     DEF Next, ProcessStep, ServerStep, NodeStep, FaultStep

-----------------------------------------------------------------------------
(***************************************************************************)
(* The forks in use are those of the node's chain so far, and the parents  *)
(* of their blocks do not change any more.                                 *)
(***************************************************************************)
Newest == chain[MaxHeight]
Known(newest, blocks) == \A b \in blocks : b[2] <= newest

ForkInv ==
  /\ \A h \in Heights : chain[h] <= Newest /\ synced[h] <= Newest /\ processed[h] <= Newest
  /\ Known(Newest, window) /\ Known(Newest, pending)
  /\ \A insert \in running : Known(Newest, insert.blocks)

(***************************************************************************)
(* Blocks that were validated (assertCoreWindowShape,                      *)
(* assertCoreWindowPreviousBlock) are a chain that follows the processed   *)
(* blocks p, for the branches br, until they have landed.                  *)
(***************************************************************************)
ParentIn(br, h, f) == IF h = br[f].at THEN br[f].parent ELSE f
Linked(br, blocks) ==
  \A b, c \in blocks : c[1] = b[1] + 1 => b[2] = ParentIn(br, c[1], c[2])
Follows(p, br, blocks) ==
  \A b \in blocks : b[1] = First(blocks) /\ b[1] > 0 =>
     p[b[1] - 1] \in {None, ParentIn(br, b[1], b[2])}
OneChain(p, br) ==
  \A h \in Heights \ {0} : p[h] # None /\ p[h - 1] # None => p[h - 1] = ParentIn(br, h, p[h])

ChainInv ==
  /\ OneChain(processed, branch)
  /\ pc \in {"facts", "current"} => Linked(branch, pending) /\ Follows(processed, branch, pending)
  /\ pc = "processed" =>
       \/ Landed(processed, pending)
       \/ Linked(branch, pending) /\ Follows(processed, branch, pending)
  /\ \A insert \in running : insert.table = "processed" =>
       Linked(branch, insert.blocks) /\ Follows(processed, branch, insert.blocks)

(***************************************************************************)
(* The newest fork is at the top of the node's chain, and a reorganization *)
(* takes the one after it.                                                 *)
(***************************************************************************)
LEMMA NextFork ==
  ASSUME TypeOK, ForkInv
  PROVE  Top({chain[k] : k \in Heights}) = Newest /\ Newest \in Forks /\ Newest \in Int
<1> DEFINE S == {chain[k] : k \in Heights}
<1>1. MaxHeight \in Heights
  BY WindowConstants DEF Heights
<1>2. Newest \in S /\ Newest \in Forks /\ Newest \in Int
  BY <1>1, WindowConstants DEF TypeOK, Newest, Forks
<1>3. \A k \in S : k <= Newest /\ k \in Int
  BY WindowConstants DEF ForkInv, TypeOK, Forks
<1>4. S # {} /\ Top(S) \in S /\ \A k \in S : k <= Top(S)
  BY <1>2, <1>3 DEF Top
<1>5. Top(S) = Newest
  <2>1. Top(S) \in Int /\ Top(S) <= Newest /\ Newest <= Top(S)
    BY <1>2, <1>3, <1>4
  <2> QED BY <1>2, <2>1
<1> QED BY <1>2, <1>5

(***************************************************************************)
(* A reorganization leaves the parents of all known forks alone.           *)
(***************************************************************************)
LEMMA ReorgKeepsParents ==
  ASSUME TypeOK, ForkInv, NEW r \in Heights, Reorg(r)
  PROVE  /\ Newest' = Newest + 1
         /\ chain' = [k \in Heights |-> IF k < r THEN chain[k] ELSE Newest + 1]
         /\ \A h, f : f \in Int /\ f <= Newest => ParentIn(branch', h, f) = ParentIn(branch, h, f)
         /\ UNCHANGED <<processed, synced, window, pending, running, pc, failed>>
<1>1. Top({chain[k] : k \in Heights}) = Newest /\ Newest \in Int
  BY NextFork
<1>2. /\ chain' = [k \in Heights |-> IF k < r THEN chain[k] ELSE Newest + 1]
      /\ branch' = [branch EXCEPT ![Newest + 1] = [at |-> r, parent |-> chain[r - 1]]]
      /\ UNCHANGED <<processed, synced, window, pending, running, pc, failed>>
  BY <1>1 DEF Reorg, warehouse, local
<1>3. MaxHeight \in Heights /\ r <= MaxHeight /\ MaxHeight \in Int /\ r \in Int
  BY WindowConstants DEF Heights
<1>4. Newest' = Newest + 1
  <2>1. chain'[MaxHeight] = Newest + 1
    BY <1>2, <1>3
  <2> QED BY <2>1 DEF Newest
<1>5. ASSUME NEW h, NEW f, f \in Int, f <= Newest
      PROVE  ParentIn(branch', h, f) = ParentIn(branch, h, f)
  <2>1. f # Newest + 1
    BY <1>1, <1>5
  <2>2. branch'[f] = branch[f]
    BY <1>2, <2>1 DEF TypeOK
  <2> QED BY <2>2 DEF ParentIn
<1> QED BY <1>2, <1>4, <1>5

(***************************************************************************)
(* Every step keeps the forks in use known.                                *)
(***************************************************************************)
LEMMA ForkStep ==
  ASSUME TypeOK, TypeOK', ForkInv, [Next]_vars
  PROVE  ForkInv'
<1> USE DEF ForkInv, Known, Goto, node, metadata, warehouse, rewind, local
<1>t. /\ Newest \in Int /\ Newest >= 0
      /\ \A h \in Heights : chain[h] \in Int /\ synced[h] \in Int /\ processed[h] \in Int
  <2>1. Newest \in Forks /\ \A f \in Forks \cup {None} : f \in Int
    BY NextFork, WindowConstants DEF Forks, None
  <2>2. \A h \in Heights : /\ chain[h] \in Forks \cup {None} /\ synced[h] \in Forks \cup {None}
                          /\ processed[h] \in Forks \cup {None}
    BY DEF TypeOK
  <2>3. Newest >= 0
    BY <2>1, WindowConstants DEF Forks
  <2> QED BY <2>1, <2>2, <2>3
<1>c. chain' = chain => Newest' = Newest
  BY DEF Newest
<1>f. Forget \/ Abort => UNCHANGED synced /\ window' \in {{}, window} /\ pending' \in {{}, pending}
  BY DEF Forget, Abort
<1>r. ASSUME UNCHANGED <<chain, synced, processed>>, running' \subseteq running,
             window' \in {{}, window}, pending' \in {{}, pending}
      PROVE  ForkInv'
  BY <1>c, <1>r
<1>1. CASE StartProcess
  BY <1>r, <1>1 DEF StartProcess
<1>2. CASE ReadTip
  BY <1>r, <1>2 DEF ReadTip
<1>3. CASE ReadMarker
  BY <1>r, <1>3 DEF ReadMarker, Rewind
<1>4. CASE ClearRecovered
  BY <1>r, <1>4 DEF ClearRecovered
<1>5. CASE ReadTail
  BY <1>r, <1>5 DEF ReadTail, Rewind
<1>6. CASE LowerTail
  BY <1>r, <1>6 DEF LowerTail
<1>7. CASE Drain
  BY <1>r, <1>7 DEF Drain
<1>8. ASSUME NEW t \in todo, DeleteFrom(t) PROVE ForkInv'
  <2>1. UNCHANGED <<chain, synced, window, pending, running>>
    BY <1>8 DEF DeleteFrom
  <2>2. \A k \in Heights : processed'[k] \in {processed[k], None}
    BY <1>8 DEF DeleteFrom
  <2> QED BY <1>c, <1>t, <2>1, <2>2 DEF None
<1>9. CASE Deleted
  BY <1>r, <1>9 DEF Deleted
<1>10. CASE ClearCurrent
  BY <1>r, <1>10 DEF ClearCurrent
<1>11. CASE RebuildCurrent
  BY <1>r, <1>11 DEF RebuildCurrent
<1>12. CASE PlanBackfill
  BY <1>r, <1>12 DEF PlanBackfill
<1>13. CASE PlanOnline
  <2>1. synced' = chain /\ UNCHANGED <<chain, processed, window, pending, running>>
    BY <1>13 DEF PlanOnline
  <2> QED BY <1>c, <2>1
<1>14. CASE LoadWindow
  <2>1. UNCHANGED <<chain, synced, processed, pending, running>>
    BY <1>14 DEF LoadWindow
  <2>2. PICK end \in WindowEnd :
          window' \subseteq Stored(WindowStart .. end) \cup OfNode(WindowStart .. end)
    BY <1>14, LoadedIsOfWindow
  <2>3. \A b \in window' : b[2] \in {synced[b[1]], chain[b[1]]} /\ b[1] \in Heights
    BY <2>2 DEF Stored, OfNode, TypeOK, Block
  <2> QED BY <1>c, <1>t, <2>1, <2>3
<1>15. CASE SetMarker
  BY <1>r, <1>15 DEF SetMarker
<1>16. CASE CheckProcessed
  <2>1. pending' \subseteq window
    BY <1>16 DEF CheckProcessed
  <2>2. UNCHANGED <<chain, synced, processed, window, running>>
    BY <1>16 DEF CheckProcessed
  <2> QED BY <1>c, <2>1, <2>2
<1>17. CASE InsertFacts
  <2>1. UNCHANGED <<chain, synced, processed, window, pending>>
    BY <1>17 DEF InsertFacts
  <2>2. \A insert \in running' : insert \in running \/ insert.blocks = pending
    BY <1>17 DEF InsertFacts, Insert
  <2> QED BY <1>c, <2>1, <2>2
<1>18. CASE InsertCurrent
  <2>1. UNCHANGED <<chain, synced, processed, window, pending>>
    BY <1>18 DEF InsertCurrent
  <2>2. \A insert \in running' : insert \in running \/ insert.blocks = pending
    BY <1>18 DEF InsertCurrent, Insert
  <2> QED BY <1>c, <2>1, <2>2
<1>19. CASE InsertProcessed
  <2>1. UNCHANGED <<chain, synced, processed, window, pending>>
    BY <1>19 DEF InsertProcessed
  <2>2. \A insert \in running' : insert \in running \/ insert.blocks = pending
    BY <1>19 DEF InsertProcessed, Insert
  <2> QED BY <1>c, <2>1, <2>2
<1>20. CASE Inserted
  BY <1>r, <1>20 DEF Inserted
<1>21. CASE ClearMarker
  BY <1>r, <1>21 DEF ClearMarker
<1>22. CASE Publish
  BY <1>r, <1>22 DEF Publish
<1>23. ASSUME NEW t \in awaited, Answer(t) PROVE ForkInv'
  BY <1>r, <1>23 DEF Answer
<1>24. CASE AbortAfterInsert
  BY <1>r, <1>24 DEF AbortAfterInsert, Abort
<1>25. CASE RejectWindow
  BY <1>r, <1>25 DEF RejectWindow, Abort
<1>26. ASSUME NEW insert \in running, Land(insert) PROVE ForkInv'
  <2>1. UNCHANGED <<chain, synced, window, pending>> /\ running' \subseteq running
    BY <1>26 DEF Land
  <2>2. ASSUME NEW k \in Heights PROVE processed'[k] <= Newest
    <3>1. CASE insert.table = "processed" /\ \E b \in insert.blocks : b[1] = k
      <4>1. processed'[k] = (CHOOSE b \in insert.blocks : b[1] = k)[2]
        BY <1>26, <3>1, WindowConstants DEF Land, Facts
      <4> QED BY <3>1, <4>1
    <3>2. CASE ~(insert.table = "processed" /\ \E b \in insert.blocks : b[1] = k)
      <4>1. processed'[k] = processed[k]
        BY <1>26, <3>2 DEF Land
      <4> QED BY <4>1
    <3> QED BY <3>1, <3>2
  <2> QED BY <1>c, <2>1, <2>2
<1>27. CASE Grow
  BY <1>r, <1>27 DEF Grow
<1>28. ASSUME NEW h \in Heights, Reorg(h) PROVE ForkInv'
  <2>1. /\ Newest' = Newest + 1
        /\ chain' = [k \in Heights |-> IF k < h THEN chain[k] ELSE Newest + 1]
        /\ UNCHANGED <<processed, synced, window, pending, running>>
    BY <1>28, ReorgKeepsParents
  <2>2. \A k \in Heights : chain'[k] <= Newest + 1 /\ synced[k] <= Newest + 1 /\ processed[k] <= Newest + 1
    BY <1>t, <2>1
  <2>3. \A B : B \subseteq Block /\ Known(Newest, B) => Known(Newest + 1, B)
    BY <1>t, WindowConstants DEF Block, Forks
  <2>4. window \subseteq Block /\ pending \subseteq Block /\ \A insert \in running : insert.blocks \subseteq Block
    BY DEF TypeOK
  <2> HIDE DEF Known
  <2> QED BY <2>1, <2>2, <2>3, <2>4
<1>29. CASE Shrink
  BY <1>r, <1>29 DEF Shrink
<1>30. CASE Flush
  BY <1>r, <1>30 DEF Flush
<1>31. ASSUME NEW t \in awaited, InsertFails(t) PROVE ForkInv'
  BY <1>r, <1>31 DEF InsertFails
<1>32. CASE CallFails
  BY <1>r, <1>32 DEF CallFails, Abort
<1>33. CASE Die
  BY <1>r, <1>33 DEF Die, Forget
<1>34. CASE MetadataCrash
  BY <1>r, <1>34 DEF MetadataCrash, LoseUnflushed
<1>35. CASE PowerLoss
  <2>1. UNCHANGED <<chain, synced>> /\ running' = {} /\ window' = {} /\ pending' = {}
    BY <1>35 DEF PowerLoss, Forget
  <2>2. \A k \in Heights : processed'[k] \in {processed[k], None}
    BY <1>35 DEF PowerLoss
  <2> QED BY <1>c, <1>t, <2>1, <2>2 DEF None
<1>36. CASE UNCHANGED vars
  BY <1>r, <1>36 DEF vars
<1> QED
  BY <1>1, <1>2, <1>3, <1>4, <1>5, <1>6, <1>7, <1>8, <1>9, <1>10, <1>11, <1>12, <1>13,
     <1>14, <1>15, <1>16, <1>17, <1>18, <1>19, <1>20, <1>21, <1>22, <1>23, <1>24, <1>25,
     <1>26, <1>27, <1>28, <1>29, <1>30, <1>31, <1>32, <1>33, <1>34, <1>35, <1>36
     DEF Next, ProcessStep, ServerStep, NodeStep, FaultStep

(***************************************************************************)
(* What assertCoreWindowShape and assertCoreWindowPreviousBlock accept.    *)
(***************************************************************************)
LEMMA ValidIs ==
  ASSUME NEW B, Valid(B)
  PROVE  Linked(branch, B) /\ Follows(processed, branch, B)
BY DEF Valid, IsChain, FollowsProcessed, Parent, ParentIn, Linked, Follows, First

(***************************************************************************)
(* Blocks that are a chain on top of the processed chain land, and the     *)
(* processed blocks are one chain still.                                   *)
(***************************************************************************)
LEMMA LandedIsChain ==
  ASSUME TypeOK, NoHole, NEW insert \in running, insert.table = "processed", Land(insert),
         OnTop(processed, insert.blocks), OneChain(processed, branch),
         Linked(branch, insert.blocks), Follows(processed, branch, insert.blocks)
  PROVE  OneChain(processed', branch)
<1> DEFINE B == insert.blocks
<1>1. /\ Landed(processed', B)
      /\ \A h \in Heights : processed'[h] =
           IF h \in HeightsOf(B) THEN (CHOOSE b \in B : b[1] = h)[2] ELSE processed[h]
  BY LandOnTop
<1>2. Shaped(B)
  BY DEF OnTop
<1>3. Linked(branch, B) /\ Follows(processed, branch, B) /\ NothingFrom(processed', Last(B) + 1)
  BY <1>1 DEF Landed
<1> HIDE DEF B
<1>4. /\ First(B) \in Heights /\ Last(B) \in Heights
      /\ First(B) \in Int /\ Last(B) \in Int /\ First(B) <= Last(B)
      /\ \A b \in B : b[1] \in Heights /\ b[1] \in Int /\ First(B) <= b[1] /\ b[1] <= Last(B)
      /\ \A h \in Heights : First(B) <= h /\ h <= Last(B) => \E b \in B : b[1] = h
  BY <1>2, ShapeFacts, TailIsInt
<1>5. \A b \in B : processed'[b[1]] = b[2]
  BY <1>1 DEF Landed
<1>6. \A h \in Heights : (~\E b \in B : b[1] = h) => processed'[h] = processed[h]
  BY <1>1 DEF HeightsOf
<1> SUFFICES ASSUME NEW h \in Heights \ {0}, processed'[h] # None, processed'[h - 1] # None
             PROVE  processed'[h - 1] = ParentIn(branch, h, processed'[h])
  BY DEF OneChain
<1>7. h \in Int /\ h > 0 /\ h - 1 \in Heights /\ h \in Heights
  BY WindowConstants DEF Heights
<1>8. h <= Last(B)
  BY <1>3, <1>4, <1>7 DEF NothingFrom
<1>9. CASE h < First(B)
  <2>1. (~\E b \in B : b[1] = h) /\ (~\E b \in B : b[1] = h - 1)
    BY <1>4, <1>7, <1>9
  <2>2. processed'[h] = processed[h] /\ processed'[h - 1] = processed[h - 1]
    BY <1>6, <1>7, <2>1
  <2> QED BY <1>7, <2>2 DEF OneChain
<1>10. CASE h = First(B)
  <2>1. ~\E b \in B : b[1] = h - 1
    BY <1>4, <1>7, <1>10
  <2>2. processed'[h - 1] = processed[h - 1]
    BY <1>6, <1>7, <2>1
  <2>3. PICK b \in B : b[1] = h
    BY <1>4, <1>7, <1>8, <1>10
  <2>4. processed[h - 1] \in {None, ParentIn(branch, h, b[2])}
    BY <1>3, <1>7, <1>10, <2>3 DEF Follows
  <2> QED BY <1>5, <2>2, <2>3, <2>4
<1>11. CASE h > First(B)
  <2>1. First(B) <= h - 1 /\ h - 1 <= Last(B) /\ First(B) <= h
    BY <1>4, <1>7, <1>8, <1>11
  <2>2. PICK c \in B : c[1] = h
    BY <1>4, <1>7, <1>8, <2>1
  <2>3. PICK b \in B : b[1] = h - 1
    BY <1>4, <1>7, <2>1
  <2>4. c[1] = b[1] + 1
    BY <1>7, <2>2, <2>3
  <2>5. b[2] = ParentIn(branch, c[1], c[2])
    BY <1>3, <2>4 DEF Linked
  <2> QED BY <1>5, <2>2, <2>3, <2>5
<1> QED BY <1>4, <1>7, <1>9, <1>10, <1>11

(***************************************************************************)
(* Every step keeps the processed blocks one chain.                        *)
(***************************************************************************)
LEMMA ChainStep ==
  ASSUME FaultsAreApart, BlocksHold, ForkInv, ChainInv, [Next]_vars
  PROVE  ChainInv'
<1> USE DEF ChainInv, Goto, node, metadata, warehouse, rewind, local
<1>h. TailInv /\ BlockInv /\ MarkInv /\ TypeOK /\ NoHole
  BY DEF BlocksHold, BlockInv
<1>1. CASE StartProcess
  BY <1>h, <1>1 DEF StartProcess
<1>2. CASE ReadTip
  BY <1>h, <1>2 DEF ReadTip
<1>3. CASE ReadMarker
  BY <1>h, <1>3 DEF ReadMarker, Rewind
<1>4. CASE ClearRecovered
  BY <1>h, <1>4 DEF ClearRecovered
<1>5. CASE ReadTail
  BY <1>h, <1>5 DEF ReadTail, Rewind
<1>6. CASE LowerTail
  BY <1>h, <1>6 DEF LowerTail
<1>7. CASE Drain
  BY <1>h, <1>7 DEF Drain
<1>8. ASSUME NEW t \in todo, DeleteFrom(t) PROVE ChainInv'
  <2>1. UNCHANGED <<branch, pc, running>> /\ pc = "delete" /\ running = {}
    BY <1>h, <1>8 DEF DeleteFrom, MarkInv, MayInsert
  <2>2. \A k \in Heights : processed'[k] \in {processed[k], None}
    BY <1>h, <1>8 DEF DeleteFrom, TypeOK
  <2>3. OneChain(processed', branch)
    <3> SUFFICES ASSUME NEW h \in Heights \ {0}, processed'[h] # None, processed'[h - 1] # None
                 PROVE  processed'[h - 1] = ParentIn(branch, h, processed'[h])
      BY DEF OneChain
    <3>1. h - 1 \in Heights
      BY WindowConstants DEF Heights
    <3>2. processed'[h] = processed[h] /\ processed'[h - 1] = processed[h - 1]
      BY <2>2, <3>1
    <3> QED BY <3>2 DEF OneChain
  <2> QED BY <2>1, <2>3
<1>9. CASE Deleted
  <2>1. after \in {"recovered", "retail", "validate"}
    BY <1>h, <1>9 DEF Deleted, TailInv, InRewind
  <2> QED BY <1>h, <1>9, <2>1 DEF Deleted
<1>10. CASE ClearCurrent
  BY <1>h, <1>10 DEF ClearCurrent
<1>11. CASE RebuildCurrent
  <2>1. after \in {"recovered", "retail", "validate"}
    BY <1>h, <1>11 DEF RebuildCurrent, TailInv, InRewind
  <2> QED BY <1>h, <1>11, <2>1 DEF RebuildCurrent
<1>12. CASE PlanBackfill
  BY <1>h, <1>12 DEF PlanBackfill
<1>13. CASE PlanOnline
  BY <1>h, <1>13 DEF PlanOnline
<1>14. CASE LoadWindow
  BY <1>h, <1>14 DEF LoadWindow
<1>15. CASE SetMarker
  BY <1>h, <1>15 DEF SetMarker
<1>16. CASE CheckProcessed
  BY <1>h, <1>16 DEF CheckProcessed, Rewind
<1>17. CASE InsertFacts
  <2>1. running = {} /\ pc' = "facts" /\ UNCHANGED <<branch, processed, pending>>
    BY <1>h, <1>17 DEF InsertFacts, MarkInv, MayInsert
  <2>2. Linked(branch, pending) /\ Follows(processed, branch, pending)
    BY <1>17, ValidIs DEF InsertFacts
  <2>3. \A insert \in running' : insert.table # "processed"
    BY <1>17, <2>1, WindowConstants DEF InsertFacts, Insert, Facts
  <2> QED BY <2>1, <2>2, <2>3
<1>18. CASE InsertCurrent
  <2>1. running = {} /\ pc = "facts" /\ pc' = "current" /\ UNCHANGED <<branch, processed, pending>>
    BY <1>h, <1>18 DEF InsertCurrent, Settled, MarkInv, MayInsert
  <2>2. \A insert \in running' : insert.table # "processed"
    BY <1>18, <2>1 DEF InsertCurrent, Insert
  <2> QED BY <2>1, <2>2
<1>19. CASE InsertProcessed
  <2>1. /\ running = {} /\ pc \in {"facts", "current"} /\ pc' = "processed"
        /\ UNCHANGED <<branch, processed, pending>>
    BY <1>h, <1>19 DEF InsertProcessed, Settled, MarkInv, MayInsert
  <2>2. \A insert \in running' : insert.blocks = pending
    BY <1>19, <2>1 DEF InsertProcessed, Insert
  <2> QED BY <2>1, <2>2
<1>20. CASE Inserted
  BY <1>h, <1>20 DEF Inserted
<1>21. CASE ClearMarker
  BY <1>h, <1>21 DEF ClearMarker
<1>22. CASE Publish
  BY <1>h, <1>22 DEF Publish
<1>23. ASSUME NEW t \in awaited, Answer(t) PROVE ChainInv'
  BY <1>h, <1>23 DEF Answer
<1>24. CASE AbortAfterInsert
  BY <1>h, <1>24 DEF AbortAfterInsert, Abort
<1>25. CASE RejectWindow
  BY <1>h, <1>25 DEF RejectWindow, Abort
<1>26. ASSUME NEW insert \in running, Land(insert) PROVE ChainInv'
  <2>1. UNCHANGED <<branch, pc, pending>> /\ running' = running \ {insert}
    BY <1>26 DEF Land
  <2>2. CASE insert.table = "processed"
    <3>1. OnTop(processed, insert.blocks)
      BY <1>h, <2>2 DEF BlockInv
    <3>2. OneChain(processed', branch)
      BY <1>h, <1>26, <2>2, <3>1, LandedIsChain
    <3>3. Landed(processed', insert.blocks)
      BY <1>h, <1>26, <2>2, <3>1, LandOnTop
    <3>4. /\ pc \notin {"facts", "current"} /\ (pc = "processed" => insert.blocks = pending)
          /\ \A other \in running' : other.table # "processed"
      BY <1>h, <2>1, <2>2 DEF BlockInv
    <3> QED BY <2>1, <3>2, <3>3, <3>4
  <2>3. CASE insert.table # "processed"
    <3>1. processed' = processed
      BY <1>26, <2>3 DEF Land
    <3> QED BY <2>1, <3>1
  <2> QED BY <2>2, <2>3
<1>27. CASE Grow
  BY <1>h, <1>27 DEF Grow
<1>28. ASSUME NEW h \in Heights, Reorg(h) PROVE ChainInv'
  <2>1. /\ \A k, f : f \in Int /\ f <= Newest => ParentIn(branch', k, f) = ParentIn(branch, k, f)
        /\ UNCHANGED <<processed, pending, running, pc>>
    BY <1>h, <1>28, ReorgKeepsParents
  <2>2. OneChain(processed, branch')
    <3>1. \A k \in Heights : processed[k] \in Int /\ processed[k] <= Newest
      BY <1>h, WindowConstants DEF TypeOK, Forks, None, ForkInv
    <3> QED BY <2>1, <3>1 DEF OneChain
  <2>3. ASSUME NEW B, B \subseteq Block, Known(Newest, B)
        PROVE  /\ Linked(branch, B) => Linked(branch', B)
               /\ Follows(processed, branch, B) => Follows(processed, branch', B)
    <3>1. \A b \in B : b[2] \in Int /\ b[2] <= Newest
      BY <2>3, WindowConstants DEF Known, Block, Forks
    <3> QED BY <2>1, <3>1 DEF Linked, Follows
  <2>4. /\ pending \subseteq Block /\ Known(Newest, pending)
        /\ \A insert \in running : insert.blocks \subseteq Block /\ Known(Newest, insert.blocks)
    BY <1>h DEF TypeOK, ForkInv
  <2> QED BY <2>1, <2>2, <2>3, <2>4
<1>29. CASE Shrink
  BY <1>h, <1>29 DEF Shrink
<1>30. CASE Flush
  BY <1>h, <1>30 DEF Flush
<1>31. ASSUME NEW t \in awaited, InsertFails(t) PROVE ChainInv'
  BY <1>h, <1>31 DEF InsertFails
<1>32. CASE CallFails
  BY <1>h, <1>32 DEF CallFails, Abort
<1>33. CASE Die
  BY <1>h, <1>33 DEF Die, Forget
<1>34. CASE MetadataCrash
  BY <1>h, <1>34 DEF MetadataCrash, LoseUnflushed, MetadataCalls
<1>35. CASE PowerLoss
  BY <1>h, <1>35 DEF PowerLoss, CanFault, FaultsAreApart
<1>36. CASE UNCHANGED vars
  BY <1>h, <1>36 DEF vars
<1> QED
  BY <1>1, <1>2, <1>3, <1>4, <1>5, <1>6, <1>7, <1>8, <1>9, <1>10, <1>11, <1>12, <1>13,
     <1>14, <1>15, <1>16, <1>17, <1>18, <1>19, <1>20, <1>21, <1>22, <1>23, <1>24, <1>25,
     <1>26, <1>27, <1>28, <1>29, <1>30, <1>31, <1>32, <1>33, <1>34, <1>35, <1>36
     DEF Next, ProcessStep, ServerStep, NodeStep, FaultStep

-----------------------------------------------------------------------------
(***************************************************************************)
(* The process starts with nothing skipped and one chain.                  *)
(***************************************************************************)
LEMMA BlocksInit == Init => TailInv /\ BlockInv /\ ForkInv /\ ChainInv
<1> SUFFICES ASSUME Init PROVE TailInv /\ BlockInv /\ ForkInv /\ ChainInv
  OBVIOUS
<1>1. /\ pc = "start" /\ marker = NoMarker /\ running = {} /\ window = {} /\ pending = {}
      /\ tail = Top(Done) /\ durable[1] = NoMarker /\ durable[2] = tail /\ seenTail = tail
      /\ latest = FirstTip /\ tip = FirstTip
      /\ processed = [h \in Heights |-> IF h \in Done THEN 0 ELSE None]
      /\ chain = [h \in Heights |-> 0] /\ synced = chain /\ branch = [f \in Forks |-> NoBranch]
  BY DEF Init
<1>2. /\ tail \in Tail /\ ProcessedBelow(processed, tail + 1) /\ tail <= FirstTip
      /\ Online => tail = FirstTip
  <2>1. CASE Online
    <3>1. Done = 0 .. FirstTip /\ Done \subseteq Heights /\ Done # {} /\ FirstTip \in Done
      BY <2>1, WindowConstants DEF Done, Heights
    <3>2. tail = FirstTip
      <4>1. \A k \in Done : k <= FirstTip
        BY <3>1, WindowConstants
      <4> QED BY <1>1, <3>1, <4>1, TopIs
    <3> QED BY <1>1, <3>1, <3>2, WindowConstants DEF ProcessedBelow, Heights, Tail, None
  <2>2. CASE ~Online
    <3>1. tail = -1
      BY <1>1, <2>2 DEF Done, Top, None
    <3> QED BY <2>2, <3>1, WindowConstants DEF ProcessedBelow, Heights, Tail, None
  <2> QED BY <2>1, <2>2
<1>3. ProcessedBelow(processed, Floor(tail))
  BY <1>2, FloorFacts, TailIsInt, BelowLower
<1>4. TailInv
  <2>1. /\ ~HasWindow /\ ~InRewind /\ ~Reconciling
        /\ pc \notin {"tail", "plan", "publish", "load", "mark"}
    BY <1>1 DEF HasWindow, Applying, InRewind, Reconciling
  <2>2. tail <= tail /\ FirstTip <= FirstTip
    BY <1>2, TailIsInt, WindowConstants
  <2>3. CrashHolds
    BY <1>1, <1>2, <2>1, <2>2 DEF CrashHolds
  <2> QED BY <1>1, <1>2, <1>3, <2>1, <2>2, <2>3 DEF TailInv
<1>5. NoHole
  BY <1>1, WindowConstants DEF NoHole, Done, Heights, None
<1>6. BlockInv
  BY <1>1, <1>5 DEF BlockInv, InRewind
<1>7. ForkInv
  BY <1>1, WindowConstants DEF ForkInv, Known, Newest, Heights, None
<1>8. ChainInv
  <2>1. OneChain(processed, branch)
    BY <1>1, WindowConstants DEF OneChain, ParentIn, NoBranch, None, Heights, Forks
  <2> QED BY <1>1, <2>1 DEF ChainInv
<1> QED BY <1>4, <1>6, <1>7, <1>8

(***************************************************************************)
(* The four parts are inductive together with the types and the marker.    *)
(***************************************************************************)
LEMMA BlocksInvariance ==
  ASSUME FaultsAreApart
  PROVE  Spec => [](BlocksHold /\ ForkInv /\ ChainInv)
<1>1. Init => BlocksHold /\ ForkInv /\ ChainInv
  BY TypeInit, MarkInit, BlocksInit DEF BlocksHold
<1>2. BlocksHold /\ ForkInv /\ ChainInv /\ [Next]_vars => (BlocksHold /\ ForkInv /\ ChainInv)'
  <2> SUFFICES ASSUME BlocksHold, ForkInv, ChainInv, [Next]_vars
               PROVE  (BlocksHold /\ ForkInv /\ ChainInv)'
    OBVIOUS
  <2>1. TypeOK /\ MarkInv /\ (pc = "mark" => window # {})
    BY DEF BlocksHold, MarkInv
  <2>2. TypeOK' /\ MarkInv'
    BY <2>1, TypeStep, MarkStep
  <2>3. TailInv' /\ BlockInv'
    BY <2>2, TailStep, BlockStep
  <2>4. ForkInv' /\ ChainInv'
    BY <2>1, <2>2, ForkStep, ChainStep
  <2> QED BY <2>2, <2>3, <2>4 DEF BlocksHold
<1> QED BY <1>1, <1>2, PTL DEF Spec

(***************************************************************************)
(* No height is skipped ("Continuing from that tail would leave a          *)
(* permanent hole"): however many windows fail, are rewound and replayed,  *)
(* for chains of any length, any window size and any reprocess depth.      *)
(***************************************************************************)
THEOREM NothingIsSkipped ==
  ASSUME FaultsAreApart
  PROVE  Spec => []NoHole
<1>1. BlocksHold => NoHole
  BY DEF BlocksHold, BlockInv
<1> QED BY <1>1, BlocksInvariance, PTL

(***************************************************************************)
(* The processed blocks are one chain, over any number of reorganizations  *)
(* (assertCoreWindowShape, assertCoreWindowPreviousBlock and the rewind of *)
(* replaced blocks).                                                       *)
(***************************************************************************)
THEOREM ProcessedStayOneChain ==
  ASSUME FaultsAreApart
  PROVE  Spec => []ProcessedIsAChain
<1>1. ChainInv => ProcessedIsAChain
  BY DEF ChainInv, OneChain, ProcessedIsAChain, Parent, ParentIn
<1> QED BY <1>1, BlocksInvariance, PTL

(***************************************************************************)
(* A tail is published only when every block up to it is processed         *)
(* (publishWindowProgress).                                                *)
(***************************************************************************)
THEOREM PublishedTailWasProcessed ==
  ASSUME FaultsAreApart
  PROVE  Spec => PublishedTailIsProcessed
<1>1. BlocksHold /\ [Next]_vars => [Publish => \A h \in 0 .. tail' : processed[h] # None]_vars
  <2> SUFFICES ASSUME BlocksHold, Publish, NEW h \in 0 .. tail' PROVE processed[h] # None
    OBVIOUS
  <2>1. pc = "publish" /\ tail' = Last(window)
    BY DEF Publish, Last
  <2>2. ProcessedBelow(processed, Last(window) + 1) /\ Shaped(window)
    BY <2>1 DEF BlocksHold, BlockInv, TailInv, HasWindow
  <2>3. Last(window) \in Heights /\ Last(window) \in Int
    BY <2>2, ShapeFacts, TailIsInt
  <2>4. h \in 0 .. Last(window)
    BY <2>1
  <2>5. h \in Heights /\ h < Last(window) + 1
    BY <2>3, <2>4, WindowConstants DEF Heights
  <2> QED BY <2>2, <2>5 DEF ProcessedBelow
<1>2. Spec => [](BlocksHold /\ ForkInv /\ ChainInv)
  BY BlocksInvariance
<1> QED BY <1>1, <1>2, PTL DEF Spec, PublishedTailIsProcessed
=============================================================================
