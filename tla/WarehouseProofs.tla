--------------------------- MODULE WarehouseProofs ---------------------------
(***************************************************************************)
(* What is proved of ClickHouseWarehouse, for every block tree and every   *)
(* value of the constants: outside a window that is being rewound or       *)
(* inserted the tables of facts hold the rows of the applied blocks, all   *)
(* of them and no other, and a current row says of its output what these   *)
(* facts say.  A call is a queue of statements, any of which may fail; how *)
(* many are left tells which tables are already cut back or rebuilt, and   *)
(* the invariant states what each table holds at each of these points.     *)
(*                                                                         *)
(* With the balances, which are sums over the outputs of an address, the   *)
(* state that callers see is a function of the blocks that count: from     *)
(* this follows that the tables act as the warehouse in memory.            *)
(***************************************************************************)
EXTENDS ClickHouseWarehouse, SequenceTheorems, FiniteSetTheorems, WellFoundedInduction, TLAPS

-----------------------------------------------------------------------------
(* Numbers                                                                 *)

\* A set of heights has a least element.
LEMMA LeastOf ==
  ASSUME NEW S, S \subseteq Nat, S # {}
  PROVE  \E m \in S : \A k \in S : m <= k
<1>1. PICK x \in S : \A y \in S : ~ (<<y, x>> \in OpToRel(<, Nat))
  BY WFMin, NatLessThanWellFounded
<1>2. \A y \in S : ~ (y < x)
  BY <1>1 DEF OpToRel
<1> QED BY <1>2

(***************************************************************************)
(* ... and one of integers with a bound a greatest one: the end of the     *)
(* blocks that are applied.                                                *)
(***************************************************************************)
LEMMA GreatestOf ==
  ASSUME NEW n \in Int, NEW S, S \subseteq Int, S # {}, \A s \in S : s <= n
  PROVE  \E m \in S : \A k \in S : k <= m
<1> DEFINE D == {n - s : s \in S}
<1>1. D \subseteq Nat
  <2>1. \A s \in S : n - s \in Nat OBVIOUS
  <2> QED BY <2>1
<1>2. D # {}
  <2>1. PICK s \in S : TRUE OBVIOUS
  <2>2. n - s \in D BY <2>1
  <2> QED BY <2>2
<1>3. PICK d \in D : \A k \in D : d <= k
  <2> HIDE DEF D
  <2> QED BY <1>1, <1>2, LeastOf
<1>4. PICK m \in S : d = n - m OBVIOUS
<1>5. \A k \in S : n - m <= n - k BY <1>3, <1>4
<1> QED BY <1>5

-----------------------------------------------------------------------------
\* What the tables hold when the blocks p have been applied.
CreateRow == [key : Outputs, at : 0 .. None - 1]
CreateRows(p) == {r \in CreateRow : \E b \in p : r.key \in Creates(b) /\ r.at = Height[b]}
SpendRows(p)  == {r \in CreateRow : \E b \in p : r.key \in Spends(b) /\ r.at = Height[b]}

Movement == [dir : {"credit", "debit"}, key : Outputs, at : 0 .. None - 1]
Credits(p) == {m \in Movement : /\ m.dir = "credit" /\ Owned(m.key)
                                /\ \E b \in p : m.key \in Creates(b) /\ m.at = Height[b]}
Debits(p)  == {m \in Movement : /\ m.dir = "debit" /\ Owned(m.key)
                                /\ \E b \in p : m.key \in Spends(b) /\ m.at = Height[b]}

Below(rows, h) == {r \in rows : r.at < h}
Under(p, h)    == {b \in p : Height[b] < h}

(***************************************************************************)
(* The current rows of the blocks p: those of a spent output include the   *)
(* row of its spend, which has the highest version, and of the unspent     *)
(* outputs only lost ones are absent.                                      *)
(***************************************************************************)
CurrentRow == [key : Outputs, at : Nat, spent : Nat \cup {NoHeight}, version : Nat]
SoundRow(r, rows, p) ==
  /\ r \in CurrentRow
  /\ \E b \in p : r.key \in Creates(b) /\ r.at = Height[b]
  /\ r.spent = NoHeight => \E b \in p : r.version <= 2 * Height[b]
  /\ r.spent # NoHeight => \E b \in p : /\ r.key \in Spends(b) /\ r.spent = Height[b]
                                        /\ r.version = 2 * Height[b] + 1
  /\ \A b \in p : r.key \in Spends(b) =>
       /\ r.spent = NoHeight => r.version < 2 * Height[b] + 1
       /\ \E q \in rows : q.key = r.key /\ q.spent = Height[b]
Absent(rows, p) == {o \in CreatedIn(p) \ SpentIn(p) : \A r \in rows : r.key # o}
Sound(rows, p, n) ==
  /\ \A r \in rows : SoundRow(r, rows, p)
  /\ IsFiniteSet(Absent(rows, p)) /\ Cardinality(Absent(rows, p)) <= n

-----------------------------------------------------------------------------
\* Calls whose window is known, and states in which rows are being taken back.
HasPending == phase \in {"load", "clean", "facts", "balances", "processed"}
Broken == phase = "rewind" \/ (phase = "idle" /\ cutoff # None)

\* The blocks whose rows are in a table.
Inserted(table) ==
  \/ phase = "facts" /\ table \in {queue[i] : i \in DOMAIN queue}
  \/ phase \in {"balances", "processed"}
Landed(table) == IF Inserted(table) THEN processed \cup pending ELSE processed

\* The statements there are.
Names == {"creates", "spends", "processed", "movements",
          "clearOutputs", "clearBalances", "outputs", "balances"}

\* The statements of a rewind to h, and how many of them are done.
Statements(h) ==
  Deletes \o IF ~ready THEN <<>> ELSE IF h > 0 THEN Rebuild ELSE SubSeq(Rebuild, 1, 2)
Progress(all) == Len(all) - Len(queue)
Remains(all) ==
  Progress(all) \in 0 .. Len(all) /\ queue = SubSeq(all, Progress(all) + 1, Len(all))

ClickTypeOK ==
  /\ creates \subseteq CreateRow /\ spends \subseteq CreateRow /\ movements \subseteq Movement
  /\ processed \subseteq Blocks /\ pending \subseteq Blocks
  /\ queue \in Seq(Names) /\ cutoff \in 0 .. None /\ asked \in 0 .. None
  /\ ready \in BOOLEAN /\ repaired \in BOOLEAN /\ lost \in Nat
  /\ phase \in {"idle", "rewind", "load", "clean", "facts", "balances", "processed", "materialize"}

\* A height that a window on the blocks p may start at.
Above(p, h) == h = 0 \/ \E b \in p : Height[b] = h - 1

CallInv ==
  /\ Chain(processed)
  /\ phase \in {"idle", "materialize"} => asked = None /\ pending = {}
  /\ phase \in {"load", "facts", "balances", "processed", "materialize"} => cutoff = None
  /\ phase = "clean" => cutoff = Start(pending)
  /\ phase \notin {"idle", "materialize"} =>
       asked < None /\ Above(processed, asked) /\ \A b \in pending : asked <= Height[b]
  /\ HasPending => /\ pending # {} /\ Chain(processed \cup pending)
                   /\ \A b \in processed, c \in pending : Height[b] < Height[c]
  /\ Broken => cutoff < None /\ Above(processed, cutoff)
  /\ phase = "rewind" =>
       /\ asked <= cutoff /\ Chain(Under(processed, cutoff) \cup pending)
       /\ \A c \in pending : cutoff <= Height[c]
       /\ Remains(Statements(cutoff))
       /\ pending = {} => asked = cutoff
  /\ phase = "materialize" => ~ready /\ processed # {} /\ queue # <<>> /\ Remains(Rebuild)
  /\ phase = "facts" => /\ \A i \in DOMAIN queue : queue[i] \in FactTables
                        /\ \A i, j \in DOMAIN queue : queue[i] = queue[j] => i = j

FactsInv ==
  /\ ~Broken =>
       /\ creates = CreateRows(Landed("creates")) /\ spends = SpendRows(Landed("spends"))
       /\ Credits(Landed("movements")) \subseteq movements
       /\ movements \subseteq Credits(Landed("movements")) \cup Debits(Landed("movements"))
  /\ Broken =>
       LET p == Under(processed, cutoff) IN
       /\ Below(creates, cutoff) = CreateRows(p) /\ Below(spends, cutoff) = SpendRows(p)
       /\ Credits(p) \subseteq movements /\ Below(movements, cutoff) \subseteq Credits(p) \cup Debits(p)
  /\ phase = "rewind" =>
       LET n == Progress(Statements(cutoff)) IN
       /\ n >= 1 => Below(creates, cutoff) = creates
       /\ n >= 2 => Below(spends, cutoff) = spends
       /\ n >= 3 => Under(processed, cutoff) = processed
       /\ n >= 4 => Below(movements, cutoff) = movements

CurrentInv ==
  /\ ready /\ ~Broken => Sound(current, IF phase \in {"balances", "processed"}
                                      THEN processed \cup pending ELSE processed, lost)
  /\ ready /\ phase = "rewind" =>
       LET n == Progress(Statements(cutoff)) IN
       /\ n \in {5, 6} => current = {}
       /\ n > 6 => Sound(current, Under(processed, cutoff), lost)
  /\ phase = "materialize" =>
       LET n == Progress(Rebuild) IN
       /\ n \in {1, 2} => current = {}
       /\ n > 2 => Sound(current, processed, lost)
  /\ ready /\ phase = "facts" =>
       prevouts = {r \in Newest(current) : r.key \in External} /\ Missing = {}

ClickInv == ClickTypeOK /\ CallInv /\ FactsInv /\ CurrentInv

-----------------------------------------------------------------------------
(* Heights and chains                                                      *)

\* What the constants say of one block.
LEMMA BlockFacts ==
  /\ NoBlock \notin Blocks
  /\ \A b \in Blocks : /\ Height[b] \in Nat
                       /\ Parent[b] \in Blocks \cup {NoBlock}
                       /\ Parent[b] = NoBlock => Height[b] = 0
                       /\ Parent[b] # NoBlock => Height[b] = Height[Parent[b]] + 1
  BY EffectsConstants

\* There are finitely many blocks, so their heights have a bound.
LEMMA HeightsAreBounded == \E n \in Nat : \A b \in Blocks : Height[b] <= n
<1> DEFINE Bounded(p) == \E n \in Nat : \A b \in p : Height[b] <= n
           D == {c \in Nat : \E p \in SUBSET Blocks : Cardinality(p) = c /\ ~Bounded(p)}
<1>1. IsFiniteSet(Blocks)
  BY ChainsAreValid
<1>2. \A p \in SUBSET Blocks : IsFiniteSet(p) /\ Cardinality(p) \in Nat
  BY <1>1, FS_Subset, FS_CardinalityType
<1>3. CASE D = {}
  <2>1. Cardinality(Blocks) \in Nat /\ Cardinality(Blocks) \notin D
    BY <1>2, <1>3
  <2> HIDE DEF Bounded
  <2>2. Bounded(Blocks)
    BY <2>1
  <2> QED BY <2>2 DEF Bounded
<1>4. CASE D # {}
  <2>1. PICK c \in D : \A d \in D : c <= d
    <3>1. D \subseteq Nat
      OBVIOUS
    <3> HIDE DEF D
    <3> QED BY <1>4, <3>1, LeastOf
  <2> HIDE DEF Bounded
  <2>2. PICK p \in SUBSET Blocks : Cardinality(p) = c /\ ~Bounded(p)
    BY <2>1
  <2>3. p # {}
    <3>1. Bounded({})
      BY DEF Bounded
    <3> QED BY <2>2, <3>1
  <2>4. PICK x \in p : TRUE
    BY <2>3
  <2>5. Cardinality(p \ {x}) = c - 1 /\ p \ {x} \in SUBSET Blocks /\ c - 1 \in Nat
    <3>1. Cardinality(p \ {x}) = Cardinality(p) - 1
      BY <1>2, <2>4, FS_RemoveElement
    <3> QED BY <1>2, <2>2, <3>1
  <2>6. Bounded(p \ {x})
    <3>1. c \in Nat /\ ~(c <= c - 1)
      BY <2>1
    <3>2. c - 1 \notin D
      BY <2>1, <3>1
    <3> QED BY <2>5, <3>2
  <2>7. PICK n \in Nat : \A b \in p \ {x} : Height[b] <= n
    BY <2>6 DEF Bounded
  <2>8. Height[x] \in Nat /\ \A b \in p : Height[b] \in Nat
    BY <2>2, <2>4, BlockFacts
  <2>9. CASE Height[x] <= n
    <3>1. \A b \in p : Height[b] <= n
      BY <2>7, <2>9
    <3> QED BY <2>2, <3>1 DEF Bounded
  <2>10. CASE n <= Height[x]
    <3>1. \A b \in p : Height[b] <= Height[x]
      BY <2>7, <2>8, <2>10
    <3> QED BY <2>2, <2>8, <3>1 DEF Bounded
  <2> QED BY <2>8, <2>9, <2>10
<1> QED BY <1>3, <1>4

\* The lowest and the highest height of some blocks are heights of them.
LEMMA HeightBounds ==
  ASSUME NEW p, p \subseteq Blocks, p # {}
  PROVE  /\ Max(Heights(p)) \in Heights(p) /\ Min(Heights(p)) \in Heights(p)
         /\ Max(Heights(p)) \in Nat /\ Min(Heights(p)) \in Nat
         /\ \A b \in p : Height[b] <= Max(Heights(p)) /\ Min(Heights(p)) <= Height[b]
         /\ End(p) = Max(Heights(p))
<1>1. Heights(p) \subseteq Nat /\ Heights(p) # {} /\ \A b \in p : Height[b] \in Heights(p)
  BY BlockFacts DEF Heights
<1>2. PICK n \in Nat : \A h \in Heights(p) : h <= n
  BY HeightsAreBounded DEF Heights
<1>3. \E m \in Heights(p) : \A k \in Heights(p) : k <= m
  BY <1>1, <1>2, GreatestOf
<1>4. \E m \in Heights(p) : \A k \in Heights(p) : m >= k
  BY <1>1, <1>3
<1>5. Max(Heights(p)) \in Heights(p) /\ \A k \in Heights(p) : Max(Heights(p)) >= k
  BY <1>4 DEF Max
<1>6. Min(Heights(p)) \in Heights(p) /\ \A k \in Heights(p) : Min(Heights(p)) <= k
  <2>1. \E m \in Heights(p) : \A k \in Heights(p) : m <= k
    BY <1>1, LeastOf
  <2> QED BY <2>1 DEF Min
<1>7. Max(Heights(p) \cup {NoHeight}) = Max(Heights(p))
  <2> DEFINE S == Heights(p) \cup {NoHeight}
  <2>1. Max(Heights(p)) \in S /\ \A k \in S : Max(Heights(p)) >= k
    BY <1>1, <1>5 DEF NoHeight
  <2>2. S \subseteq Int
    BY <1>1 DEF NoHeight
  <2>3. Max(S) \in S /\ \A k \in S : Max(S) >= k
    <3>1. \E m \in S : \A k \in S : m >= k
      BY <2>1
    <3> HIDE DEF S
    <3> QED BY <3>1 DEF Max
  <2>4. Max(S) >= Max(Heights(p)) /\ Max(Heights(p)) >= Max(S)
    BY <2>1, <2>3
  <2>5. Max(S) \in Int /\ Max(Heights(p)) \in Int
    BY <2>1, <2>2, <2>3
  <2>6. Max(S) = Max(Heights(p))
    <3> DEFINE x == Max(S)
               y == Max(Heights(p))
    <3>1. x \in Int /\ y \in Int /\ x >= y /\ y >= x
      BY <2>4, <2>5
    <3> HIDE DEF x, y
    <3>2. x = y
      BY <3>1
    <3> QED BY <3>2 DEF x, y
  <2> QED BY <2>6
<1>8. \A b \in p : Height[b] <= Max(Heights(p)) /\ Min(Heights(p)) <= Height[b]
  BY <1>1, <1>5, <1>6
<1> QED BY <1>1, <1>5, <1>6, <1>7, <1>8 DEF End

\* Where nothing is applied, the end is below every height.
LEMMA EndOfNothing == End({}) = NoHeight
<1>1. Heights({}) \cup {NoHeight} = {NoHeight}
  BY DEF Heights
<1>2. Max({NoHeight}) \in {NoHeight}
  <2>1. \E x \in {NoHeight} : \A y \in {NoHeight} : x >= y
    BY DEF NoHeight
  <2> QED BY <2>1 DEF Max
<1> QED BY <1>1, <1>2 DEF End

\* None, which stands for no height, is above every height.
LEMMA NoneIsAbove ==
  /\ None \in Nat
  /\ \A b \in Blocks : Height[b] \in Nat /\ Height[b] < None /\ Height[b] \in 0 .. None - 1
<1>1. Blocks # {}
  BY ChainsAreValid
<1>2. /\ Max(Heights(Blocks)) \in Nat
      /\ \A b \in Blocks : Height[b] <= Max(Heights(Blocks)) /\ Height[b] \in Nat
  BY <1>1, HeightBounds, BlockFacts
<1> QED BY <1>2 DEF None

(***************************************************************************)
(* A chain has a block at every height below its tip.                      *)
(***************************************************************************)
LEMMA ChainFills ==
  ASSUME NEW p, Chain(p), NEW b \in p, NEW k \in 0 .. Height[b]
  PROVE  \E c \in p : Height[c] = k
<1>1. p \subseteq Blocks /\ \A c \in p : Parent[c] \in p \cup {NoBlock}
  BY DEF Chain
<1>2. \A c \in p : Height[c] \in Nat
  BY <1>1, BlockFacts
<1> DEFINE S == {Height[c] : c \in {c \in p : k <= Height[c]}}
<1>3. PICK m \in S : \A j \in S : m <= j
  <2>1. S \subseteq Nat /\ Height[b] \in S
    BY <1>2
  <2> HIDE DEF S
  <2> QED BY <2>1, LeastOf
<1>4. PICK c \in p : Height[c] = m /\ k <= m
  BY <1>3
<1>5. CASE m = k
  BY <1>4, <1>5
<1>6. CASE m # k
  <2>1. Height[c] # 0 /\ m \in Nat /\ k <= m - 1
    BY <1>2, <1>4, <1>6
  <2>2. Parent[c] # NoBlock /\ Parent[c] \in p /\ Height[c] = Height[Parent[c]] + 1
    BY <1>1, <2>1, BlockFacts
  <2>3. Height[Parent[c]] = m - 1
    BY <1>2, <1>4, <2>2
  <2>4. m - 1 \in S
    BY <2>1, <2>2, <2>3
  <2> QED BY <1>3, <2>1, <2>4
<1> QED BY <1>5, <1>6

\* The blocks of a chain below a height are a chain.
LEMMA UnderIsAChain ==
  ASSUME NEW p, Chain(p), NEW h \in Int
  PROVE  Chain(Under(p, h))
<1>1. /\ p \subseteq Blocks /\ \A b \in p : Parent[b] \in p \cup {NoBlock}
      /\ \A b, c \in p : Height[b] = Height[c] => b = c
  BY DEF Chain
<1>2. ASSUME NEW b \in Under(p, h) PROVE Parent[b] \in Under(p, h) \cup {NoBlock}
  <2>1. b \in p /\ Height[b] < h
    BY DEF Under
  <2>2. CASE Parent[b] = NoBlock
    BY <2>2
  <2>3. CASE Parent[b] # NoBlock
    <3>1. Parent[b] \in p /\ Height[b] = Height[Parent[b]] + 1
      BY <1>1, <2>1, <2>3, BlockFacts
    <3>2. Height[Parent[b]] \in Nat /\ Height[b] \in Nat
      BY <1>1, <2>1, <3>1, BlockFacts
    <3>3. Height[Parent[b]] < h
      BY <2>1, <3>1, <3>2
    <3> QED BY <3>1, <3>3 DEF Under
  <2> QED BY <2>2, <2>3
<1> QED BY <1>1, <1>2 DEF Chain, Under

(***************************************************************************)
(* What a window adds continues the chain of the blocks that stay: those   *)
(* below the reorganization, or all when there is none                     *)
(* (pendingCoreWindowApplications, assertCoreWindowPreviousBlock).         *)
(***************************************************************************)
LEMMA WindowContinues ==
  ASSUME NEW p, Chain(p), NEW w \in Windows, Parent[First(w)] \in p \cup {NoBlock}
  PROVE  LET x == Pending(w, p)
             stay == IF Conflicts(w, p) = {} THEN p ELSE Under(p, Min(Conflicts(w, p)))
         IN  /\ x \subseteq w /\ Chain(stay \cup x)
             /\ \A b \in stay, c \in x : Height[b] < Height[c]
             /\ Start(w) \in Nat /\ Start(w) < None /\ Above(p, Start(w))
             /\ \A c \in x : Start(w) <= Height[c]
             /\ Conflicts(w, p) # {} =>
                  LET h == Min(Conflicts(w, p)) IN
                  /\ h \in Nat /\ h < None /\ Start(w) <= h /\ Above(p, h)
                  /\ \A c \in x : h <= Height[c]
<1> DEFINE x == Pending(w, p)
<1>1. /\ p \subseteq Blocks /\ \A b \in p : Parent[b] \in p \cup {NoBlock}
      /\ \A b, c \in p : Height[b] = Height[c] => b = c
  BY DEF Chain
<1>2. /\ w \subseteq Blocks /\ w # {}
      /\ \A b, c \in w : Height[b] = Height[c] => b = c
      /\ \A b \in w : Parent[b] \in w \/ \A c \in w : Height[c] >= Height[b]
  BY DEF Windows, WellFormed
<1>3. /\ \A b \in p \cup w : b \in Blocks /\ Height[b] \in Nat /\ Height[b] < None
      /\ Start(w) \in Nat /\ Start(w) \in Heights(w) /\ \A c \in w : Start(w) <= Height[c]
  BY <1>1, <1>2, HeightBounds, NoneIsAbove DEF Start
<1>4. First(w) \in w /\ Height[First(w)] = Start(w)
  <2>1. \E b \in w : Height[b] = Start(w)
    BY <1>3 DEF Heights
  <2> QED BY <2>1 DEF First
<1>5. Start(w) < None /\ Above(p, Start(w))
  <2>1. Start(w) < None
    BY <1>3, <1>4
  <2>2. CASE Parent[First(w)] = NoBlock
    BY <1>2, <1>4, <2>1, <2>2, BlockFacts DEF Above
  <2>3. CASE Parent[First(w)] \in p
    <3>1. Height[First(w)] = Height[Parent[First(w)]] + 1
      BY <1>1, <1>2, <1>4, <2>3, BlockFacts
    <3>2. Height[Parent[First(w)]] = Start(w) - 1
      BY <1>3, <1>4, <2>3, <3>1
    <3> QED BY <2>1, <2>3, <3>2 DEF Above
  <2> QED BY <2>2, <2>3
<1>6. ASSUME NEW c \in w, Parent[c] \notin w PROVE c = First(w)
  <2>1. \A d \in w : Height[d] >= Height[c]
    BY <1>2, <1>6
  <2>2. Height[First(w)] >= Height[c] /\ Start(w) <= Height[c]
    BY <1>3, <1>4, <2>1
  <2>3. Height[First(w)] = Height[c]
    BY <1>3, <1>4, <2>2
  <2> QED BY <1>2, <1>4, <2>3
<1>7. ASSUME NEW c \in w, Parent[c] # NoBlock
      PROVE  Parent[c] \in Blocks /\ Height[Parent[c]] \in Nat
             /\ Height[c] = Height[Parent[c]] + 1 /\ Height[Parent[c]] < Height[c]
  BY <1>2, <1>7, BlockFacts
<1>8. \A c \in w, d \in p : Height[c] = Height[d] /\ c # d => Height[c] \in Conflicts(w, p)
  BY DEF Conflicts
<1>9. CASE Conflicts(w, p) = {}
  <2>1. x = w \ p
    BY <1>9 DEF Pending
  <2>2. ASSUME NEW b \in p, NEW c \in x PROVE Height[b] < Height[c]
    <3> SUFFICES ASSUME ~(Height[b] < Height[c]) PROVE FALSE
      OBVIOUS
    <3>1. c \in w /\ c \notin p /\ Height[c] \in 0 .. Height[b]
      BY <1>3, <2>1
    <3>2. PICK d \in p : Height[d] = Height[c]
      BY <3>1, ChainFills
    <3> QED BY <1>8, <1>9, <3>1, <3>2
  <2>3. \A c \in x : Parent[c] \in p \cup x \cup {NoBlock}
    BY <1>6, <2>1
  <2>4. \A b, c \in p \cup x : Height[b] = Height[c] => b = c
    <3> SUFFICES ASSUME NEW b \in p \cup x, NEW c \in p \cup x, Height[b] = Height[c] PROVE b = c
      OBVIOUS
    <3>1. Height[b] \in Nat /\ Height[c] \in Nat
      BY <1>3, <2>1
    <3>2. CASE b \in p /\ c \in p
      BY <1>1, <3>2
    <3>3. CASE b \in x /\ c \in x
      BY <1>2, <2>1, <3>3
    <3>4. CASE b \in p /\ c \in x
      BY <2>2, <3>1, <3>4
    <3>5. CASE b \in x /\ c \in p
      BY <2>2, <3>1, <3>5
    <3> QED BY <3>2, <3>3, <3>4, <3>5
  <2>5. Chain(p \cup x)
    BY <1>1, <1>3, <2>1, <2>3, <2>4 DEF Chain
  <2>6. x \subseteq w /\ \A c \in x : Start(w) <= Height[c]
    BY <1>3, <2>1
  <2> QED BY <1>3, <1>5, <1>9, <2>2, <2>5, <2>6
<1>10. CASE Conflicts(w, p) # {}
  <2> DEFINE h == Min(Conflicts(w, p))
             stay == Under(p, h)
  <2>1. h \in Conflicts(w, p) /\ \A k \in Conflicts(w, p) : h <= k
    <3>1. Conflicts(w, p) \subseteq Nat
      BY <1>3 DEF Conflicts
    <3>2. \E m \in Conflicts(w, p) : \A k \in Conflicts(w, p) : m <= k
      BY <1>10, <3>1, LeastOf
    <3> QED BY <3>2 DEF Min
  <2>2. PICK b0 \in w, k0 \in p : Height[b0] = h /\ Height[k0] = h
    BY <2>1 DEF Conflicts
  <2> HIDE DEF h
  <2>3. h \in Nat /\ h < None /\ Start(w) <= h
    BY <1>3, <2>2
  <2>4. x = {b \in w : Height[b] >= h}
    BY <1>10 DEF Pending, h
  <2>5. Above(p, h)
    <3>1. CASE h = 0
      BY <3>1 DEF Above
    <3>2. CASE h # 0
      <4>1. h - 1 \in 0 .. Height[k0]
        BY <2>2, <2>3, <3>2
      <4> QED BY <4>1, ChainFills DEF Above
    <3> QED BY <3>1, <3>2
  <2>6. \A c \in x : c \in w /\ h <= Height[c] /\ Start(w) <= Height[c]
    BY <1>3, <2>3, <2>4
  <2>7. \A b \in stay : b \in p /\ Height[b] < h
    BY DEF Under
  <2>8. \A b \in stay, c \in x : Height[b] < Height[c]
    BY <1>3, <2>3, <2>6, <2>7
  <2>9. ASSUME NEW c \in x PROVE Parent[c] \in stay \cup x \cup {NoBlock}
    <3> SUFFICES ASSUME Parent[c] # NoBlock PROVE Parent[c] \in stay \cup x
      OBVIOUS
    <3>0. c \in w
      BY <2>6
    <3>1. /\ Parent[c] \in Blocks /\ Height[Parent[c]] \in Nat
          /\ Height[c] = Height[Parent[c]] + 1 /\ Height[Parent[c]] < Height[c]
      BY <1>7, <3>0
    <3>2. CASE Parent[c] \in w /\ Height[Parent[c]] >= h
      BY <2>4, <3>2
    <3>3. CASE Parent[c] \in w /\ Height[Parent[c]] < h
      <4>1. Height[Parent[c]] \in 0 .. Height[k0]
        BY <2>2, <2>3, <3>1, <3>3
      <4>2. PICK d \in p : Height[d] = Height[Parent[c]]
        BY <4>1, ChainFills
      <4>3. Height[Parent[c]] \notin Conflicts(w, p)
        BY <2>1, <2>3, <3>1, <3>3 DEF h
      <4>4. d = Parent[c]
        BY <1>8, <3>3, <4>2, <4>3
      <4> QED BY <3>3, <4>2, <4>4 DEF Under
    <3>4. CASE Parent[c] \notin w
      <4>1. c = First(w)
        BY <1>6, <3>0, <3>4
      <4>2. Parent[c] \in p /\ Height[c] = Start(w)
        BY <1>4, <4>1
      <4>3. Height[Parent[c]] < h
        BY <1>3, <2>3, <3>1, <4>2
      <4> QED BY <4>2, <4>3 DEF Under
    <3>5. h \in Nat /\ Height[Parent[c]] \in Nat
      BY <2>3, <3>1
    <3> QED BY <3>2, <3>3, <3>4, <3>5
  <2>10. Chain(stay)
    BY <2>3, UnderIsAChain
  <2>11. \A b, c \in stay \cup x : Height[b] = Height[c] => b = c
    <3> SUFFICES ASSUME NEW b \in stay \cup x, NEW c \in stay \cup x, Height[b] = Height[c]
                 PROVE  b = c
      OBVIOUS
    <3>1. Height[b] \in Nat /\ Height[c] \in Nat
      BY <1>3, <2>6, <2>7
    <3>2. CASE b \in stay /\ c \in stay
      BY <1>1, <2>7, <3>2
    <3>3. CASE b \in x /\ c \in x
      BY <1>2, <2>6, <3>3
    <3>4. CASE b \in stay /\ c \in x
      BY <2>8, <3>1, <3>4
    <3>5. CASE b \in x /\ c \in stay
      BY <2>8, <3>1, <3>5
    <3> QED BY <3>2, <3>3, <3>4, <3>5
  <2>12. Chain(stay \cup x)
    <3>1. stay \cup x \subseteq Blocks
      BY <1>1, <1>2, <2>6, <2>7
    <3>2. \A b \in stay : Parent[b] \in stay \cup {NoBlock}
      BY <2>10 DEF Chain
    <3> HIDE DEF stay, x
    <3> QED BY <2>9, <2>11, <3>1, <3>2 DEF Chain
  <2>13. x \subseteq w
    BY <2>6
  <2> HIDE DEF x, stay
  <2> QED BY <1>3, <1>5, <1>10, <2>3, <2>5, <2>6, <2>8, <2>12, <2>13 DEF x, stay, h
<1> QED BY <1>9, <1>10

-----------------------------------------------------------------------------
(* Rows                                                                    *)

(***************************************************************************)
(* In a chain an output has one creator and at most one spender, which is  *)
(* not below the creator.                                                  *)
(***************************************************************************)
LEMMA OutputsOfAChain ==
  ASSUME NEW p, Chain(p)
  PROVE  /\ p \subseteq Blocks
         /\ \A b \in p : Creates(b) \subseteq Outputs /\ Spends(b) \subseteq Outputs
         /\ \A b, c \in p : \A o \in Creates(b) : o \in Creates(c) => b = c
         /\ \A b, c \in p : \A o \in Spends(b) : o \in Spends(c) => b = c
         /\ \A b \in p : \A o \in Spends(b) :
              \E c \in p : o \in Creates(c) /\ Height[c] <= Height[b]
<1>1. p \subseteq Blocks
  BY DEF Chain
<1>2. /\ SpentIn(p) \subseteq CreatedIn(p)
      /\ \A b, c \in p : b # c => Creates(b) \cap Creates(c) = {} /\ Spends(b) \cap Spends(c) = {}
  BY <1>1, ChainsAreValid
<1>3. \A b \in p : Creates(b) \subseteq Outputs
  BY <1>1, ChainsAreValid
<1>4. \A b \in p : Spends(b) \subseteq Outputs
  BY <1>2, <1>3 DEF SpentIn, CreatedIn
<1>5. ASSUME NEW b \in p, NEW o \in Spends(b)
      PROVE  \E c \in p : o \in Creates(c) /\ Height[c] <= Height[b]
  <2> DEFINE q == Under(p, Height[b] + 1)
  <2>1. Height[b] \in Nat
    BY <1>1, BlockFacts
  <2>2. Chain(q) /\ b \in q /\ q \subseteq Blocks
    BY <2>1, UnderIsAChain DEF Under, Chain
  <2>3. SpentIn(q) \subseteq CreatedIn(q)
    BY <2>2, ChainsAreValid
  <2>4. o \in CreatedIn(q)
    BY <2>2, <2>3 DEF SpentIn
  <2>5. PICK c \in q : o \in Creates(c)
    BY <2>4 DEF CreatedIn
  <2>6. c \in p /\ Height[c] < Height[b] + 1 /\ Height[c] \in Nat
    BY <1>1, <2>5, BlockFacts DEF Under
  <2> QED BY <2>1, <2>5, <2>6
<1>6. ASSUME NEW b \in p, NEW c \in p, NEW o, o \in Creates(b) /\ o \in Creates(c) PROVE b = c
  BY <1>2, <1>6
<1>7. ASSUME NEW b \in p, NEW c \in p, NEW o, o \in Spends(b) /\ o \in Spends(c) PROVE b = c
  BY <1>2, <1>7
<1> QED BY <1>1, <1>3, <1>4, <1>5, <1>6, <1>7

\* On a chain every output has one block that makes it and at most one that spends it.
LEMMA WholeChain ==
  ASSUME NEW p, NEW x, Chain(p \cup x)
  PROVE  /\ \A b \in x : \A o \in Creates(b) : MakerOf(o, x) = b
         /\ \A b \in x : \A o \in Spends(b) : SpenderOf(o, x) = b
         /\ \A o \in CreatedIn(x) : MakerOf(o, x) \in x /\ o \in Creates(MakerOf(o, x))
         /\ \A o \in SpentIn(x) : SpenderOf(o, x) \in x /\ o \in Spends(SpenderOf(o, x))
<1>1. /\ \A b, c \in x : \A o \in Creates(b) : o \in Creates(c) => b = c
      /\ \A b, c \in x : \A o \in Spends(b) : o \in Spends(c) => b = c
  BY OutputsOfAChain
<1>2. ASSUME NEW o \in CreatedIn(x) PROVE MakerOf(o, x) \in x /\ o \in Creates(MakerOf(o, x))
  BY DEF CreatedIn, MakerOf
<1>3. ASSUME NEW o \in SpentIn(x) PROVE SpenderOf(o, x) \in x /\ o \in Spends(SpenderOf(o, x))
  BY DEF SpentIn, SpenderOf
<1>4. \A b \in x : \A o \in Creates(b) : o \in CreatedIn(x)
  BY DEF CreatedIn
<1>5. \A b \in x : \A o \in Spends(b) : o \in SpentIn(x)
  BY DEF SpentIn
<1> QED BY <1>1, <1>2, <1>3, <1>4, <1>5

\* The rows of two sets of blocks are those of the one and of the other.
LEMMA RowsOfUnion ==
  ASSUME NEW p, NEW q
  PROVE  /\ CreateRows(p \cup q) = CreateRows(p) \cup CreateRows(q)
         /\ SpendRows(p \cup q) = SpendRows(p) \cup SpendRows(q)
         /\ Credits(p \cup q) = Credits(p) \cup Credits(q)
         /\ Debits(p \cup q) = Debits(p) \cup Debits(q)
<1>1. CreateRows(p \cup q) = CreateRows(p) \cup CreateRows(q)
  BY DEF CreateRows
<1>2. SpendRows(p \cup q) = SpendRows(p) \cup SpendRows(q)
  BY DEF SpendRows
<1>3. Credits(p \cup q) = Credits(p) \cup Credits(q)
  BY DEF Credits
<1>4. Debits(p \cup q) = Debits(p) \cup Debits(q)
  BY DEF Debits
<1> QED BY <1>1, <1>2, <1>3, <1>4

\* The rows below a height are those of the blocks below it.
LEMMA RowsBelow ==
  ASSUME NEW p, NEW h
  PROVE  /\ Below(CreateRows(p), h) = CreateRows(Under(p, h))
         /\ Below(SpendRows(p), h) = SpendRows(Under(p, h))
         /\ Below(Credits(p), h) = Credits(Under(p, h))
         /\ Below(Debits(p), h) = Debits(Under(p, h))
<1>1. Below(CreateRows(p), h) = CreateRows(Under(p, h))
  BY DEF CreateRows, Below, Under
<1>2. Below(SpendRows(p), h) = SpendRows(Under(p, h))
  BY DEF SpendRows, Below, Under
<1>3. Below(Credits(p), h) = Credits(Under(p, h))
  BY DEF Credits, Below, Under
<1>4. Below(Debits(p), h) = Debits(Under(p, h))
  BY DEF Debits, Below, Under
<1> QED BY <1>1, <1>2, <1>3, <1>4

\* What a cut leaves of a chain with a window on top, and a lower cut of that.
LEMMA UnderSplits ==
  ASSUME NEW p, NEW q, NEW h \in Nat, p \cup q \subseteq Blocks
  PROVE  /\ (\A c \in q : h <= Height[c]) => Under(p \cup q, h) = Under(p, h)
         /\ (\A b \in p : Height[b] < h) => Under(p, h) = p
         /\ \A g \in Nat : g <= h => Under(Under(p, h), g) = Under(p, g)
<1>1. \A b \in p \cup q : Height[b] \in Nat
  BY BlockFacts
<1>2. ASSUME \A c \in q : h <= Height[c] PROVE Under(p \cup q, h) = Under(p, h)
  <2>1. \A c \in q : ~(Height[c] < h)
    BY <1>1, <1>2
  <2> QED BY <2>1 DEF Under
<1>3. (\A b \in p : Height[b] < h) => Under(p, h) = p
  BY DEF Under
<1>4. ASSUME NEW g \in Nat, g <= h PROVE Under(Under(p, h), g) = Under(p, g)
  <2>1. \A b \in p : Height[b] < g => Height[b] < h
    BY <1>1, <1>4
  <2> QED BY <2>1 DEF Under
<1> QED BY <1>2, <1>3, <1>4

\* What insertCoreFactTables inserts are the rows of the window.
LEMMA WindowRows ==
  ASSUME NEW p, NEW x, Chain(p \cup x)
  PROVE  /\ {[key |-> o, at |-> Height[MakerOf(o, x)]] : o \in CreatedIn(x)} = CreateRows(x)
         /\ {[key |-> o, at |-> Height[SpenderOf(o, x)]] : o \in SpentIn(x)} = SpendRows(x)
<1>1. /\ \A b \in x : \A o \in Creates(b) : MakerOf(o, x) = b
      /\ \A b \in x : \A o \in Spends(b) : SpenderOf(o, x) = b
      /\ \A o \in CreatedIn(x) : MakerOf(o, x) \in x /\ o \in Creates(MakerOf(o, x))
      /\ \A o \in SpentIn(x) : SpenderOf(o, x) \in x /\ o \in Spends(SpenderOf(o, x))
  BY WholeChain
<1>2. \A b \in x : /\ Height[b] \in 0 .. None - 1
                   /\ Creates(b) \subseteq Outputs /\ Spends(b) \subseteq Outputs
  BY OutputsOfAChain, NoneIsAbove
<1>3. ASSUME NEW o \in CreatedIn(x)
      PROVE  [key |-> o, at |-> Height[MakerOf(o, x)]] \in CreateRows(x)
  BY <1>1, <1>2 DEF CreateRows, CreateRow
<1>4. ASSUME NEW r \in CreateRows(x)
      PROVE  r.key \in CreatedIn(x) /\ r = [key |-> r.key, at |-> Height[MakerOf(r.key, x)]]
  <2>1. r \in CreateRow
    BY DEF CreateRows
  <2>2. PICK b \in x : r.key \in Creates(b) /\ r.at = Height[b]
    BY DEF CreateRows
  <2>3. r.key \in CreatedIn(x) /\ MakerOf(r.key, x) = b
    BY <1>1, <2>2 DEF CreatedIn
  <2> QED BY <2>1, <2>2, <2>3 DEF CreateRow
<1>5. ASSUME NEW o \in SpentIn(x)
      PROVE  [key |-> o, at |-> Height[SpenderOf(o, x)]] \in SpendRows(x)
  BY <1>1, <1>2 DEF SpendRows, CreateRow
<1>6. ASSUME NEW r \in SpendRows(x)
      PROVE  r.key \in SpentIn(x) /\ r = [key |-> r.key, at |-> Height[SpenderOf(r.key, x)]]
  <2>1. r \in CreateRow
    BY DEF SpendRows
  <2>2. PICK b \in x : r.key \in Spends(b) /\ r.at = Height[b]
    BY DEF SpendRows
  <2>3. r.key \in SpentIn(x) /\ SpenderOf(r.key, x) = b
    BY <1>1, <2>2 DEF SpentIn
  <2> QED BY <2>1, <2>2, <2>3 DEF CreateRow
<1>7. {[key |-> o, at |-> Height[MakerOf(o, x)]] : o \in CreatedIn(x)} = CreateRows(x)
  BY <1>3, <1>4
<1>8. {[key |-> o, at |-> Height[SpenderOf(o, x)]] : o \in SpentIn(x)} = SpendRows(x)
  BY <1>5, <1>6
<1> QED BY <1>7, <1>8

(***************************************************************************)
(* The movements of a window are those of its blocks; a debit may be left  *)
(* out, a credit not (coreSpendAddressMovement).                           *)
(***************************************************************************)
LEMMA WindowMovementRows ==
  ASSUME NEW p, Chain(p \cup pending)
  PROVE  Credits(pending) \subseteq WindowMovements
         /\ WindowMovements \subseteq Credits(pending) \cup Debits(pending)
<1>1. /\ \A b \in pending : \A o \in Creates(b) : MakerOf(o, pending) = b
      /\ \A o \in CreatedIn(pending) : MakerOf(o, pending) \in pending
                                       /\ o \in Creates(MakerOf(o, pending))
      /\ \A o \in SpentIn(pending) : SpenderOf(o, pending) \in pending
                                     /\ o \in Spends(SpenderOf(o, pending))
  BY WholeChain
<1>2. \A b \in pending : /\ Height[b] \in 0 .. None - 1
                         /\ Creates(b) \subseteq Outputs /\ Spends(b) \subseteq Outputs
  BY OutputsOfAChain, NoneIsAbove
<1>3. ASSUME NEW m \in Credits(pending) PROVE m \in WindowMovements
  <2>1. m \in Movement /\ m.dir = "credit" /\ Owned(m.key)
    BY DEF Credits
  <2>2. PICK b \in pending : m.key \in Creates(b) /\ m.at = Height[b]
    BY DEF Credits
  <2>3. m = [dir |-> "credit", key |-> m.key, at |-> Height[MakerOf(m.key, pending)]]
    BY <1>1, <2>1, <2>2 DEF Movement
  <2>4. m.key \in {o \in CreatedIn(pending) : Owned(o)}
    BY <2>1, <2>2 DEF CreatedIn
  <2> QED BY <2>3, <2>4 DEF WindowMovements
<1>4. ASSUME NEW o \in CreatedIn(pending), Owned(o)
      PROVE  [dir |-> "credit", key |-> o, at |-> Height[MakerOf(o, pending)]] \in Credits(pending)
  BY <1>1, <1>2, <1>4 DEF Credits, Movement
<1>5. ASSUME NEW o \in SpentIn(pending), Owned(o)
      PROVE  [dir |-> "debit", key |-> o, at |-> Height[SpenderOf(o, pending)]] \in Debits(pending)
  BY <1>1, <1>2, <1>5 DEF Debits, Movement
<1>6. WindowMovements \subseteq Credits(pending) \cup Debits(pending)
  BY <1>4, <1>5 DEF WindowMovements
<1> QED BY <1>3, <1>6

-----------------------------------------------------------------------------
(* What the queries return of the rows of a chain                          *)

OutputRow == [key : Outputs, at : Nat, spent : Nat \cup {NoHeight}]
OutputRows(p) ==
  {r \in OutputRow :
     /\ \E b \in p : r.key \in Creates(b) /\ r.at = Height[b]
     /\ r.spent = NoHeight => r.key \notin SpentIn(p)
     /\ r.spent # NoHeight => \E b \in p : r.key \in Spends(b) /\ r.spent = Height[b]}

\* What a rebuild reads from the facts are the outputs of the chain.
LEMMA HistoricalRows ==
  ASSUME NEW p, Chain(p), NEW h,
         {c \in creates : c.at <= h} = CreateRows(p), {s \in spends : s.at <= h} = SpendRows(p)
  PROVE  Historical(h) = OutputRows(p)
<1> DEFINE made == {c \in creates : c.at <= h}
           taken == {s \in spends : s.at <= h}
           top(c) == {s.at : s \in {s \in taken : s.key = c.key}}
           row(c) == [key |-> c.key, at |-> c.at,
                      spent |-> IF \E s \in taken : s.key = c.key THEN Max(top(c)) ELSE NoHeight]
<1>1. /\ p \subseteq Blocks
      /\ \A b \in p : Creates(b) \subseteq Outputs /\ Spends(b) \subseteq Outputs
      /\ \A b \in p : Height[b] \in Nat /\ Height[b] \in 0 .. None - 1
      /\ \A b, c \in p : \A o \in Creates(b) : o \in Creates(c) => b = c
      /\ \A b, c \in p : \A o \in Spends(b) : o \in Spends(c) => b = c
  BY OutputsOfAChain, NoneIsAbove
<1>2. \A c \in made : /\ c.key \in Outputs /\ c.at \in Nat /\ c = [key |-> c.key, at |-> c.at]
                      /\ \E b \in p : c.key \in Creates(b) /\ c.at = Height[b]
  <2> SUFFICES ASSUME NEW c \in CreateRows(p)
               PROVE  /\ c.key \in Outputs /\ c.at \in Nat /\ c = [key |-> c.key, at |-> c.at]
                      /\ \E b \in p : c.key \in Creates(b) /\ c.at = Height[b]
    OBVIOUS
  <2>1. c \in CreateRow /\ \E b \in p : c.key \in Creates(b) /\ c.at = Height[b]
    BY DEF CreateRows
  <2>2. c.key \in Outputs /\ c = [key |-> c.key, at |-> c.at]
    BY <2>1 DEF CreateRow
  <2> QED BY <1>1, <2>1, <2>2
<1>3. \A s \in taken : \E b \in p : s.key \in Spends(b) /\ s.at = Height[b]
  BY DEF SpendRows
<1>4. \A b \in p : \A o \in Spends(b) : [key |-> o, at |-> Height[b]] \in taken
  <2> SUFFICES ASSUME NEW b \in p, NEW o \in Spends(b)
               PROVE  [key |-> o, at |-> Height[b]] \in SpendRows(p)
    OBVIOUS
  <2> QED BY <1>1 DEF SpendRows, CreateRow
<1>5. \A b \in p : \A o \in Creates(b) : [key |-> o, at |-> Height[b]] \in made
  <2> SUFFICES ASSUME NEW b \in p, NEW o \in Creates(b)
               PROVE  [key |-> o, at |-> Height[b]] \in CreateRows(p)
    OBVIOUS
  <2> QED BY <1>1 DEF CreateRows, CreateRow
<1>6. Historical(h) = {row(c) : c \in {c \in made : \A d \in made : d.key = c.key => d.at <= c.at}}
  BY DEF Historical
<1> HIDE DEF made, taken
<1>7. \A c \in made : \A d \in made : d.key = c.key => d.at <= c.at
  <2> SUFFICES ASSUME NEW c \in made, NEW d \in made, d.key = c.key PROVE d.at <= c.at
    OBVIOUS
  <2>1. d.at = c.at /\ c.at \in Nat
    BY <1>1, <1>2
  <2> QED BY <2>1
<1>8. Historical(h) = {row(c) : c \in made}
  BY <1>6, <1>7
<1>9. ASSUME NEW c \in made, NEW b \in p, c.key \in Spends(b)
      PROVE  row(c).spent = Height[b] /\ row(c).spent # NoHeight
  <2>1. [key |-> c.key, at |-> Height[b]] \in taken
    BY <1>4, <1>9
  <2>2. \E s \in taken : s.key = c.key
    BY <2>1
  <2>3. \A s \in taken : s.key = c.key => s.at = Height[b]
    BY <1>1, <1>3, <1>9
  <2>4. top(c) = {Height[b]}
    <3>1. Height[b] \in top(c)
      <4> DEFINE s == [key |-> c.key, at |-> Height[b]]
      <4>1. s \in taken /\ s.key = c.key /\ s.at = Height[b]
        BY <2>1
      <4> HIDE DEF s
      <4> QED BY <4>1
    <3>2. \A v \in top(c) : v = Height[b]
      BY <2>3
    <3> HIDE DEF top
    <3> QED BY <3>1, <3>2
  <2>5. Max({Height[b]}) = Height[b]
    <3>1. \E x \in {Height[b]} : \A y \in {Height[b]} : x >= y
      BY <1>1
    <3> QED BY <3>1 DEF Max
  <2>6. Height[b] # NoHeight
    BY <1>1 DEF NoHeight
  <2> QED BY <2>2, <2>4, <2>5, <2>6
<1>10. ASSUME NEW c \in made, c.key \notin SpentIn(p)
       PROVE  row(c).spent = NoHeight
  <2>1. \A s \in taken : s.key # c.key
    BY <1>3, <1>10 DEF SpentIn
  <2> QED BY <2>1
<1>11. \A c \in made : row(c).key = c.key /\ row(c).at = c.at
                       /\ row(c) = [key |-> c.key, at |-> c.at, spent |-> row(c).spent]
  OBVIOUS
<1>12. \A o : o \in SpentIn(p) <=> \E b \in p : o \in Spends(b)
  BY DEF SpentIn
<1> HIDE DEF row
<1>13. ASSUME NEW c \in made PROVE row(c) \in OutputRows(p)
  <2>1. c.key \in Outputs /\ c.at \in Nat /\ \E b \in p : c.key \in Creates(b) /\ c.at = Height[b]
    BY <1>2
  <2>2. CASE c.key \in SpentIn(p)
    <3>1. PICK b \in p : c.key \in Spends(b)
      BY <1>12, <2>2
    <3>2. row(c).spent = Height[b] /\ row(c).spent # NoHeight /\ Height[b] \in Nat
      BY <1>1, <1>9, <3>1
    <3>3. row(c) \in OutputRow
      BY <1>11, <2>1, <3>2 DEF OutputRow
    <3> QED BY <1>11, <2>1, <3>1, <3>2, <3>3 DEF OutputRows
  <2>3. CASE c.key \notin SpentIn(p)
    <3>1. row(c).spent = NoHeight
      BY <1>10, <2>3
    <3>2. row(c) \in OutputRow
      BY <1>11, <2>1, <3>1 DEF OutputRow
    <3> QED BY <1>11, <2>1, <2>3, <3>1, <3>2 DEF OutputRows
  <2> QED BY <2>2, <2>3
<1>14. ASSUME NEW r \in OutputRows(p) PROVE \E c \in made : row(c) = r
  <2>1. /\ r \in OutputRow
        /\ r.spent = NoHeight => r.key \notin SpentIn(p)
        /\ r.spent # NoHeight => \E b \in p : r.key \in Spends(b) /\ r.spent = Height[b]
    BY DEF OutputRows
  <2>2. PICK b \in p : r.key \in Creates(b) /\ r.at = Height[b]
    BY DEF OutputRows
  <2> DEFINE c == [key |-> r.key, at |-> Height[b]]
  <2>3. c \in made /\ c.key = r.key /\ c.at = r.at
    BY <1>5, <2>2
  <2> HIDE DEF c
  <2>4. row(c).spent = r.spent
    <3>1. CASE r.spent = NoHeight
      BY <1>10, <2>1, <2>3, <3>1
    <3>2. CASE r.spent # NoHeight
      BY <1>9, <2>1, <2>3, <3>2
    <3> QED BY <3>1, <3>2
  <2>5. r = [key |-> r.key, at |-> r.at, spent |-> r.spent]
    BY <2>1 DEF OutputRow
  <2> QED BY <1>11, <2>3, <2>4, <2>5
<1> QED BY <1>8, <1>13, <1>14

\* The unspent among the outputs of a chain are those created and not spent.
LEMMA LiveOutputs ==
  ASSUME NEW p, Chain(p)
  PROVE  LiveKeys(OutputRows(p)) = CreatedIn(p) \ SpentIn(p)
<1>1. /\ \A b \in p : Creates(b) \subseteq Outputs /\ Height[b] \in Nat
  BY OutputsOfAChain, NoneIsAbove
<1>2. ASSUME NEW o \in LiveKeys(OutputRows(p)) PROVE o \in CreatedIn(p) \ SpentIn(p)
  BY DEF LiveKeys, OutputRows, CreatedIn
<1>3. ASSUME NEW o \in CreatedIn(p) \ SpentIn(p) PROVE o \in LiveKeys(OutputRows(p))
  <2>1. PICK b \in p : o \in Creates(b)
    BY DEF CreatedIn
  <2> DEFINE r == [key |-> o, at |-> Height[b], spent |-> NoHeight]
  <2>2. r \in OutputRow /\ r.key = o /\ r.at = Height[b] /\ r.spent = NoHeight
    BY <1>1, <2>1 DEF OutputRow
  <2> HIDE DEF r
  <2>3. r \in OutputRows(p)
    BY <2>1, <2>2 DEF OutputRows
  <2> QED BY <2>2, <2>3 DEF LiveKeys
<1> QED BY <1>2, <1>3

(***************************************************************************)
(* Of every output with rows, readers find the newest, and it says what    *)
(* the blocks say.                                                         *)
(***************************************************************************)
LEMMA NewestRowIsRight ==
  ASSUME NEW rows, NEW p, Chain(p), \A r \in rows : SoundRow(r, rows, p)
  PROVE  /\ \A r \in rows : \E q \in Newest(rows) : q.key = r.key
         /\ \A r \in Newest(rows) :
              [key |-> r.key, at |-> r.at, spent |-> r.spent] \in OutputRows(p)
<1>1. /\ p \subseteq Blocks /\ \A b \in p : Height[b] \in Nat
      /\ \A b, c \in p : \A o \in Spends(b) : o \in Spends(c) => b = c
  BY OutputsOfAChain, NoneIsAbove
<1>2. PICK n \in Nat : \A b \in Blocks : Height[b] <= n
  BY HeightsAreBounded
<1>3. \A r \in rows : r \in CurrentRow
  BY DEF SoundRow
<1>4. \A r \in rows : r.version \in Nat /\ r.version <= 2 * n + 1
  <2> SUFFICES ASSUME NEW r \in rows PROVE r.version \in Nat /\ r.version <= 2 * n + 1
    OBVIOUS
  <2>1. r.version \in Nat
    BY <1>3 DEF CurrentRow
  <2>2. CASE r.spent = NoHeight
    <3>1. PICK b \in p : r.version <= 2 * Height[b]
      BY <2>2 DEF SoundRow
    <3>2. Height[b] \in Nat /\ Height[b] <= n
      BY <1>1, <1>2
    <3> QED BY <2>1, <3>1, <3>2
  <2>3. CASE r.spent # NoHeight
    <3>1. PICK b \in p : r.version = 2 * Height[b] + 1
      BY <2>3 DEF SoundRow
    <3>2. Height[b] \in Nat /\ Height[b] <= n
      BY <1>1, <1>2
    <3> QED BY <2>1, <3>1, <3>2
  <2> QED BY <2>2, <2>3
<1>5. ASSUME NEW r \in rows PROVE \E q \in Newest(rows) : q.key = r.key
  <2> DEFINE V == {q.version : q \in {q \in rows : q.key = r.key}}
  <2>1. PICK m \in V : \A v \in V : v <= m
    <3>1. V \subseteq Int /\ r.version \in V /\ \A v \in V : v <= 2 * n + 1
      BY <1>4
    <3>2. 2 * n + 1 \in Int
      OBVIOUS
    <3> HIDE DEF V
    <3> QED BY <3>1, <3>2, GreatestOf
  <2>2. PICK q \in rows : q.key = r.key /\ q.version = m
    BY <2>1
  <2>3. \A s \in rows : s.key = q.key => s.version <= q.version
    BY <2>1, <2>2
  <2> QED BY <2>2, <2>3 DEF Newest
<1>6. ASSUME NEW r \in Newest(rows)
      PROVE  [key |-> r.key, at |-> r.at, spent |-> r.spent] \in OutputRows(p)
  <2>1. r \in rows /\ \A q \in rows : q.key = r.key => q.version <= r.version
    BY DEF Newest
  <2>2. SoundRow(r, rows, p) /\ r \in CurrentRow
    BY <1>3, <2>1
  <2>3. r.spent = NoHeight => r.key \notin SpentIn(p)
    <3> SUFFICES ASSUME r.spent = NoHeight, NEW b \in p, r.key \in Spends(b) PROVE FALSE
      BY DEF SpentIn
    <3>1. r.version < 2 * Height[b] + 1
      BY <2>2 DEF SoundRow
    <3>2. PICK q \in rows : q.key = r.key /\ q.spent = Height[b]
      BY <2>2 DEF SoundRow
    <3>3. q.spent # NoHeight
      BY <1>1, <3>2 DEF NoHeight
    <3>4. PICK c \in p : q.key \in Spends(c) /\ q.version = 2 * Height[c] + 1
      BY <3>2, <3>3 DEF SoundRow
    <3>5. c = b
      BY <1>1, <3>2, <3>4
    <3>6. q.version <= r.version /\ r.version \in Nat /\ Height[b] \in Nat
      BY <1>1, <1>4, <2>1, <3>2
    <3> QED BY <3>1, <3>4, <3>5, <3>6
  <2>4. [key |-> r.key, at |-> r.at, spent |-> r.spent] \in OutputRow
    BY <2>2 DEF OutputRow, CurrentRow
  <2>5. /\ \E b \in p : r.key \in Creates(b) /\ r.at = Height[b]
        /\ r.spent # NoHeight => \E b \in p : r.key \in Spends(b) /\ r.spent = Height[b]
    BY <2>2 DEF SoundRow
  <2> DEFINE s == [key |-> r.key, at |-> r.at, spent |-> r.spent]
  <2>6. s.key = r.key /\ s.at = r.at /\ s.spent = r.spent /\ s \in OutputRow
    BY <2>4
  <2> HIDE DEF s
  <2>7. s \in OutputRows(p)
    BY <2>3, <2>5, <2>6 DEF OutputRows
  <2> QED BY <2>7 DEF s
<1> QED BY <1>5, <1>6

-----------------------------------------------------------------------------
(* The current rows                                                        *)

(***************************************************************************)
(* Rows of more outputs leave fewer absent.                                *)
(***************************************************************************)
LEMMA FewerAreAbsent ==
  ASSUME NEW rows, NEW more, NEW p, NEW q, NEW n \in Nat,
         Absent(more, q) \subseteq Absent(rows, p),
         IsFiniteSet(Absent(rows, p)), Cardinality(Absent(rows, p)) <= n
  PROVE  IsFiniteSet(Absent(more, q)) /\ Cardinality(Absent(more, q)) <= n
<1>1. /\ IsFiniteSet(Absent(more, q))
      /\ Cardinality(Absent(more, q)) <= Cardinality(Absent(rows, p))
  BY FS_Subset
<1>2. Cardinality(Absent(more, q)) \in Nat /\ Cardinality(Absent(rows, p)) \in Nat
  BY <1>1, FS_CardinalityType
<1> QED BY <1>1, <1>2

(***************************************************************************)
(* LoseRow: all rows of one output disappear.                              *)
(***************************************************************************)
LEMMA LostRowsAreCounted ==
  ASSUME NEW rows, NEW p, NEW n \in Nat, Sound(rows, p, n), NEW k
  PROVE  Sound({q \in rows : q.key # k}, p, n + 1)
<1> DEFINE left == {q \in rows : q.key # k}
<1>1. ASSUME NEW r \in left PROVE SoundRow(r, left, p)
  <2>1. r \in rows /\ r.key # k /\ SoundRow(r, rows, p)
    BY DEF Sound
  <2>2. ASSUME NEW b \in p, r.key \in Spends(b)
        PROVE  \E q \in left : q.key = r.key /\ q.spent = Height[b]
    <3>1. PICK q \in rows : q.key = r.key /\ q.spent = Height[b]
      BY <2>1, <2>2 DEF SoundRow
    <3>2. q \in left
      BY <2>1, <3>1
    <3> QED BY <3>1, <3>2
  <2> HIDE DEF left
  <2> QED BY <2>1, <2>2 DEF SoundRow
<1>2. Absent(left, p) \subseteq Absent(rows, p) \cup {k}
  <2> SUFFICES ASSUME NEW o \in Absent(left, p), o # k PROVE \A r \in rows : r.key # o
    BY DEF Absent
  <2>1. \A r \in left : r.key # o
    BY DEF Absent
  <2> QED BY <2>1
<1>3. IsFiniteSet(Absent(rows, p)) /\ Cardinality(Absent(rows, p)) <= n
  BY DEF Sound
<1>4. /\ IsFiniteSet(Absent(rows, p) \cup {k})
      /\ Cardinality(Absent(rows, p) \cup {k}) <= Cardinality(Absent(rows, p)) + 1
  <2>1. Cardinality(Absent(rows, p) \cup {k})
          = IF k \in Absent(rows, p) THEN Cardinality(Absent(rows, p))
            ELSE Cardinality(Absent(rows, p)) + 1
    BY <1>3, FS_AddElement
  <2>2. Cardinality(Absent(rows, p)) \in Nat
    BY <1>3, FS_CardinalityType
  <2> QED BY <1>3, <2>1, <2>2, FS_AddElement
<1>5. /\ IsFiniteSet(Absent(left, p))
      /\ Cardinality(Absent(left, p)) <= Cardinality(Absent(rows, p) \cup {k})
  BY <1>2, <1>4, FS_Subset
<1>6. /\ Cardinality(Absent(left, p)) \in Nat /\ Cardinality(Absent(rows, p)) \in Nat
      /\ Cardinality(Absent(rows, p) \cup {k}) \in Nat
  BY <1>3, <1>4, <1>5, FS_CardinalityType
<1>7. Cardinality(Absent(left, p)) <= n + 1
  BY <1>3, <1>4, <1>5, <1>6
<1> HIDE DEF left
<1>8. Sound(left, p, n + 1)
  BY <1>1, <1>5, <1>7 DEF Sound
<1> QED BY <1>8 DEF left

(***************************************************************************)
(* Rows of unspent outputs, of whatever version up to the blocks', go with *)
(* sound rows.                                                             *)
(***************************************************************************)
LEMMA UnspentRowsAreSound ==
  ASSUME NEW p, NEW rows, NEW new,
         \A r \in rows : SoundRow(r, rows, p),
         \A r \in new : /\ r \in CurrentRow /\ r.spent = NoHeight /\ r.key \notin SpentIn(p)
                        /\ \E b \in p : r.key \in Creates(b) /\ r.at = Height[b]
                        /\ \E b \in p : r.version <= 2 * Height[b]
  PROVE  \A r \in rows \cup new : SoundRow(r, rows \cup new, p)
<1>1. ASSUME NEW r \in rows PROVE SoundRow(r, rows \cup new, p)
  <2>1. SoundRow(r, rows, p)
    OBVIOUS
  <2>2. \A b \in p : r.key \in Spends(b) => \E q \in rows \cup new : q.key = r.key /\ q.spent = Height[b]
    BY <2>1 DEF SoundRow
  <2> QED BY <2>1, <2>2 DEF SoundRow
<1>2. ASSUME NEW r \in new PROVE SoundRow(r, rows \cup new, p)
  <2>1. /\ r \in CurrentRow /\ r.spent = NoHeight
        /\ \E b \in p : r.key \in Creates(b) /\ r.at = Height[b]
        /\ \E b \in p : r.version <= 2 * Height[b]
    OBVIOUS
  <2>2. \A b \in p : r.key \notin Spends(b)
    BY DEF SpentIn
  <2> QED BY <2>1, <2>2 DEF SoundRow
<1> QED BY <1>1, <1>2

(***************************************************************************)
(* insertCoreCurrentUtxoRanges: the rebuilt rows are those of the blocks.  *)
(***************************************************************************)
LEMMA RebuiltRowsAreSound ==
  ASSUME NEW p, Chain(p), NEW h \in Nat, \E b \in p : Height[b] = h,
         Historical(h) = OutputRows(p), NEW n \in Nat
  PROVE  Sound(UnspentRows(h), p, n)
<1> DEFINE new == UnspentRows(h)
<1>1. ASSUME NEW r \in new
      PROVE  /\ r \in CurrentRow /\ r.spent = NoHeight /\ r.key \notin SpentIn(p)
             /\ \E b \in p : r.key \in Creates(b) /\ r.at = Height[b]
             /\ \E b \in p : r.version <= 2 * Height[b]
  <2>1. PICK s \in OutputRows(p) : /\ s.spent = NoHeight
          /\ r = [key |-> s.key, at |-> s.at, spent |-> NoHeight, version |-> h]
    BY DEF UnspentRows
  <2>2. /\ s \in OutputRow /\ s.key \notin SpentIn(p)
        /\ \E b \in p : s.key \in Creates(b) /\ s.at = Height[b]
    BY <2>1 DEF OutputRows
  <2>3. s.key \in Outputs /\ s.at \in Nat
    BY <2>2 DEF OutputRow
  <2>4. r \in CurrentRow /\ r.key = s.key /\ r.at = s.at /\ r.spent = NoHeight /\ r.version = h
    BY <2>1, <2>3 DEF CurrentRow
  <2>5. h <= 2 * h
    OBVIOUS
  <2> QED BY <2>2, <2>4, <2>5
<1>2. Absent(new, p) = {}
  <2> SUFFICES ASSUME NEW o \in CreatedIn(p) \ SpentIn(p), \A r \in new : r.key # o PROVE FALSE
    BY DEF Absent
  <2>1. o \in LiveKeys(OutputRows(p))
    BY LiveOutputs
  <2>2. PICK s \in Historical(h) : s.spent = NoHeight /\ s.key = o
    BY <2>1 DEF LiveKeys
  <2>3. [key |-> s.key, at |-> s.at, spent |-> NoHeight, version |-> h] \in new
    BY <2>2 DEF UnspentRows
  <2> QED BY <2>2, <2>3
<1> HIDE DEF new
<1>3. \A r \in {} \cup new : SoundRow(r, {} \cup new, p)
  <2>1. \A r \in {} : SoundRow(r, {}, p)
    OBVIOUS
  <2> QED BY <1>1, <2>1, UnspentRowsAreSound
<1>4. {} \cup new = new
  OBVIOUS
<1>5. \A r \in new : SoundRow(r, new, p)
  BY <1>3, <1>4
<1>6. IsFiniteSet(Absent(new, p)) /\ Cardinality(Absent(new, p)) <= n
  BY <1>2, FS_EmptySet
<1>7. Sound(new, p, n)
  BY <1>5, <1>6 DEF Sound
<1> QED BY <1>7 DEF new

(***************************************************************************)
(* repairMissingCoreCurrentPrevouts: the rows it writes say what the facts *)
(* say.                                                                    *)
(***************************************************************************)
LEMMA RepairedRowsAreSound ==
  ASSUME NEW p, Chain(p), NEW h, Historical(h) = OutputRows(p), NEW n \in Nat, Sound(current, p, n),
         NEW rows, rows \subseteq Historical(h), \A r \in rows : r.spent = NoHeight
  PROVE  Sound(current \cup
           {[key |-> r.key, at |-> r.at, spent |-> NoHeight, version |-> 2 * r.at] : r \in rows}, p, n)
<1> DEFINE new == {[key |-> r.key, at |-> r.at, spent |-> NoHeight, version |-> 2 * r.at] : r \in rows}
<1>1. ASSUME NEW r \in new
      PROVE  /\ r \in CurrentRow /\ r.spent = NoHeight /\ r.key \notin SpentIn(p)
             /\ \E b \in p : r.key \in Creates(b) /\ r.at = Height[b]
             /\ \E b \in p : r.version <= 2 * Height[b]
  <2>1. PICK s \in rows :
          r = [key |-> s.key, at |-> s.at, spent |-> NoHeight, version |-> 2 * s.at]
    OBVIOUS
  <2>2. s \in OutputRows(p) /\ s.spent = NoHeight
    BY <2>1
  <2>3. s \in OutputRow /\ s.key \notin SpentIn(p)
    BY <2>2 DEF OutputRows
  <2>4. PICK b \in p : s.key \in Creates(b) /\ s.at = Height[b]
    BY <2>2 DEF OutputRows
  <2>5. s.key \in Outputs /\ s.at \in Nat
    BY <2>3 DEF OutputRow
  <2>6. 2 * s.at \in Nat /\ 2 * s.at <= 2 * Height[b]
    BY <2>4, <2>5
  <2>7. /\ r \in CurrentRow /\ r.key = s.key /\ r.at = s.at /\ r.spent = NoHeight
        /\ r.version = 2 * s.at
    BY <2>1, <2>5, <2>6 DEF CurrentRow
  <2> QED BY <2>3, <2>4, <2>6, <2>7
<1> HIDE DEF new
<1>2. \A r \in current : SoundRow(r, current, p)
  BY DEF Sound
<1>3. \A r \in current \cup new : SoundRow(r, current \cup new, p)
  BY <1>1, <1>2, UnspentRowsAreSound
<1>4. Absent(current \cup new, p) \subseteq Absent(current, p)
  BY DEF Absent
<1>5. IsFiniteSet(Absent(current, p)) /\ Cardinality(Absent(current, p)) <= n
  BY DEF Sound
<1>6. IsFiniteSet(Absent(current \cup new, p)) /\ Cardinality(Absent(current \cup new, p)) <= n
  BY <1>4, <1>5, FewerAreAbsent
<1>7. Sound(current \cup new, p, n)
  BY <1>3, <1>6 DEF Sound
<1> QED BY <1>7 DEF new

(***************************************************************************)
(* insertCoreCurrentStateWindow: with the rows of a window, read and made  *)
(* as the code does, the current rows are those of the longer chain.       *)
(***************************************************************************)
LEMMA WindowRowsAreSound ==
  ASSUME NEW p, NEW n \in Nat, Chain(p), Chain(p \cup pending), Sound(current, p, n),
         \A b \in p, c \in pending : Height[b] < Height[c],
         prevouts = {r \in Newest(current) : r.key \in External}, Missing = {}
  PROVE  Sound(current \cup
           {[key |-> r.key, at |-> r.at, spent |-> r.spent, version |-> UtxoVersion(r)] :
              r \in NextOutputs(prevouts)}, p \cup pending, n)
<1> DEFINE x == pending
           P == p \cup x
           made == {[key |-> o, at |-> Height[MakerOf(o, x)]] : o \in CreatedIn(x)}
           old == {[key |-> r.key, at |-> r.at] : r \in {r \in prevouts : r.key \in External}}
           spentAt(k) == IF k \in SpentIn(x) THEN Height[SpenderOf(k, x)] ELSE NoHeight
           new == {[key |-> r.key, at |-> r.at, spent |-> r.spent, version |-> UtxoVersion(r)] :
                     r \in NextOutputs(prevouts)}
           rows == current \cup new
<1>1. /\ P \subseteq Blocks /\ \A b \in P : Height[b] \in Nat
      /\ \A b \in P : Creates(b) \subseteq Outputs /\ Spends(b) \subseteq Outputs
      /\ \A b, c \in P : \A o \in Creates(b) : o \in Creates(c) => b = c
      /\ \A b, c \in P : \A o \in Spends(b) : o \in Spends(c) => b = c
      /\ \A b \in P : \A o \in Spends(b) : \E c \in P : o \in Creates(c) /\ Height[c] <= Height[b]
  BY OutputsOfAChain, NoneIsAbove
<1>2. /\ \A o \in CreatedIn(x) : MakerOf(o, x) \in x /\ o \in Creates(MakerOf(o, x))
      /\ \A o \in SpentIn(x) : SpenderOf(o, x) \in x /\ o \in Spends(SpenderOf(o, x))
      /\ \A b \in x : \A o \in Spends(b) : SpenderOf(o, x) = b
  BY WholeChain
<1>3. \A r \in current : SoundRow(r, current, p)
  BY DEF Sound
<1>4. /\ \A r \in current : \E q \in Newest(current) : q.key = r.key
      /\ \A r \in Newest(current) : r \in current
  BY <1>3, NewestRowIsRight DEF Newest
<1>5. NextOutputs(prevouts) = {[key |-> r.key, at |-> r.at, spent |-> spentAt(r.key)] : r \in made \cup old}
  BY DEF NextOutputs
<1>6. \A k : k \in CreatedIn(x) <=> \E b \in x : k \in Creates(b)
  BY DEF CreatedIn
<1>7. \A k : k \in SpentIn(x) <=> \E b \in x : k \in Spends(b)
  BY DEF SpentIn
<1>8. \A k : k \in SpentIn(x) => spentAt(k) = Height[SpenderOf(k, x)] /\ spentAt(k) # NoHeight
                                 /\ SpenderOf(k, x) \in x /\ k \in Spends(SpenderOf(k, x))
                                 /\ spentAt(k) \in Nat
  BY <1>1, <1>2 DEF NoHeight
<1>9. \A k : k \notin SpentIn(x) => spentAt(k) = NoHeight
  OBVIOUS
<1> DEFINE made2(s) == [key |-> s.key, at |-> s.at, spent |-> spentAt(s.key),
                        version |-> IF spentAt(s.key) = NoHeight THEN 2 * s.at
                                    ELSE 2 * spentAt(s.key) + 1]
<1>10. new = {made2(s) : s \in made \cup old}
  <2> DEFINE S == made \cup old
             G(s) == [key |-> s.key, at |-> s.at, spent |-> spentAt(s.key)]
             F(r) == [key |-> r.key, at |-> r.at, spent |-> r.spent, version |-> UtxoVersion(r)]
  <2>1. \A s : F(G(s)) = made2(s)
    BY DEF UtxoVersion
  <2>2. NextOutputs(prevouts) = {G(s) : s \in S} /\ new = {F(r) : r \in NextOutputs(prevouts)}
    BY <1>5
  <2> HIDE DEF S, G, F, new, made2
  <2>3. new = {made2(s) : s \in S}
    BY <2>1, <2>2
  <2> QED BY <2>3 DEF S
<1>11. ASSUME NEW s \in made \cup old
       PROVE  /\ s.key \in Outputs /\ s.at \in Nat
              /\ \E b \in P : s.key \in Creates(b) /\ s.at = Height[b]
              /\ s.key \in CreatedIn(x) \/ s.key \in SpentIn(x)
              /\ s.key \notin SpentIn(x) => \E b \in x : s.key \in Creates(b) /\ s.at = Height[b]
  <2>1. CASE s \in made
    <3>1. PICK o \in CreatedIn(x) : s = [key |-> o, at |-> Height[MakerOf(o, x)]]
      BY <2>1
    <3>2. MakerOf(o, x) \in x /\ o \in Creates(MakerOf(o, x))
      BY <1>2
    <3> DEFINE m == MakerOf(o, x)
    <3>3. m \in P /\ s.key = o /\ s.at = Height[m] /\ Height[m] \in Nat /\ o \in Outputs
      BY <1>1, <3>1, <3>2
    <3>4. s.key \in Creates(m) /\ m \in x
      BY <3>2, <3>3
    <3> HIDE DEF m
    <3> QED BY <3>3, <3>4
  <2>2. CASE s \in old
    <3>1. PICK r \in prevouts : r.key \in External /\ s = [key |-> r.key, at |-> r.at]
      BY <2>2
    <3>2. r \in current /\ r.key \in SpentIn(x)
      BY <1>4, <3>1 DEF External
    <3>3. SoundRow(r, current, p)
      BY <1>3, <3>2
    <3>4. r \in CurrentRow /\ \E b \in p : r.key \in Creates(b) /\ r.at = Height[b]
      BY <3>3 DEF SoundRow
    <3>5. r.key \in Outputs /\ r.at \in Nat /\ s.key = r.key /\ s.at = r.at
      BY <3>1, <3>4 DEF CurrentRow
    <3> QED BY <3>2, <3>4, <3>5
  <2> QED BY <2>1, <2>2
<1>12. \A o \in CreatedIn(x) : \E s \in made : s.key = o
  <2> SUFFICES ASSUME NEW o \in CreatedIn(x) PROVE \E s \in made : s.key = o
    OBVIOUS
  <2>1. [key |-> o, at |-> Height[MakerOf(o, x)]] \in made
    OBVIOUS
  <2> QED BY <2>1
<1>13. \A o \in External : \E s \in old : s.key = o
  <2> SUFFICES ASSUME NEW o \in External PROVE \E s \in old : s.key = o
    OBVIOUS
  <2>1. PICK r \in current : r.key = o
    BY DEF Missing
  <2>2. PICK q \in Newest(current) : q.key = o
    BY <1>4, <2>1
  <2>3. q \in prevouts
    BY <2>2
  <2>4. [key |-> q.key, at |-> q.at] \in old
    BY <2>2, <2>3
  <2> QED BY <2>2, <2>4
<1>14. \A k : k \in SpentIn(x) => \E s \in made \cup old : s.key = k
  BY <1>12, <1>13 DEF External
<1>15. \A s : made2(s).key = s.key /\ made2(s).spent = spentAt(s.key) /\ made2(s).at = s.at
  OBVIOUS
<1>16. \A s : /\ spentAt(s.key) = NoHeight => made2(s).version = 2 * s.at
              /\ spentAt(s.key) # NoHeight => made2(s).version = 2 * spentAt(s.key) + 1
  OBVIOUS
<1>17. \A s : s.key \in Outputs /\ s.at \in Nat /\ spentAt(s.key) \in Nat \cup {NoHeight} =>
              made2(s) \in CurrentRow
  <2> SUFFICES ASSUME NEW s, s.key \in Outputs, s.at \in Nat, spentAt(s.key) \in Nat \cup {NoHeight}
               PROVE  made2(s) \in CurrentRow
    OBVIOUS
  <2> DEFINE v == IF spentAt(s.key) = NoHeight THEN 2 * s.at ELSE 2 * spentAt(s.key) + 1
  <2>1. v \in Nat
    <3> HIDE DEF spentAt
    <3> QED OBVIOUS
  <2>2. made2(s) = [key |-> s.key, at |-> s.at, spent |-> spentAt(s.key), version |-> v]
    OBVIOUS
  <2> HIDE DEF made2, spentAt, v
  <2> QED BY <2>1, <2>2 DEF CurrentRow
<1> HIDE DEF made, old, spentAt, new, made2
<1>18. \A k : k \in SpentIn(x) => \E q \in new : q.key = k /\ q.spent = spentAt(k)
  <2> SUFFICES ASSUME NEW k \in SpentIn(x) PROVE \E q \in new : q.key = k /\ q.spent = spentAt(k)
    OBVIOUS
  <2>1. PICK s \in made \cup old : s.key = k
    BY <1>14
  <2>2. made2(s) \in new /\ made2(s).key = k /\ made2(s).spent = spentAt(k)
    BY <1>10, <1>15, <2>1
  <2> QED BY <2>2
<1>19. ASSUME NEW r \in current PROVE SoundRow(r, rows, P)
  <2>1. /\ SoundRow(r, current, p) /\ r \in CurrentRow
    BY <1>3 DEF SoundRow
  <2>2. /\ \E b \in P : r.key \in Creates(b) /\ r.at = Height[b]
        /\ r.spent = NoHeight => \E b \in P : r.version <= 2 * Height[b]
        /\ r.spent # NoHeight => \E b \in P : /\ r.key \in Spends(b) /\ r.spent = Height[b]
                                              /\ r.version = 2 * Height[b] + 1
    BY <2>1 DEF SoundRow
  <2>3. ASSUME NEW b \in P, r.key \in Spends(b)
        PROVE  /\ r.spent = NoHeight => r.version < 2 * Height[b] + 1
               /\ \E q \in rows : q.key = r.key /\ q.spent = Height[b]
    <3>1. CASE b \in p
      BY <2>1, <2>3, <3>1 DEF SoundRow
    <3>2. CASE b \in x
      <4>1. r.key \in SpentIn(x) /\ SpenderOf(r.key, x) = b
        BY <1>2, <1>7, <2>3, <3>2
      <4>2. spentAt(r.key) = Height[b]
        BY <1>8, <4>1
      <4>3. \E q \in new : q.key = r.key /\ q.spent = Height[b]
        BY <1>18, <4>1, <4>2
      <4>4. ASSUME r.spent = NoHeight PROVE r.version < 2 * Height[b] + 1
        <5>1. PICK c \in p : r.version <= 2 * Height[c]
          BY <2>1, <4>4 DEF SoundRow
        <5>2. Height[c] < Height[b] /\ Height[c] \in Nat /\ Height[b] \in Nat /\ r.version \in Nat
          BY <1>1, <2>1, <3>2 DEF CurrentRow
        <5> QED BY <5>1, <5>2
      <4> QED BY <4>3, <4>4
    <3> QED BY <3>1, <3>2
  <2> HIDE DEF rows, P
  <2> QED BY <2>1, <2>2, <2>3 DEF SoundRow
<1>20. ASSUME NEW r \in new PROVE SoundRow(r, rows, P)
  <2>1. PICK s \in made \cup old : r = made2(s)
    BY <1>10
  <2>2. /\ s.key \in Outputs /\ s.at \in Nat
        /\ \E b \in P : s.key \in Creates(b) /\ s.at = Height[b]
        /\ s.key \in CreatedIn(x) \/ s.key \in SpentIn(x)
        /\ s.key \notin SpentIn(x) => \E b \in x : s.key \in Creates(b) /\ s.at = Height[b]
    BY <1>11
  <2>3. r.key = s.key /\ r.at = s.at /\ r.spent = spentAt(s.key)
    BY <1>15, <2>1
  <2>4. CASE s.key \in SpentIn(x)
    <3>1. PICK c \in x : /\ c = SpenderOf(s.key, x) /\ s.key \in Spends(c) /\ r.spent = Height[c]
                         /\ r.spent # NoHeight /\ r.spent \in Nat
      BY <1>8, <2>3, <2>4
    <3>2. r.version = 2 * Height[c] + 1
      BY <1>16, <2>1, <2>3, <3>1
    <3>3. r \in CurrentRow
      BY <1>17, <2>1, <2>2, <2>3, <3>1
    <3>4. \A b \in P : r.key \in Spends(b) => b = c
      BY <1>1, <2>3, <3>1
    <3>5. r \in rows
      OBVIOUS
    <3> HIDE DEF rows
    <3> QED BY <2>2, <2>3, <3>1, <3>2, <3>3, <3>4, <3>5 DEF SoundRow
  <2>5. CASE s.key \notin SpentIn(x)
    <3>1. r.spent = NoHeight /\ r.version = 2 * s.at
      BY <1>9, <1>16, <2>1, <2>3, <2>5
    <3>2. r \in CurrentRow
      BY <1>17, <2>1, <2>2, <2>3, <3>1
    <3>3. PICK m \in x : s.key \in Creates(m) /\ s.at = Height[m]
      BY <2>2, <2>5
    <3>4. \A b \in P : r.key \notin Spends(b)
      <4> SUFFICES ASSUME NEW b \in P, s.key \in Spends(b) PROVE FALSE
        BY <2>3
      <4>1. b \in p
        BY <1>7, <2>5
      <4>2. PICK c \in P : s.key \in Creates(c) /\ Height[c] <= Height[b]
        BY <1>1
      <4>3. c = m
        BY <1>1, <3>3, <4>2
      <4>4. Height[b] < Height[m] /\ Height[b] \in Nat /\ Height[m] \in Nat
        BY <1>1, <3>3, <4>1
      <4> QED BY <4>2, <4>3, <4>4
    <3>5. r.version <= 2 * Height[m]
      BY <1>1, <3>1, <3>3
    <3> HIDE DEF rows
    <3> QED BY <2>2, <2>3, <3>1, <3>2, <3>3, <3>4, <3>5 DEF SoundRow
  <2> QED BY <2>4, <2>5
<1>21. Absent(rows, P) \subseteq Absent(current, p)
  <2> SUFFICES ASSUME NEW o \in CreatedIn(P) \ SpentIn(P), \A r \in rows : r.key # o
               PROVE  o \in Absent(current, p)
    BY DEF Absent
  <2>1. o \notin CreatedIn(x)
    <3> SUFFICES ASSUME o \in CreatedIn(x) PROVE FALSE
      OBVIOUS
    <3>1. PICK s \in made : s.key = o
      BY <1>12
    <3>2. made2(s) \in new /\ made2(s).key = o
      BY <1>10, <1>15, <3>1
    <3> QED BY <3>2
  <2>2. o \in CreatedIn(p) /\ o \notin SpentIn(p)
    BY <2>1 DEF CreatedIn, SpentIn
  <2> QED BY <2>2 DEF Absent
<1>22. IsFiniteSet(Absent(rows, P)) /\ Cardinality(Absent(rows, P)) <= n
  <2>1. IsFiniteSet(Absent(current, p)) /\ Cardinality(Absent(current, p)) <= n
    BY DEF Sound
  <2> QED BY <1>21, <2>1, FewerAreAbsent
<1>23. \A r \in rows : SoundRow(r, rows, P)
  BY <1>19, <1>20
<1> HIDE DEF rows, P
<1>24. Sound(rows, P, n)
  BY <1>22, <1>23 DEF Sound
<1> QED BY <1>24 DEF rows, new, P

-----------------------------------------------------------------------------
(* The statements of a call                                                *)

(***************************************************************************)
(* Running the first of the statements that remain.                        *)
(***************************************************************************)
LEMMA Advance ==
  ASSUME NEW all \in Seq(Names), Remains(all), queue # <<>>
  PROVE  LET n == Progress(all) IN
         /\ n \in Nat /\ n < Len(all) /\ Head(queue) = all[n + 1]
         /\ Tail(queue) \in Seq(Names)
         /\ Len(all) - Len(Tail(queue)) = n + 1
         /\ Tail(queue) = SubSeq(all, n + 2, Len(all))
         /\ Tail(queue) = <<>> <=> n + 1 = Len(all)
<1> DEFINE n == Progress(all)
           m == Len(all)
<1>1. n \in 0 .. m /\ queue = SubSeq(all, n + 1, m) /\ m \in Nat
  BY DEF Remains
<1> HIDE DEF n
<1>2. n < m
  <2> SUFFICES ASSUME n = m PROVE FALSE
    BY <1>1
  <2>1. queue = <<>>
    BY <1>1, SubSeqEmpty
  <2> QED BY <2>1
<1>3. Head(queue) = all[n + 1] /\ Tail(queue) = SubSeq(all, (n + 1) + 1, m)
  <2>1. n + 1 \in 1 .. Len(all) /\ m \in n + 1 .. Len(all)
    BY <1>1, <1>2
  <2> QED BY <1>1, <2>1, HeadTailOfSubSeq
<1>4. (n + 1) + 1 = n + 2
  BY <1>1
<1>5. Tail(queue) \in Seq(Names) /\ Len(Tail(queue)) = m - n - 1
  <2>1. \A i \in n + 2 .. m : all[i] \in Names
    BY <1>1, ElementOfSeq
  <2>2. n + 2 \in Int /\ m \in Int
    BY <1>1
  <2> DEFINE rest == SubSeq(all, n + 2, m)
  <2>3. rest \in Seq(Names) /\ Len(rest) = IF n + 2 <= m THEN m - (n + 2) + 1 ELSE 0
    BY <2>1, <2>2, SubSeqProperties
  <2> HIDE DEF rest
  <2>4. Len(rest) = m - n - 1
    BY <1>1, <1>2, <2>3
  <2> QED BY <1>3, <1>4, <2>3, <2>4 DEF rest
<1>6. Tail(queue) = <<>> <=> n + 1 = m
  <2>1. \A s \in Seq(Names) : s = <<>> <=> Len(s) = 0
    BY EmptySeq
  <2>2. Tail(queue) = <<>> <=> m - n - 1 = 0
    BY <1>5, <2>1
  <2>3. m - n - 1 = 0 <=> n + 1 = m
    BY <1>1
  <2> QED BY <2>2, <2>3
<1>7. m - Len(Tail(queue)) = n + 1
  <2>1. m - (m - n - 1) = n + 1
    BY <1>1
  <2> QED BY <1>5, <2>1
<1>9. n \in Nat
  BY <1>1
<1> HIDE DEF m
<1>8. /\ n \in Nat /\ n < m /\ Head(queue) = all[n + 1]
      /\ Tail(queue) \in Seq(Names)
      /\ m - Len(Tail(queue)) = n + 1
      /\ Tail(queue) = SubSeq(all, n + 2, m)
      /\ Tail(queue) = <<>> <=> n + 1 = m
  BY <1>2, <1>3, <1>4, <1>5, <1>6, <1>7, <1>9, Zenon
<1> QED BY <1>8 DEF n, m

(***************************************************************************)
(* The whole list remains at first; at the end nothing does.               *)
(***************************************************************************)
LEMMA WholeListRemains ==
  ASSUME NEW all \in Seq(Names)
  PROVE  /\ queue = all => Remains(all) /\ Progress(all) = 0
         /\ Remains(all) /\ queue = <<>> => Progress(all) = Len(all)
<1>1. ASSUME queue = all PROVE Remains(all) /\ Progress(all) = 0
  <2>1. Progress(all) = 0
    BY <1>1 DEF Progress
  <2>2. SubSeq(all, 0 + 1, Len(all)) = all
    BY SubSeqFull
  <2> QED BY <1>1, <2>1, <2>2 DEF Remains
<1>2. ASSUME queue = <<>> PROVE Progress(all) = Len(all)
  BY <1>2 DEF Progress
<1> QED BY <1>1, <1>2

(***************************************************************************)
(* deleteCoreDogecoinTail and the rebuild behind it, statement by          *)
(* statement.                                                              *)
(***************************************************************************)
LEMMA StatementList ==
  ASSUME NEW h \in Nat, ready \in BOOLEAN
  PROVE  LET all == Statements(h) IN
         /\ all \in Seq(Names)
         /\ all[1] = "creates" /\ all[2] = "spends" /\ all[3] = "processed" /\ all[4] = "movements"
         /\ ~ready => Len(all) = 4
         /\ ready => all[5] = "clearOutputs" /\ all[6] = "clearBalances"
         /\ ready /\ h = 0 => Len(all) = 6
         /\ ready /\ h > 0 => Len(all) = 8 /\ all[7] = "outputs" /\ all[8] = "balances"
<1>1. CASE ~ready
  <2>1. Statements(h) = Deletes \o <<>>
    BY <1>1 DEF Statements
  <2> QED BY <1>1, <2>1 DEF Deletes, Names
<1>2. CASE ready /\ h = 0
  <2>1. Statements(h) = Deletes \o SubSeq(Rebuild, 1, 2)
    BY <1>2 DEF Statements
  <2> DEFINE c == Deletes \o SubSeq(Rebuild, 1, 2)
  <2>2. c \in Seq(Names) /\ Len(c) = 6
    BY DEF Deletes, Rebuild, Names
  <2>3. c[1] = "creates" /\ c[2] = "spends" /\ c[3] = "processed" /\ c[4] = "movements"
    BY DEF Deletes, Rebuild
  <2>4. c[5] = "clearOutputs" /\ c[6] = "clearBalances"
    BY DEF Deletes, Rebuild
  <2>6. Statements(h) = c
    BY <2>1
  <2> HIDE DEF c
  <2>5. ~(h > 0)
    BY <1>2
  <2> QED BY <1>2, <2>2, <2>3, <2>4, <2>5, <2>6
<1>3. CASE ready /\ h > 0
  <2>1. Statements(h) = Deletes \o Rebuild
    BY <1>3 DEF Statements
  <2> QED BY <1>3, <2>1 DEF Deletes, Rebuild, Names
<1> QED BY <1>1, <1>2, <1>3

-----------------------------------------------------------------------------
(* The steps                                                               *)

(***************************************************************************)
(* The tables hold the rows of the processed blocks, and of the window     *)
(* those that have been inserted.                                          *)
(***************************************************************************)
LEMMA LandedBlocks ==
  ASSUME NEW t
  PROVE  /\ Landed(t) = processed \/ (HasPending /\ Landed(t) = processed \cup pending)
         /\ phase \notin {"facts", "balances", "processed"} => Landed(t) = processed
         /\ phase \in {"balances", "processed"} => Landed(t) = processed \cup pending
BY DEF Landed, Inserted, HasPending

(***************************************************************************)
(* Below the blocks of the window, the facts are those of the processed    *)
(* blocks.                                                                 *)
(***************************************************************************)
LEMMA FactsBelow ==
  ASSUME ClickInv, ~Broken, NEW h \in Nat, HasPending => \A c \in pending : h <= Height[c]
  PROVE  LET p == Under(processed, h) IN
         /\ Below(creates, h) = CreateRows(p) /\ Below(spends, h) = SpendRows(p)
         /\ Credits(p) \subseteq movements
         /\ Below(movements, h) \subseteq Credits(p) \cup Debits(p)
<1>1. processed \subseteq Blocks /\ pending \subseteq Blocks
  BY DEF ClickInv, ClickTypeOK
<1>2. ASSUME NEW t PROVE Under(Landed(t), h) = Under(processed, h)
  <2>1. CASE Landed(t) = processed
    BY <2>1
  <2>2. CASE HasPending /\ Landed(t) = processed \cup pending
    <3>1. processed \cup pending \subseteq Blocks /\ \A c \in pending : h <= Height[c]
      BY <1>1, <2>2
    <3>2. Under(processed \cup pending, h) = Under(processed, h)
      <4>1. \A c \in pending : Height[c] \in Nat /\ ~(Height[c] < h)
        BY <1>1, <3>1, NoneIsAbove
      <4> QED BY <4>1 DEF Under
    <3> QED BY <2>2, <3>2
  <2> QED BY <2>1, <2>2, LandedBlocks
<1>3. /\ creates = CreateRows(Landed("creates")) /\ spends = SpendRows(Landed("spends"))
      /\ Credits(Landed("movements")) \subseteq movements
      /\ movements \subseteq Credits(Landed("movements")) \cup Debits(Landed("movements"))
  BY DEF ClickInv, FactsInv
<1>4. Below(creates, h) = CreateRows(Under(processed, h))
  BY <1>2, <1>3, RowsBelow
<1>5. Below(spends, h) = SpendRows(Under(processed, h))
  BY <1>2, <1>3, RowsBelow
<1>6. /\ Below(Credits(Landed("movements")), h) = Credits(Under(processed, h))
      /\ Below(Debits(Landed("movements")), h) = Debits(Under(processed, h))
  BY <1>2, RowsBelow
<1>7. Credits(Under(processed, h)) \subseteq movements
  BY <1>3, <1>6 DEF Below
<1>8. Below(movements, h) \subseteq Credits(Under(processed, h)) \cup Debits(Under(processed, h))
  <2>1. Below(movements, h) \subseteq Below(Credits(Landed("movements")), h)
                                        \cup Below(Debits(Landed("movements")), h)
    BY <1>3 DEF Below
  <2> QED BY <1>6, <2>1
<1> QED BY <1>4, <1>5, <1>7, <1>8

(***************************************************************************)
(* The same when rows are being taken back from a cutoff.                  *)
(***************************************************************************)
LEMMA FactsFurtherBelow ==
  ASSUME ClickInv, Broken, NEW h \in Nat, h <= cutoff
  PROVE  LET p == Under(processed, h) IN
         /\ Below(creates, h) = CreateRows(p) /\ Below(spends, h) = SpendRows(p)
         /\ Credits(p) \subseteq movements
         /\ Below(movements, h) \subseteq Credits(p) \cup Debits(p)
<1> DEFINE q == Under(processed, cutoff)
<1>1. processed \subseteq Blocks /\ cutoff \in Nat
  BY NoneIsAbove DEF ClickInv, ClickTypeOK
<1>2. /\ Below(creates, cutoff) = CreateRows(q) /\ Below(spends, cutoff) = SpendRows(q)
      /\ Credits(q) \subseteq movements /\ Below(movements, cutoff) \subseteq Credits(q) \cup Debits(q)
  BY DEF ClickInv, FactsInv
<1>3. Under(q, h) = Under(processed, h)
  BY <1>1, UnderSplits
<1>4. ASSUME NEW rows, \A r \in rows : r.at \in Nat PROVE Below(Below(rows, cutoff), h) = Below(rows, h)
  BY <1>1, <1>4 DEF Below
<1>5. /\ \A r \in creates : r.at \in Nat
      /\ \A r \in spends : r.at \in Nat
      /\ \A r \in movements : r.at \in Nat
  <2>1. creates \subseteq CreateRow /\ spends \subseteq CreateRow /\ movements \subseteq Movement
    BY DEF ClickInv, ClickTypeOK
  <2> QED BY <2>1, NoneIsAbove DEF CreateRow, Movement
<1> HIDE DEF q
<1>6. Below(creates, h) = CreateRows(Under(processed, h))
  BY <1>2, <1>3, <1>4, <1>5, RowsBelow
<1>7. Below(spends, h) = SpendRows(Under(processed, h))
  BY <1>2, <1>3, <1>4, <1>5, RowsBelow
<1>8. Below(Credits(q), h) = Credits(Under(processed, h)) /\ Below(Debits(q), h) = Debits(Under(processed, h))
  BY <1>3, RowsBelow
<1>9. Credits(Under(processed, h)) \subseteq movements
  BY <1>2, <1>8 DEF Below
<1>10. Below(movements, h) \subseteq Credits(Under(processed, h)) \cup Debits(Under(processed, h))
  <2>1. Below(movements, h) = Below(Below(movements, cutoff), h)
    BY <1>4, <1>5
  <2>2. Below(Below(movements, cutoff), h) \subseteq Below(Credits(q), h) \cup Below(Debits(q), h)
    BY <1>2 DEF Below
  <2> QED BY <1>8, <2>1, <2>2
<1> QED BY <1>6, <1>7, <1>9, <1>10

\* In the beginning nothing is applied and nothing runs.
LEMMA Initially == ClickInit => ClickInv
<1> SUFFICES ASSUME ClickInit PROVE ClickInv
  OBVIOUS
<1>1. None \in Nat
  BY NoneIsAbove
<1>2. ~Broken /\ ~HasPending /\ \A t : Landed(t) = {}
  BY DEF ClickInit, Broken, HasPending, Landed, Inserted
<1>3. CreateRows({}) = {} /\ SpendRows({}) = {} /\ Credits({}) = {} /\ Debits({}) = {}
  BY DEF CreateRows, SpendRows, Credits, Debits
<1>4. ClickTypeOK
  <2>1. None \in 0 .. None /\ <<>> \in Seq(Names) /\ 0 \in Nat
    BY <1>1
  <2> QED BY <2>1 DEF ClickInit, ClickTypeOK
<1>5. CallInv
  BY <1>2 DEF ClickInit, CallInv, Chain
<1>6. FactsInv
  BY <1>2, <1>3 DEF ClickInit, FactsInv
<1>7. CurrentInv
  BY DEF ClickInit, CurrentInv
<1> QED BY <1>4, <1>5, <1>6, <1>7 DEF ClickInv

(***************************************************************************)
(* applyCoreDogecoinWindow: with a reorganization the rewind comes first.  *)
(***************************************************************************)
LEMMA BeginWindowStep ==
  ASSUME ClickInv, NEW w \in Windows, BeginWindow(w)
  PROVE  ClickInv'
<1> DEFINE x == Pending(w, processed)
           conflicts == Conflicts(w, processed)
           h == Min(conflicts)
           stay == IF conflicts = {} THEN processed ELSE Under(processed, h)
<1>1. /\ phase = "idle" /\ cutoff = None /\ pending' = x /\ x # {} /\ asked' = Start(w)
      /\ Parent[First(w)] \in processed \cup {NoBlock} /\ repaired' = FALSE
      /\ UNCHANGED <<creates, spends, movements, processed, current, ready, prevouts, lost>>
  BY DEF BeginWindow, factVars, currentVars
<1>2. ~Broken /\ ~HasPending /\ Chain(processed) /\ \A t : Landed(t) = processed
  BY <1>1, LandedBlocks DEF ClickInv, CallInv, Broken, HasPending
<1>3. /\ x \subseteq w /\ Chain(stay \cup x)
      /\ \A b \in stay, c \in x : Height[b] < Height[c]
      /\ Start(w) \in Nat /\ Start(w) < None /\ Above(processed, Start(w))
      /\ \A c \in x : Start(w) <= Height[c]
      /\ conflicts # {} => /\ h \in Nat /\ h < None /\ Start(w) <= h /\ Above(processed, h)
                           /\ \A c \in x : h <= Height[c]
  BY <1>1, <1>2, WindowContinues
<1>4. x \subseteq Blocks /\ None \in Nat
  BY <1>3, NoneIsAbove DEF Windows
<1>5. /\ creates \subseteq CreateRow /\ spends \subseteq CreateRow /\ movements \subseteq Movement
      /\ processed \subseteq Blocks /\ ready \in BOOLEAN /\ lost \in Nat /\ queue \in Seq(Names)
  BY DEF ClickInv, ClickTypeOK
<1>6. ready => Sound(current, processed, lost)
  BY <1>1, <1>2 DEF ClickInv, CurrentInv
<1>7. /\ creates = CreateRows(processed) /\ spends = SpendRows(processed)
      /\ Credits(processed) \subseteq movements
      /\ movements \subseteq Credits(processed) \cup Debits(processed)
  BY <1>2 DEF ClickInv, FactsInv
<1> HIDE DEF x, conflicts, h
<1>8. CASE conflicts # {}
  <2> DEFINE all == Statements(h)
  <2>1. phase' = "rewind" /\ cutoff' = h /\ queue' = all /\ stay = Under(processed, h)
    BY <1>1, <1>8 DEF BeginWindow, TakeBack, Statements, conflicts, h
  <2>2. all \in Seq(Names) /\ Statements(cutoff)' = all
    BY <1>1, <1>3, <1>5, <1>8, <2>1, StatementList DEF Statements
  <2>3. Remains(Statements(cutoff))' /\ Progress(Statements(cutoff))' = 0
    <3>1. SubSeq(all, 1, Len(all)) = all
      BY <2>2, SubSeqFull
    <3> HIDE DEF all
    <3>2. Len(all) \in Nat /\ Len(all) - Len(all) = 0 /\ 0 + 1 = 1
      BY <2>2
    <3>3. Progress(Statements(cutoff))' = 0
      BY <2>1, <2>2, <3>2 DEF Progress
    <3>4. Progress(Statements(cutoff))' \in 0 .. Len(all)
      BY <3>2, <3>3
    <3>5. queue' = SubSeq(all, Progress(Statements(cutoff))' + 1, Len(all))
      BY <2>1, <3>1, <3>2, <3>3
    <3> QED BY <2>2, <3>3, <3>4, <3>5 DEF Remains
  <2>4. Broken' /\ ~HasPending'
    BY <2>1 DEF Broken, HasPending
  <2>5. ClickTypeOK'
    <3>1. cutoff' \in 0 .. None /\ asked' \in 0 .. None
      BY <1>1, <1>3, <1>4, <1>8, <2>1
    <3>2. queue' \in Seq(Names)
      BY <2>1, <2>2
    <3> QED BY <1>1, <1>4, <1>5, <2>1, <3>1, <3>2 DEF ClickTypeOK
  <2>6. CallInv'
    BY <1>1, <1>2, <1>3, <1>8, <2>1, <2>3, <2>4 DEF CallInv
  <2>7. FactsInv'
    <3>1. /\ Below(creates, h) = CreateRows(stay) /\ Below(spends, h) = SpendRows(stay)
          /\ Credits(stay) \subseteq movements
          /\ Below(movements, h) \subseteq Credits(stay) \cup Debits(stay)
      BY <1>2, <1>3, <1>8, <2>1, FactsBelow
    <3> QED BY <1>1, <2>1, <2>3, <2>4, <3>1 DEF FactsInv
  <2>8. CurrentInv'
    BY <1>1, <2>1, <2>3, <2>4 DEF CurrentInv
  <2> QED BY <2>5, <2>6, <2>7, <2>8 DEF ClickInv
<1>9. CASE conflicts = {}
  <2>1. phase' = "load" /\ cutoff' = cutoff /\ queue' = queue /\ stay = processed
    BY <1>9 DEF BeginWindow, conflicts
  <2>2. ~Broken' /\ HasPending' /\ \A t : Landed(t)' = processed
    BY <1>1, <2>1 DEF Broken, HasPending, Landed, Inserted
  <2>3. ClickTypeOK'
    <3>1. cutoff' \in 0 .. None /\ asked' \in 0 .. None
      BY <1>1, <1>3, <1>4, <2>1
    <3> QED BY <1>1, <1>4, <1>5, <2>1, <3>1 DEF ClickTypeOK
  <2>4. CallInv'
    BY <1>1, <1>2, <1>3, <2>1, <2>2 DEF CallInv
  <2>5. FactsInv'
    BY <1>1, <1>7, <2>1, <2>2 DEF FactsInv
  <2>6. CurrentInv'
    BY <1>1, <1>6, <2>1 DEF CurrentInv
  <2> QED BY <2>3, <2>4, <2>5, <2>6 DEF ClickInv
<1> QED BY <1>8, <1>9

(***************************************************************************)
(* What one statement does.                                                *)
(***************************************************************************)
LEMMA StatementEffects ==
  ASSUME NEW h, Statement(h)
  PROVE  /\ creates' = IF Head(queue) = "creates" THEN Below(creates, cutoff) ELSE creates
         /\ spends' = IF Head(queue) = "spends" THEN Below(spends, cutoff) ELSE spends
         /\ movements' = IF Head(queue) = "movements" THEN Below(movements, cutoff) ELSE movements
         /\ processed' = IF Head(queue) = "processed" THEN Under(processed, cutoff) ELSE processed
         /\ current' = IF Head(queue) = "clearOutputs" THEN {}
                       ELSE IF Head(queue) = "outputs" THEN current \cup UnspentRows(h) ELSE current
<1>1. CASE Head(queue) \in {"creates", "spends", "processed", "movements"}
  <2>1. Delete(Head(queue))
    BY <1>1 DEF Statement
  <2>2. current' = current
    BY <2>1 DEF Delete
  <2>3. Head(queue) # "clearOutputs" /\ Head(queue) # "outputs"
    BY <1>1
  <2> QED BY <2>1, <2>2, <2>3 DEF Delete, Below, Under
<1>2. CASE Head(queue) \notin {"creates", "spends", "processed", "movements"}
  <2>1. Materialized(Head(queue), h)
    BY <1>2 DEF Statement
  <2>2. /\ creates' = creates /\ spends' = spends /\ movements' = movements /\ processed' = processed
    BY <2>1 DEF Materialized, factVars
  <2>3. current' = IF Head(queue) = "clearOutputs" THEN {}
                   ELSE IF Head(queue) = "outputs" THEN current \cup UnspentRows(h) ELSE current
    BY <2>1 DEF Materialized
  <2>4. Head(queue) # "creates" /\ Head(queue) # "spends" /\ Head(queue) # "processed"
        /\ Head(queue) # "movements"
    BY <1>2
  <2> QED BY <2>2, <2>3, <2>4
<1> QED BY <1>1, <1>2

(***************************************************************************)
(* The facts at and below a height, read as the queries do.                *)
(***************************************************************************)
LEMMA HistoricalBelow ==
  ASSUME NEW h \in Nat, NEW p, Chain(p),
         creates \subseteq CreateRow, spends \subseteq CreateRow,
         Below(creates, h + 1) = CreateRows(p), Below(spends, h + 1) = SpendRows(p)
  PROVE  Historical(h) = OutputRows(p)
<1>1. \A r \in CreateRow : r.at \in Int
  BY NoneIsAbove DEF CreateRow
<1>2. {c \in creates : c.at <= h} = Below(creates, h + 1)
  BY <1>1 DEF Below
<1>3. {s \in spends : s.at <= h} = Below(spends, h + 1)
  BY <1>1 DEF Below
<1> QED BY <1>2, <1>3, HistoricalRows

(***************************************************************************)
(* rewindCoreDogecoinWindow, one statement.                                *)
(***************************************************************************)
LEMMA RewindStepStep ==
  ASSUME ClickInv, RewindStep
  PROVE  ClickInv'
<1> DEFINE all == Statements(cutoff)
           n == Progress(all)
           s == Head(queue)
           p == Under(processed, cutoff)
<1>1. /\ phase = "rewind" /\ queue # <<>> /\ Statement(cutoff - 1) /\ queue' = Tail(queue)
      /\ UNCHANGED <<ready, phase, asked, pending, cutoff, prevouts, repaired, lost>>
  BY DEF RewindStep, bounds
<1>2. /\ Chain(processed) /\ Above(processed, asked) /\ asked < None
      /\ \A b \in pending : asked <= Height[b]
      /\ cutoff < None /\ Above(processed, cutoff) /\ asked <= cutoff /\ Chain(p \cup pending)
      /\ \A c \in pending : cutoff <= Height[c]
      /\ Remains(all) /\ (pending = {} => asked = cutoff)
  BY <1>1 DEF ClickInv, CallInv, Broken
<1>3. /\ creates \subseteq CreateRow /\ spends \subseteq CreateRow /\ movements \subseteq Movement
      /\ processed \subseteq Blocks /\ pending \subseteq Blocks /\ ready \in BOOLEAN /\ lost \in Nat
      /\ queue \in Seq(Names) /\ cutoff \in 0 .. None /\ asked \in 0 .. None /\ repaired \in BOOLEAN
  BY DEF ClickInv, ClickTypeOK
<1>4. cutoff \in Nat /\ asked \in Nat
  BY <1>3, NoneIsAbove
<1>5. /\ Below(creates, cutoff) = CreateRows(p) /\ Below(spends, cutoff) = SpendRows(p)
      /\ Credits(p) \subseteq movements /\ Below(movements, cutoff) \subseteq Credits(p) \cup Debits(p)
      /\ n >= 1 => Below(creates, cutoff) = creates
      /\ n >= 2 => Below(spends, cutoff) = spends
      /\ n >= 3 => p = processed
      /\ n >= 4 => Below(movements, cutoff) = movements
  BY <1>1 DEF ClickInv, FactsInv, Broken
<1>6. /\ all \in Seq(Names)
      /\ all[1] = "creates" /\ all[2] = "spends" /\ all[3] = "processed" /\ all[4] = "movements"
      /\ ~ready => Len(all) = 4
      /\ ready => all[5] = "clearOutputs" /\ all[6] = "clearBalances"
      /\ ready /\ cutoff = 0 => Len(all) = 6
      /\ ready /\ cutoff > 0 => Len(all) = 8 /\ all[7] = "outputs" /\ all[8] = "balances"
  BY <1>3, <1>4, StatementList
<1>7. /\ n \in Nat /\ n < Len(all) /\ s = all[n + 1] /\ Tail(queue) \in Seq(Names)
      /\ Len(all) - Len(Tail(queue)) = n + 1 /\ Tail(queue) = SubSeq(all, n + 2, Len(all))
  BY <1>1, <1>2, <1>6, Advance
<1>70. n \in Nat /\ n < Len(all) /\ s = all[n + 1] /\ Len(all) \in Nat
  <2>1. \A q \in Seq(Names) : Len(q) \in Nat
    BY LenProperties
  <2> HIDE DEF n, s
  <2>2. Len(all) \in Nat
    BY <1>6, <2>1, Zenon
  <2> QED BY <1>7, <2>2, Zenon
<1>60. /\ all[1] = "creates" /\ all[2] = "spends" /\ all[3] = "processed" /\ all[4] = "movements"
       /\ ~ready => Len(all) = 4
       /\ ready => all[5] = "clearOutputs" /\ all[6] = "clearBalances"
       /\ ready /\ cutoff = 0 => Len(all) = 6
       /\ ready /\ cutoff > 0 => Len(all) = 8 /\ all[7] = "outputs" /\ all[8] = "balances"
  BY <1>6, Zenon
<1>8. /\ creates' = IF s = "creates" THEN Below(creates, cutoff) ELSE creates
      /\ spends' = IF s = "spends" THEN Below(spends, cutoff) ELSE spends
      /\ movements' = IF s = "movements" THEN Below(movements, cutoff) ELSE movements
      /\ processed' = IF s = "processed" THEN p ELSE processed
      /\ current' = IF s = "clearOutputs" THEN {}
                    ELSE IF s = "outputs" THEN current \cup UnspentRows(cutoff - 1) ELSE current
  BY <1>1, StatementEffects
<1>9. Statements(cutoff)' = all
  BY <1>1 DEF Statements
<1> HIDE DEF all, n, s
<1>10. Progress(Statements(cutoff))' = n + 1
  BY <1>1, <1>7, <1>9 DEF Progress
<1>11. Remains(Statements(cutoff))'
  <2>1. n + 1 \in 0 .. Len(all) /\ (n + 1) + 1 = n + 2
    BY <1>70
  <2> QED BY <1>1, <1>7, <1>9, <1>10, <2>1 DEF Remains
<1>12. /\ n = 0 => s = "creates"
       /\ n = 1 => s = "spends"
       /\ n = 2 => s = "processed"
       /\ n = 3 => s = "movements"
       /\ n = 4 => ready /\ s = "clearOutputs"
       /\ n = 5 => ready /\ s = "clearBalances"
       /\ n >= 6 => ready /\ cutoff > 0
       /\ n = 6 => s = "outputs"
       /\ n = 7 => s = "balances"
       /\ n <= 7
  <2>1. n >= 4 => ready
    BY <1>3, <1>60, <1>70
  <2>2. n >= 6 => cutoff > 0
    BY <1>4, <1>60, <1>70, <2>1
  <2>3. n <= 7
    <3>1. cutoff = 0 \/ cutoff > 0
      BY <1>4
    <3>2. Len(all) \in {4, 6, 8}
      BY <1>3, <1>60, <3>1
    <3> QED BY <1>70, <3>2
  <2>4. (n = 0 => s = "creates") /\ (n = 1 => s = "spends")
    BY <1>60, <1>70
  <2>5. (n = 2 => s = "processed") /\ (n = 3 => s = "movements")
    BY <1>60, <1>70
  <2>6. (n = 4 => s = "clearOutputs") /\ (n = 5 => s = "clearBalances")
    BY <1>60, <1>70, <2>1
  <2>7. (n = 6 => s = "outputs") /\ (n = 7 => s = "balances")
    BY <1>60, <1>70, <2>1, <2>2
  <2> QED BY <1>70, <2>1, <2>2, <2>3, <2>4, <2>5, <2>6, <2>7
<1>13. Chain(p) /\ \A b \in processed : Height[b] \in Nat
  BY <1>2, <1>3, <1>4, UnderIsAChain, NoneIsAbove
<1>14. Under(p, cutoff) = p
  BY <1>4 DEF Under
<1>15. processed' \in {processed, p} /\ Under(processed', cutoff) = p /\ Chain(processed')
  BY <1>2, <1>8, <1>13, <1>14
<1>16. ASSUME NEW h \in Nat, h <= cutoff, Above(processed, h) PROVE Above(processed', h)
  <2>1. CASE h = 0
    BY <2>1 DEF Above
  <2>2. CASE h # 0
    <3>1. PICK b \in processed : Height[b] = h - 1
      BY <1>16, <2>2 DEF Above
    <3>2. Height[b] < cutoff
      BY <1>4, <1>13, <1>16, <3>1
    <3>3. b \in processed'
      BY <1>15, <3>2 DEF Under
    <3> QED BY <3>1, <3>3 DEF Above
  <2> QED BY <2>1, <2>2
<1>17. /\ Below(creates', cutoff) = Below(creates, cutoff)
       /\ Below(spends', cutoff) = Below(spends, cutoff)
       /\ Below(movements', cutoff) = Below(movements, cutoff)
  BY <1>8 DEF Below
<1> HIDE DEF p
<1>18. Broken' /\ ~HasPending'
  BY <1>1 DEF Broken, HasPending
<1>19. ClickTypeOK'
  <2>1. creates' \subseteq CreateRow /\ spends' \subseteq CreateRow /\ movements' \subseteq Movement
    BY <1>3, <1>8 DEF Below
  <2>2. processed' \subseteq Blocks
    BY <1>3, <1>15 DEF Under, p
  <2> QED BY <1>1, <1>3, <1>7, <2>1, <2>2 DEF ClickTypeOK
<1>20. CallInv'
  <2>1. Above(processed', asked) /\ Above(processed', cutoff)
    BY <1>2, <1>4, <1>16
  <2>2. Chain(Under(processed', cutoff) \cup pending)
    BY <1>2, <1>15
  <2> QED BY <1>1, <1>2, <1>11, <1>15, <1>18, <2>1, <2>2 DEF CallInv
<1>21. FactsInv'
  <2>1. Credits(p) \subseteq movements'
    <3>1. Credits(p) \subseteq Below(movements, cutoff)
      <4>1. Below(Credits(p), cutoff) = Credits(p)
        BY <1>14, RowsBelow
      <4> QED BY <1>5, <4>1 DEF Below
    <3> QED BY <1>5, <1>8, <3>1
  <2>2. /\ n + 1 >= 1 => Below(creates', cutoff) = creates'
        /\ n + 1 >= 2 => Below(spends', cutoff) = spends'
        /\ n + 1 >= 3 => Under(processed', cutoff) = processed'
        /\ n + 1 >= 4 => Below(movements', cutoff) = movements'
    <3>1. /\ n + 1 >= 1 => n = 0 \/ n >= 1
          /\ n + 1 >= 2 => n = 1 \/ n >= 2
          /\ n + 1 >= 3 => n = 2 \/ n >= 3
          /\ n + 1 >= 4 => n = 3 \/ n >= 4
      BY <1>7
    <3>2. n = 0 \/ n >= 1 => Below(creates', cutoff) = creates'
      BY <1>5, <1>8, <1>12, <1>17
    <3>3. n = 1 \/ n >= 2 => Below(spends', cutoff) = spends'
      BY <1>5, <1>8, <1>12, <1>17
    <3>4. n = 2 \/ n >= 3 => Under(processed', cutoff) = processed'
      BY <1>5, <1>8, <1>12, <1>15
    <3>5. n = 3 \/ n >= 4 => Below(movements', cutoff) = movements'
      BY <1>5, <1>8, <1>12, <1>17
    <3> QED BY <3>1, <3>2, <3>3, <3>4, <3>5
  <2> QED BY <1>1, <1>5, <1>10, <1>15, <1>17, <1>18, <2>1, <2>2 DEF FactsInv
<1>22. CurrentInv'
  <2>1. ready => /\ n \in {5, 6} => current = {}
                 /\ n > 6 => Sound(current, p, lost)
    BY <1>1 DEF ClickInv, CurrentInv, n, all, p
  <2>2. ASSUME ready, n + 1 \in {5, 6} PROVE current' = {}
    <3>1. n = 4 \/ n = 5
      BY <1>7, <2>2
    <3> QED BY <1>8, <1>12, <2>1, <2>2, <3>1
  <2>3. ASSUME ready, n + 1 > 6 PROVE Sound(current', p, lost)
    <3>1. n = 6 \/ n = 7
      <4>1. n \in Nat /\ n <= 7 /\ n + 1 > 6
        BY <1>7, <1>12, <2>3
      <4> QED BY <4>1
    <3>2. CASE n = 7
      BY <1>8, <1>12, <2>1, <2>3, <3>2
    <3>3. CASE n = 6
      <4>1. current = {} /\ cutoff > 0 /\ s = "outputs"
        BY <1>12, <2>1, <2>3, <3>3
      <4> DEFINE h == cutoff - 1
      <4>2. h \in Nat /\ h + 1 = cutoff
        BY <1>4, <4>1
      <4>3. \E b \in p : Height[b] = h
        <5>1. PICK b \in processed : Height[b] = cutoff - 1
          BY <1>2, <4>1 DEF Above
        <5>2. b \in p
          BY <1>4, <5>1 DEF Under, p
        <5> QED BY <5>1, <5>2
      <4>4. current' = current \cup UnspentRows(h)
        BY <1>8, <4>1
      <4> HIDE DEF h
      <4>5. Historical(h) = OutputRows(p)
        BY <1>3, <1>5, <1>13, <4>2, HistoricalBelow
      <4>6. Sound(UnspentRows(h), p, lost)
        BY <1>3, <1>13, <4>2, <4>3, <4>5, RebuiltRowsAreSound
      <4>7. current' = UnspentRows(h)
        BY <4>1, <4>4
      <4> QED BY <4>6, <4>7
    <3> QED BY <3>1, <3>2, <3>3
  <2> QED BY <1>1, <1>10, <1>15, <1>18, <2>2, <2>3 DEF CurrentInv
<1> QED BY <1>19, <1>20, <1>21, <1>22 DEF ClickInv

(***************************************************************************)
(* The last statement done, the rewind is over: what is left are the       *)
(* blocks below.                                                           *)
(***************************************************************************)
LEMMA RewindDoneStep ==
  ASSUME ClickInv, RewindDone
  PROVE  ClickInv'
<1> DEFINE all == Statements(cutoff)
           n == Progress(all)
           p == Under(processed, cutoff)
<1>1. /\ phase = "rewind" /\ queue = <<>> /\ cutoff' = None
      /\ phase' = IF pending = {} THEN "idle" ELSE "load"
      /\ asked' = IF pending = {} THEN None ELSE asked
      /\ UNCHANGED <<creates, spends, movements, processed, current, ready, pending, prevouts,
                     queue, repaired, lost>>
  BY DEF RewindDone, factVars, currentVars, bounds
<1>2. /\ Chain(processed) /\ Above(processed, asked) /\ asked < None
      /\ \A b \in pending : asked <= Height[b]
      /\ cutoff < None /\ Chain(p \cup pending)
      /\ \A c \in pending : cutoff <= Height[c]
      /\ Remains(all)
  BY <1>1 DEF ClickInv, CallInv, Broken
<1>3. /\ creates \subseteq CreateRow /\ spends \subseteq CreateRow /\ movements \subseteq Movement
      /\ processed \subseteq Blocks /\ pending \subseteq Blocks /\ ready \in BOOLEAN /\ lost \in Nat
      /\ queue \in Seq(Names) /\ cutoff \in 0 .. None /\ asked \in 0 .. None /\ repaired \in BOOLEAN
  BY DEF ClickInv, ClickTypeOK
<1>4. cutoff \in Nat /\ asked \in Nat /\ None \in 0 .. None
  BY <1>3, NoneIsAbove
<1>5. all \in Seq(Names) /\ n = Len(all) /\ n >= 4 /\ (ready => n = IF cutoff = 0 THEN 6 ELSE 8)
  <2>1. /\ all \in Seq(Names)
        /\ ~ready => Len(all) = 4
        /\ ready /\ cutoff = 0 => Len(all) = 6
        /\ ready /\ cutoff > 0 => Len(all) = 8
    BY <1>3, <1>4, StatementList
  <2>2. n = Len(all)
    BY <1>1, <1>2, <2>1, WholeListRemains
  <2> HIDE DEF n, all
  <2>3. cutoff = 0 \/ cutoff > 0
    BY <1>4
  <2> QED BY <1>3, <2>1, <2>2, <2>3
<1>6. /\ Below(creates, cutoff) = CreateRows(p) /\ Below(spends, cutoff) = SpendRows(p)
      /\ Credits(p) \subseteq movements /\ Below(movements, cutoff) \subseteq Credits(p) \cup Debits(p)
      /\ n >= 1 => Below(creates, cutoff) = creates
      /\ n >= 2 => Below(spends, cutoff) = spends
      /\ n >= 3 => p = processed
      /\ n >= 4 => Below(movements, cutoff) = movements
  BY <1>1 DEF ClickInv, FactsInv, Broken
<1> HIDE DEF n
<1>7. n >= 1 /\ n >= 2 /\ n >= 3 /\ n >= 4
  BY <1>5
<1>8. /\ p = processed /\ creates = CreateRows(processed) /\ spends = SpendRows(processed)
      /\ Credits(processed) \subseteq movements
      /\ movements \subseteq Credits(processed) \cup Debits(processed)
  BY <1>6, <1>7
<1>9. ready => Sound(current, processed, lost)
  <2>1. ready => /\ n \in {5, 6} => current = {}
                 /\ n > 6 => Sound(current, p, lost)
    BY <1>1 DEF ClickInv, CurrentInv, n
  <2> SUFFICES ASSUME ready PROVE Sound(current, processed, lost)
    OBVIOUS
  <2>2. CASE cutoff = 0
    <3>1. current = {}
      BY <1>5, <2>1, <2>2
    <3>2. processed = {}
      <4>1. \A b \in processed : Height[b] \in Nat
        BY <1>3, NoneIsAbove
      <4>2. \A b \in p : Height[b] < 0
        BY <2>2 DEF Under
      <4> QED BY <1>8, <4>1, <4>2
    <3>3. Absent({}, {}) = {}
      BY DEF Absent, CreatedIn
    <3>4. IsFiniteSet({}) /\ Cardinality({}) = 0 /\ 0 <= lost
      BY <1>3, FS_EmptySet
    <3>5. Sound({}, {}, lost)
      BY <3>3, <3>4 DEF Sound
    <3> QED BY <3>1, <3>2, <3>5
  <2>3. CASE cutoff # 0
    <3>1. n = 8
      BY <1>5, <2>3
    <3>2. n > 6
      BY <3>1
    <3> QED BY <1>8, <2>1, <3>2
  <2> QED BY <2>2, <2>3
<1>10. ~Broken' /\ \A t : Landed(t)' = processed
  BY <1>1 DEF Broken, Landed, Inserted
<1>11. HasPending' => pending # {}
  BY <1>1 DEF HasPending
<1>12. ClickTypeOK'
  BY <1>1, <1>3, <1>4 DEF ClickTypeOK
<1>13. CallInv'
  <2>1. Chain(processed \cup pending) /\ \A b \in processed, c \in pending : Height[b] < Height[c]
    <3>1. \A b \in processed : Height[b] < cutoff /\ Height[b] \in Nat
      BY <1>3, <1>8, NoneIsAbove DEF Under
    <3>2. \A c \in pending : cutoff <= Height[c] /\ Height[c] \in Nat
      BY <1>2, <1>3, NoneIsAbove
    <3>3. \A b \in processed, c \in pending : Height[b] < Height[c]
      BY <1>4, <3>1, <3>2
    <3> QED BY <1>2, <1>8, <3>3
  <2> QED BY <1>1, <1>2, <1>10, <1>11, <2>1 DEF CallInv
<1>14. FactsInv'
  BY <1>1, <1>8, <1>10 DEF FactsInv
<1>15. CurrentInv'
  BY <1>1, <1>9 DEF CurrentInv
<1> QED BY <1>12, <1>13, <1>14, <1>15 DEF ClickInv

(***************************************************************************)
(* What the invariant says while a window is applied.                      *)
(***************************************************************************)
LEMMA DuringACall ==
  ASSUME ClickInv, HasPending
  PROVE  /\ ~Broken /\ pending # {} /\ Chain(processed) /\ Chain(processed \cup pending)
         /\ processed \subseteq Blocks /\ pending \subseteq Blocks
         /\ \A b \in processed, c \in pending : Height[b] < Height[c]
         /\ asked < None /\ Above(processed, asked) /\ \A b \in pending : asked <= Height[b]
         /\ creates = CreateRows(Landed("creates")) /\ spends = SpendRows(Landed("spends"))
         /\ Credits(Landed("movements")) \subseteq movements
         /\ movements \subseteq Credits(Landed("movements")) \cup Debits(Landed("movements"))
<1>1. ~Broken /\ phase \notin {"idle", "materialize"}
  BY DEF HasPending, Broken
<1> QED BY <1>1 DEF ClickInv, ClickTypeOK, CallInv, FactsInv

\* The type invariant, with what it says of the heights.
LEMMA Typed ==
  ASSUME ClickInv
  PROVE  /\ creates \subseteq CreateRow /\ spends \subseteq CreateRow /\ movements \subseteq Movement
         /\ processed \subseteq Blocks /\ pending \subseteq Blocks
         /\ queue \in Seq(Names) /\ cutoff \in 0 .. None /\ asked \in 0 .. None
         /\ cutoff \in Nat /\ asked \in Nat /\ None \in Nat /\ None \in 0 .. None
         /\ ready \in BOOLEAN /\ repaired \in BOOLEAN /\ lost \in Nat /\ <<>> \in Seq(Names)
<1>1. cutoff \in 0 .. None /\ asked \in 0 .. None
  BY DEF ClickInv, ClickTypeOK
<1>2. cutoff \in Nat /\ asked \in Nat /\ None \in Nat /\ None \in 0 .. None
  BY <1>1, NoneIsAbove
<1>3. <<>> \in Seq(Names)
  OBVIOUS
<1> QED BY <1>1, <1>2, <1>3 DEF ClickInv, ClickTypeOK

(***************************************************************************)
(* loadCoreWindowPrevouts: what is missing is settled before the facts are *)
(* written.                                                                *)
(***************************************************************************)
LEMMA LoadPrevoutsStep ==
  ASSUME ClickInv, LoadPrevouts
  PROVE  ClickInv'
<1>1. /\ phase = "load" /\ phase' = "facts" /\ queue' = <<>>
      /\ ready => Missing = {} /\ prevouts' = {r \in Newest(current) : r.key \in External}
      /\ UNCHANGED <<creates, spends, movements, processed, current, ready, asked, pending, cutoff,
                     repaired, lost>>
  BY DEF LoadPrevouts, factVars, currentVars, bounds
<1>2. HasPending /\ HasPending' /\ ~Broken' /\ cutoff = None
  BY <1>1 DEF HasPending, Broken, ClickInv, CallInv
<1>3. Landed("creates") = processed /\ Landed("spends") = processed /\ Landed("movements") = processed
  BY <1>1, LandedBlocks
<1>4. \A t : Landed(t)' = processed
  BY <1>1 DEF Landed, Inserted
<1>5. ready => Sound(current, processed, lost)
  BY <1>1, <1>2, DuringACall DEF ClickInv, CurrentInv
<1>6. ClickTypeOK'
  BY <1>1, Typed DEF ClickTypeOK
<1>7. CallInv'
  BY <1>1, <1>2, DuringACall DEF CallInv
<1>8. FactsInv'
  BY <1>1, <1>2, <1>3, <1>4, DuringACall DEF FactsInv
<1>9. CurrentInv'
  <2>1. External' = External /\ (Missing = {} => Missing' = {})
    BY <1>1 DEF External, Missing
  <2> QED BY <1>1, <1>5, <2>1 DEF CurrentInv
<1> QED BY <1>6, <1>7, <1>8, <1>9 DEF ClickInv

(***************************************************************************)
(* cleanCoreDogecoinWindow before a repair, up to its first statement.     *)
(***************************************************************************)
LEMMA CleanForRepairStep ==
  ASSUME ClickInv, CleanForRepair
  PROVE  ClickInv'
<1>1. /\ phase = "load" /\ phase' = "clean" /\ queue' = Deletes /\ cutoff' = Start(pending)
      /\ UNCHANGED <<creates, spends, movements, processed, current, ready, asked, pending, prevouts,
                     repaired, lost>>
  BY DEF CleanForRepair, factVars, currentVars, bounds
<1>2. HasPending /\ HasPending' /\ ~Broken'
  BY <1>1 DEF HasPending, Broken
<1>3. Landed("creates") = processed /\ Landed("spends") = processed /\ Landed("movements") = processed
  BY <1>1, LandedBlocks
<1>4. \A t : Landed(t)' = processed
  BY <1>1 DEF Landed, Inserted
<1>5. ready => Sound(current, processed, lost)
  BY <1>1, <1>2, DuringACall DEF ClickInv, CurrentInv
<1>6. Deletes \in Seq(Names)
  BY DEF Deletes, Names
<1>7. Start(pending) \in 0 .. None
  <2>1. pending # {} /\ pending \subseteq Blocks
    BY <1>2, DuringACall
  <2>2. Start(pending) \in Heights(pending)
    BY <2>1, HeightBounds DEF Start
  <2>3. PICK b \in pending : Start(pending) = Height[b]
    BY <2>2 DEF Heights
  <2>4. Height[b] \in Nat /\ Height[b] < None /\ None \in Nat
    BY <2>1, NoneIsAbove
  <2> QED BY <2>3, <2>4
<1>8. ClickTypeOK'
  BY <1>1, <1>6, <1>7, Typed DEF ClickTypeOK
<1>9. CallInv'
  BY <1>1, <1>2, DuringACall DEF CallInv
<1>10. FactsInv'
  BY <1>1, <1>2, <1>3, <1>4, DuringACall DEF FactsInv
<1>11. CurrentInv'
  BY <1>1, <1>5 DEF CurrentInv
<1> QED BY <1>8, <1>9, <1>10, <1>11 DEF ClickInv

(***************************************************************************)
(* The cleaning finds nothing: no fact of the window has been written.     *)
(***************************************************************************)
LEMMA CleanStepStep ==
  ASSUME ClickInv, CleanStep
  PROVE  ClickInv'
<1>1. /\ phase = "clean" /\ queue # <<>> /\ Delete(Head(queue)) /\ queue' = Tail(queue)
      /\ UNCHANGED <<ready, phase, asked, pending, cutoff, prevouts, repaired, lost>>
  BY DEF CleanStep, bounds
<1>2. HasPending /\ HasPending' /\ ~Broken' /\ cutoff = Start(pending)
  BY <1>1 DEF HasPending, Broken, ClickInv, CallInv
<1>3. Landed("creates") = processed /\ Landed("spends") = processed /\ Landed("movements") = processed
  BY <1>1, LandedBlocks
<1>4. \A b \in processed : Height[b] < cutoff
  <2>1. pending # {} /\ pending \subseteq Blocks /\ \A b \in processed, c \in pending : Height[b] < Height[c]
    BY <1>2, DuringACall
  <2>2. PICK c \in pending : cutoff = Height[c]
    BY <1>2, <2>1, HeightBounds DEF Start, Heights
  <2> QED BY <2>1, <2>2
<1>5. Under(processed, cutoff) = processed
  BY <1>4 DEF Under
<1>6. /\ creates = CreateRows(processed) /\ spends = SpendRows(processed)
      /\ Credits(processed) \subseteq movements
      /\ movements \subseteq Credits(processed) \cup Debits(processed)
  BY <1>2, <1>3, DuringACall
<1>7. Below(creates, cutoff) = creates /\ Below(spends, cutoff) = spends
  BY <1>5, <1>6, RowsBelow
<1>8. Below(movements, cutoff) = movements
  <2>1. Below(Credits(processed), cutoff) = Credits(processed) /\ Below(Debits(processed), cutoff) = Debits(processed)
    BY <1>5, RowsBelow
  <2> QED BY <1>6, <2>1 DEF Below
<1>9. UNCHANGED <<creates, spends, movements, processed, current>>
  <2>1. {r \in creates : r.at < cutoff} = creates /\ {r \in spends : r.at < cutoff} = spends
    BY <1>7 DEF Below
  <2>2. {r \in movements : r.at < cutoff} = movements
    BY <1>8 DEF Below
  <2>3. {b \in processed : Height[b] < cutoff} = processed
    BY <1>4
  <2> QED BY <1>1, <2>1, <2>2, <2>3 DEF Delete
<1>10. queue' \in Seq(Names)
  BY <1>1, Typed, HeadTailProperties
<1>11. \A t : Landed(t)' = processed
  BY <1>1, <1>9 DEF Landed, Inserted
<1>12. ready => Sound(current, processed, lost)
  BY <1>1, <1>2, DuringACall DEF ClickInv, CurrentInv
<1>13. ClickTypeOK'
  BY <1>1, <1>9, <1>10, Typed DEF ClickInv, ClickTypeOK
<1>14. CallInv'
  BY <1>1, <1>2, <1>9, DuringACall DEF CallInv
<1>15. FactsInv'
  BY <1>1, <1>2, <1>6, <1>9, <1>11 DEF FactsInv
<1>16. CurrentInv'
  BY <1>1, <1>9, <1>12 DEF CurrentInv
<1> QED BY <1>13, <1>14, <1>15, <1>16 DEF ClickInv

(***************************************************************************)
(* repairMissingCoreCurrentPrevouts: the rows come from the facts.         *)
(***************************************************************************)
LEMMA RepairStep ==
  ASSUME ClickInv, Repair
  PROVE  ClickInv'
<1> DEFINE h == Start(pending) - 1
           rows == {r \in Historical(h) : r.key \in Missing}
           new == {[key |-> r.key, at |-> r.at, spent |-> NoHeight, version |-> 2 * r.at] : r \in rows}
<1>1. /\ phase = "clean" /\ phase' = "load" /\ cutoff' = None /\ repaired' = TRUE
      /\ \A r \in rows : r.spent = NoHeight
      /\ current' = current \cup new
      /\ UNCHANGED <<creates, spends, movements, processed, ready, asked, pending, prevouts, queue, lost>>
  BY DEF Repair, factVars, bounds
<1>2. HasPending /\ HasPending' /\ ~Broken' /\ cutoff = Start(pending)
  BY <1>1 DEF HasPending, Broken, ClickInv, CallInv
<1>3. Landed("creates") = processed /\ Landed("spends") = processed /\ Landed("movements") = processed
  BY <1>1, LandedBlocks
<1>4. \A t : Landed(t)' = processed
  BY <1>1 DEF Landed, Inserted
<1>5. ready => Sound(current, processed, lost)
  BY <1>1, <1>2, DuringACall DEF ClickInv, CurrentInv
<1>6. Historical(h) = OutputRows(processed)
  <2>1. pending # {} /\ pending \subseteq Blocks /\ processed \subseteq Blocks
        /\ \A b \in processed, c \in pending : Height[b] < Height[c]
    BY <1>2, DuringACall
  <2>2. PICK c \in pending : Start(pending) = Height[c]
    BY <2>1, HeightBounds DEF Start, Heights
  <2>3. \A b \in processed : Height[b] \in Nat /\ Height[b] <= h
    <3>1. \A b \in processed : Height[b] < Height[c] /\ Height[b] \in Nat /\ Height[c] \in Nat
      BY <2>1, NoneIsAbove
    <3> QED BY <2>2, <3>1
  <2>4. creates = CreateRows(processed) /\ spends = SpendRows(processed) /\ Chain(processed)
    BY <1>2, <1>3, DuringACall
  <2> HIDE DEF h
  <2>5. {r \in creates : r.at <= h} = CreateRows(processed)
    BY <2>3, <2>4 DEF CreateRows
  <2>6. {s \in spends : s.at <= h} = SpendRows(processed)
    BY <2>3, <2>4 DEF SpendRows
  <2> QED BY <2>4, <2>5, <2>6, HistoricalRows
<1> HIDE DEF h
<1>7. ready => Sound(current', processed, lost)
  <2>1. rows \subseteq Historical(h) /\ Chain(processed) /\ lost \in Nat
    BY <1>2, DuringACall, Typed
  <2> HIDE DEF rows
  <2>2. ASSUME ready PROVE Sound(current \cup new, processed, lost)
    BY <1>1, <1>5, <1>6, <2>1, <2>2, RepairedRowsAreSound
  <2> HIDE DEF new
  <2> QED BY <1>1, <2>2
<1> HIDE DEF rows, new
<1>8. ClickTypeOK'
  BY <1>1, Typed DEF ClickTypeOK
<1>9. CallInv'
  BY <1>1, <1>2, DuringACall DEF CallInv
<1>10. FactsInv'
  BY <1>1, <1>2, <1>3, <1>4, DuringACall DEF FactsInv
<1>11. CurrentInv'
  BY <1>1, <1>7 DEF CurrentInv
<1> QED BY <1>8, <1>9, <1>10, <1>11 DEF ClickInv

(***************************************************************************)
(* insertCoreWindowFacts, one of the inserts.                              *)
(***************************************************************************)
LEMMA InsertFactsStep ==
  ASSUME ClickInv, InsertFacts
  PROVE  ClickInv'
<1>1. PICK table \in FactTables \ {queue[i] : i \in DOMAIN queue} :
       /\ queue' = Append(queue, table)
       /\ creates' = creates \cup IF table # "creates" THEN {}
            ELSE {[key |-> o, at |-> Height[MakerOf(o, pending)]] : o \in CreatedIn(pending)}
       /\ spends' = spends \cup IF table # "spends" THEN {}
            ELSE {[key |-> o, at |-> Height[SpenderOf(o, pending)]] : o \in SpentIn(pending)}
       /\ movements' = movements \cup IF table # "movements" THEN {} ELSE WindowMovements
  BY DEF InsertFacts
<1>2. /\ phase = "facts" /\ phase' = "facts"
      /\ UNCHANGED <<processed, current, ready, asked, pending, cutoff, prevouts, repaired, lost>>
  BY DEF InsertFacts, currentVars, bounds
<1>3. HasPending /\ HasPending' /\ ~Broken' /\ cutoff = None
  BY <1>2 DEF HasPending, Broken, ClickInv, CallInv
<1>4. Chain(processed \cup pending)
  BY <1>3, DuringACall
<1>5. /\ creates' = creates \cup IF table # "creates" THEN {} ELSE CreateRows(pending)
      /\ spends' = spends \cup IF table # "spends" THEN {} ELSE SpendRows(pending)
  BY <1>1, <1>4, WindowRows
<1>6. Credits(pending) \subseteq WindowMovements
      /\ WindowMovements \subseteq Credits(pending) \cup Debits(pending)
  BY <1>4, WindowMovementRows
<1>7. queue \in Seq(Names) /\ table \in Names /\ table \in FactTables
  BY Typed DEF FactTables, Names
<1>8. /\ queue' \in Seq(Names) /\ Len(queue') = Len(queue) + 1 /\ Len(queue) \in Nat
      /\ DOMAIN queue' = 1 .. Len(queue) + 1 /\ DOMAIN queue = 1 .. Len(queue)
      /\ \A i \in DOMAIN queue : queue'[i] = queue[i]
      /\ queue'[Len(queue) + 1] = table
  BY <1>1, <1>7, AppendProperties
<1>9. \A t : (t \in {queue'[i] : i \in DOMAIN queue'}) <=> (t = table \/ t \in {queue[i] : i \in DOMAIN queue})
  BY <1>8
<1>10. table \notin {queue[i] : i \in DOMAIN queue}
  OBVIOUS
<1>11. Landed(table) = processed /\ Landed(table)' = processed \cup pending
  BY <1>2, <1>9, <1>10 DEF Landed, Inserted
<1>12. \A t : t # table => Landed(t)' = Landed(t)
  BY <1>2, <1>9 DEF Landed, Inserted
<1>13. /\ creates = CreateRows(Landed("creates")) /\ spends = SpendRows(Landed("spends"))
       /\ Credits(Landed("movements")) \subseteq movements
       /\ movements \subseteq Credits(Landed("movements")) \cup Debits(Landed("movements"))
  BY <1>3, DuringACall
<1>14. creates' = CreateRows(Landed("creates")')
  <2>1. CASE table = "creates"
    <3>1. Landed("creates")' = processed \cup pending /\ Landed("creates") = processed
      BY <1>11, <2>1
    <3>2. CreateRows(processed \cup pending) = CreateRows(processed) \cup CreateRows(pending)
      BY RowsOfUnion
    <3>3. creates' = creates \cup CreateRows(pending) /\ creates = CreateRows(processed)
      BY <1>5, <1>13, <2>1, <3>1
    <3> QED BY <3>1, <3>2, <3>3
  <2>2. CASE table # "creates"
    BY <1>5, <1>12, <1>13, <2>2
  <2> QED BY <2>1, <2>2
<1>15. spends' = SpendRows(Landed("spends")')
  <2>1. CASE table = "spends"
    <3>1. Landed("spends")' = processed \cup pending /\ Landed("spends") = processed
      BY <1>11, <2>1
    <3>2. SpendRows(processed \cup pending) = SpendRows(processed) \cup SpendRows(pending)
      BY RowsOfUnion
    <3>3. spends' = spends \cup SpendRows(pending) /\ spends = SpendRows(processed)
      BY <1>5, <1>13, <2>1, <3>1
    <3> QED BY <3>1, <3>2, <3>3
  <2>2. CASE table # "spends"
    BY <1>5, <1>12, <1>13, <2>2
  <2> QED BY <2>1, <2>2
<1>16. Credits(Landed("movements")') \subseteq movements'
       /\ movements' \subseteq Credits(Landed("movements")') \cup Debits(Landed("movements")')
  <2>1. CASE table = "movements"
    <3>1. /\ Landed("movements")' = processed \cup pending /\ Landed("movements") = processed
          /\ movements' = movements \cup WindowMovements
      BY <1>1, <1>11, <2>1
    <3>2. /\ Credits(processed \cup pending) = Credits(processed) \cup Credits(pending)
          /\ Debits(processed \cup pending) = Debits(processed) \cup Debits(pending)
      BY RowsOfUnion
    <3> QED BY <1>6, <1>13, <3>1, <3>2
  <2>2. CASE table # "movements"
    BY <1>1, <1>12, <1>13, <2>2
  <2> QED BY <2>1, <2>2
<1>17. ready => Sound(current, processed, lost)
  BY <1>2, <1>3, DuringACall DEF ClickInv, CurrentInv
<1>18. ClickTypeOK'
  <2>1. creates' \subseteq CreateRow /\ spends' \subseteq CreateRow
    BY <1>14, <1>15 DEF CreateRows, SpendRows
  <2>2. movements' \subseteq Movement
    BY <1>16 DEF Credits, Debits
  <2> QED BY <1>2, <1>8, <2>1, <2>2, Typed DEF ClickTypeOK
<1>19. CallInv'
  <2>1. /\ \A i \in DOMAIN queue : queue[i] \in FactTables
        /\ \A i, j \in DOMAIN queue : queue[i] = queue[j] => i = j
    BY <1>2 DEF ClickInv, CallInv
  <2>2. \A i \in DOMAIN queue' : queue'[i] \in FactTables
    BY <1>7, <1>8, <2>1
  <2>3. \A i, j \in DOMAIN queue' : queue'[i] = queue'[j] => i = j
    <3>1. \A i \in DOMAIN queue' : i \in DOMAIN queue \/ i = Len(queue) + 1
      BY <1>8
    <3>2. \A i \in DOMAIN queue : queue'[i] # table
      BY <1>8, <1>10
    <3> QED BY <1>8, <2>1, <3>1, <3>2
  <2> QED BY <1>2, <1>3, <2>2, <2>3, DuringACall DEF CallInv
<1>20. FactsInv'
  BY <1>2, <1>3, <1>14, <1>15, <1>16 DEF FactsInv
<1>21. CurrentInv'
  <2>1. ready => prevouts = {r \in Newest(current) : r.key \in External} /\ Missing = {}
    BY <1>2 DEF ClickInv, CurrentInv
  <2>2. External' = External /\ Missing' = Missing
    BY <1>2 DEF External, Missing
  <2> QED BY <1>2, <1>17, <2>1, <2>2 DEF CurrentInv
<1> QED BY <1>18, <1>19, <1>20, <1>21 DEF ClickInv

(***************************************************************************)
(* insertCoreCurrentStateWindow, once the three inserts of the facts are   *)
(* done.                                                                   *)
(***************************************************************************)
LEMMA InsertCurrentOutputsStep ==
  ASSUME ClickInv, InsertCurrentOutputs
  PROVE  ClickInv'
<1> DEFINE x == pending
           new == {[key |-> r.key, at |-> r.at, spent |-> r.spent, version |-> UtxoVersion(r)] :
                     r \in NextOutputs(prevouts)}
<1>1. /\ phase = "facts" /\ phase' = "balances" /\ queue' = <<>>
      /\ Len(queue) = Cardinality(FactTables)
      /\ current' = current \cup IF ~ready THEN {} ELSE new
      /\ UNCHANGED <<creates, spends, movements, processed, ready, asked, pending, cutoff, prevouts,
                     repaired, lost>>
  BY DEF InsertCurrentOutputs, factVars, bounds
<1>2. HasPending /\ HasPending' /\ ~Broken' /\ ~Broken /\ cutoff = None
  BY <1>1 DEF HasPending, Broken, ClickInv, CallInv
<1>3. {queue[i] : i \in DOMAIN queue} = FactTables
  <2>1. Cardinality(FactTables) = 3
    <3>1. IsFiniteSet({}) /\ Cardinality({}) = 0
      BY FS_EmptySet
    <3>2. IsFiniteSet({} \cup {"creates"}) /\ Cardinality({} \cup {"creates"}) = 1
      BY <3>1, FS_AddElement
    <3>3. {} \cup {"creates"} = {"creates"}
      OBVIOUS
    <3>4. IsFiniteSet({"creates"} \cup {"spends"}) /\ Cardinality({"creates"} \cup {"spends"}) = 2
      BY <3>2, <3>3, FS_AddElement
    <3>5. /\ IsFiniteSet(({"creates"} \cup {"spends"}) \cup {"movements"})
          /\ Cardinality(({"creates"} \cup {"spends"}) \cup {"movements"}) = 3
      BY <3>4, FS_AddElement
    <3>6. ({"creates"} \cup {"spends"}) \cup {"movements"} = FactTables
      BY DEF FactTables
    <3> QED BY <3>5, <3>6
  <2>2. queue \in Seq(Names)
    BY Typed
  <2>3. DOMAIN queue = 1 .. 3
    BY <1>1, <2>1, <2>2
  <2>4. /\ \A i \in DOMAIN queue : queue[i] \in FactTables
        /\ \A i, j \in DOMAIN queue : queue[i] = queue[j] => i = j
    BY <1>1 DEF ClickInv, CallInv
  <2>5. /\ queue[1] \in FactTables /\ queue[2] \in FactTables /\ queue[3] \in FactTables
        /\ queue[1] # queue[2] /\ queue[1] # queue[3] /\ queue[2] # queue[3]
    BY <2>3, <2>4
  <2>6. \A t \in FactTables : t = queue[1] \/ t = queue[2] \/ t = queue[3]
    BY <2>5 DEF FactTables
  <2>7. 1 \in DOMAIN queue /\ 2 \in DOMAIN queue /\ 3 \in DOMAIN queue
    BY <2>3
  <2>8. \A t \in FactTables : t \in {queue[i] : i \in DOMAIN queue}
    BY <2>6, <2>7
  <2> QED BY <2>4, <2>8
<1>4. /\ Landed("creates") = processed \cup x /\ Landed("spends") = processed \cup x
      /\ Landed("movements") = processed \cup x
  <2>1. \A t \in FactTables : Landed(t) = processed \cup x
    BY <1>1, <1>3 DEF Landed, Inserted
  <2> QED BY <2>1 DEF FactTables
<1>5. \A t : Landed(t)' = processed \cup x
  BY <1>1 DEF Landed, Inserted
<1>6. ready => Sound(current', processed \cup x, lost)
  <2> SUFFICES ASSUME ready PROVE Sound(current', processed \cup x, lost)
    OBVIOUS
  <2>1. /\ Chain(processed) /\ Chain(processed \cup pending) /\ lost \in Nat
        /\ \A b \in processed, c \in pending : Height[b] < Height[c]
    BY <1>2, DuringACall, Typed
  <2>2. Sound(current, processed, lost)
    BY <1>1, <1>2 DEF ClickInv, CurrentInv
  <2>3. prevouts = {r \in Newest(current) : r.key \in External} /\ Missing = {}
    BY <1>1 DEF ClickInv, CurrentInv
  <2>4. Sound(current \cup new, processed \cup x, lost)
    BY <2>1, <2>2, <2>3, WindowRowsAreSound
  <2> HIDE DEF new
  <2> QED BY <1>1, <2>4
<1> HIDE DEF new
<1>7. ClickTypeOK'
  BY <1>1, Typed DEF ClickTypeOK
<1>8. CallInv'
  BY <1>1, <1>2, DuringACall DEF CallInv
<1>9. FactsInv'
  BY <1>1, <1>2, <1>4, <1>5, DuringACall DEF FactsInv
<1>10. CurrentInv'
  BY <1>1, <1>6 DEF CurrentInv
<1> QED BY <1>7, <1>8, <1>9, <1>10 DEF ClickInv

\* The balances of a window are inserted: none of the rows above changes.
LEMMA InsertBalancesStep ==
  ASSUME ClickInv, InsertBalances
  PROVE  ClickInv'
<1>1. /\ phase = "balances" /\ phase' = "processed"
      /\ UNCHANGED <<creates, spends, movements, processed, current, ready, asked, pending, cutoff,
                     prevouts, queue, repaired, lost>>
  BY DEF InsertBalances, factVars, bounds
<1>2. HasPending /\ HasPending' /\ ~Broken' /\ ~Broken /\ cutoff = None
  BY <1>1 DEF HasPending, Broken, ClickInv, CallInv
<1>3. \A t : Landed(t) = processed \cup pending /\ Landed(t)' = processed \cup pending
  BY <1>1 DEF Landed, Inserted
<1>4. ready => Sound(current, processed \cup pending, lost)
  BY <1>1, <1>2 DEF ClickInv, CurrentInv
<1>5. ClickTypeOK'
  BY <1>1, Typed DEF ClickTypeOK
<1>6. CallInv'
  BY <1>1, <1>2, DuringACall DEF CallInv
<1>7. FactsInv'
  BY <1>1, <1>2, <1>3, DuringACall DEF FactsInv
<1>8. CurrentInv'
  BY <1>1, <1>4 DEF CurrentInv
<1> QED BY <1>5, <1>6, <1>7, <1>8 DEF ClickInv

(***************************************************************************)
(* The processed blocks are inserted last: now the window counts.          *)
(***************************************************************************)
LEMMA InsertProcessedBlocksStep ==
  ASSUME ClickInv, InsertProcessedBlocks
  PROVE  ClickInv'
<1>1. /\ phase = "processed" /\ phase' = "idle" /\ asked' = None /\ pending' = {} /\ queue' = <<>>
      /\ repaired' = FALSE /\ processed' = processed \cup pending
      /\ UNCHANGED <<creates, spends, movements, current, ready, cutoff, lost>>
  BY DEF InsertProcessedBlocks, EndCall, currentVars, bounds
<1>2. HasPending /\ ~HasPending' /\ ~Broken' /\ ~Broken /\ cutoff = None
  BY <1>1 DEF HasPending, Broken, ClickInv, CallInv
<1>3. \A t : Landed(t) = processed' /\ Landed(t)' = processed'
  BY <1>1 DEF Landed, Inserted
<1>4. ready => Sound(current, processed', lost)
  BY <1>1, <1>2 DEF ClickInv, CurrentInv
<1>5. ClickTypeOK'
  BY <1>1, Typed DEF ClickTypeOK
<1>6. CallInv'
  BY <1>1, <1>2, DuringACall DEF CallInv
<1>7. FactsInv'
  BY <1>1, <1>2, <1>3, DuringACall DEF FactsInv
<1>8. CurrentInv'
  BY <1>1, <1>4 DEF CurrentInv
<1> QED BY <1>5, <1>6, <1>7, <1>8 DEF ClickInv

(***************************************************************************)
(* A call that fails, wherever it is, leaves the rows below its window as  *)
(* they were.                                                              *)
(***************************************************************************)
LEMMA CallFailsStep ==
  ASSUME ClickInv, CallFails
  PROVE  ClickInv'
<1>1. /\ phase # "idle" /\ cutoff' = asked /\ phase' = "idle" /\ asked' = None /\ pending' = {}
      /\ queue' = <<>> /\ repaired' = FALSE
      /\ UNCHANGED <<creates, spends, movements, processed, current, ready, lost>>
  BY DEF CallFails, EndCall, factVars, currentVars
<1>2. /\ Chain(processed) /\ (phase = "materialize" => asked = None /\ ~ready)
      /\ phase # "materialize" => /\ asked < None /\ Above(processed, asked)
                                  /\ \A b \in pending : asked <= Height[b]
      /\ phase = "rewind" => asked <= cutoff
  BY <1>1 DEF ClickInv, CallInv
<1>3. phase \in {"rewind", "load", "clean", "facts", "balances", "processed", "materialize"}
  BY <1>1 DEF ClickInv, ClickTypeOK
<1>4. ~HasPending' /\ \A t : Landed(t)' = processed
  BY <1>1 DEF HasPending, Landed, Inserted
<1>5. ClickTypeOK'
  BY <1>1, Typed DEF ClickTypeOK
<1>6. CASE phase = "materialize"
  <2>1. ~Broken /\ ~Broken' /\ ~ready
    BY <1>1, <1>2, <1>6 DEF Broken
  <2>2. CallInv'
    BY <1>1, <1>2, <1>4, <1>6, <2>1 DEF CallInv
  <2>3. \A t : Landed(t) = processed
    BY <1>6, LandedBlocks
  <2>4. FactsInv'
    BY <1>1, <1>4, <2>1, <2>3 DEF ClickInv, FactsInv
  <2>5. CurrentInv'
    BY <1>1, <2>1 DEF CurrentInv
  <2> QED BY <1>5, <2>2, <2>4, <2>5 DEF ClickInv
<1>7. CASE phase # "materialize"
  <2>1. asked < None /\ asked \in Nat /\ None \in Nat
    BY <1>2, <1>7, Typed
  <2>2. Broken'
    BY <1>1, <2>1 DEF Broken
  <2>3. CallInv'
    BY <1>1, <1>2, <1>4, <1>7, <2>1, <2>2 DEF CallInv
  <2>4. LET p == Under(processed, asked) IN
         /\ Below(creates, asked) = CreateRows(p) /\ Below(spends, asked) = SpendRows(p)
         /\ Credits(p) \subseteq movements
         /\ Below(movements, asked) \subseteq Credits(p) \cup Debits(p)
    <3>1. CASE Broken
      <4>1. phase = "rewind"
        BY <1>1, <3>1 DEF Broken
      <4> QED BY <1>2, <2>1, <3>1, <4>1, FactsFurtherBelow
    <3>2. CASE ~Broken
      BY <1>2, <1>7, <2>1, <3>2, FactsBelow
    <3> QED BY <3>1, <3>2
  <2>5. FactsInv'
    BY <1>1, <2>2, <2>4 DEF FactsInv
  <2>6. CurrentInv'
    BY <1>1, <2>2 DEF CurrentInv
  <2> QED BY <1>5, <2>3, <2>5, <2>6 DEF ClickInv
<1> QED BY <1>6, <1>7

(***************************************************************************)
(* recoverCoreDogecoinWindow: the recovery takes back what the marker      *)
(* names.                                                                  *)
(***************************************************************************)
LEMMA RecoverWindowStep ==
  ASSUME ClickInv, RecoverWindow
  PROVE  ClickInv'
<1> DEFINE all == Statements(cutoff)
           p == Under(processed, cutoff)
<1>1. /\ phase = "idle" /\ cutoff # None /\ cutoff' = cutoff /\ queue' = all
      /\ asked' = cutoff /\ phase' = "rewind"
      /\ UNCHANGED <<creates, spends, movements, processed, current, ready, pending, prevouts,
                     repaired, lost>>
  BY DEF RecoverWindow, TakeBack, Statements, factVars, currentVars, bounds
<1>2. Broken /\ Broken' /\ ~HasPending'
  BY <1>1 DEF Broken, HasPending
<1>3. /\ Chain(processed) /\ pending = {} /\ cutoff < None /\ Above(processed, cutoff)
  BY <1>1, <1>2 DEF ClickInv, CallInv
<1>4. cutoff \in Nat /\ ready \in BOOLEAN
  BY Typed
<1>5. all \in Seq(Names) /\ Statements(cutoff)' = all
  BY <1>1, <1>4, StatementList DEF Statements
<1>6. Remains(Statements(cutoff))' /\ Progress(Statements(cutoff))' = 0
  <2>1. SubSeq(all, 1, Len(all)) = all
    BY <1>5, SubSeqFull
  <2>2. \A q \in Seq(Names) : Len(q) \in Nat
    BY LenProperties
  <2> HIDE DEF all
  <2>3. Len(all) \in Nat /\ Len(all) - Len(all) = 0 /\ 0 + 1 = 1
    BY <1>5, <2>2
  <2>4. Progress(Statements(cutoff))' = 0
    BY <1>1, <1>5, <2>3 DEF Progress
  <2>5. Progress(Statements(cutoff))' \in 0 .. Len(all)
    BY <2>3, <2>4
  <2>6. queue' = SubSeq(all, Progress(Statements(cutoff))' + 1, Len(all))
    BY <1>1, <2>1, <2>3, <2>4
  <2> QED BY <1>5, <2>4, <2>5, <2>6 DEF Remains
<1>7. Chain(p) /\ p \cup {} = p
  BY <1>3, <1>4, UnderIsAChain
<1>8. /\ Below(creates, cutoff) = CreateRows(p) /\ Below(spends, cutoff) = SpendRows(p)
      /\ Credits(p) \subseteq movements /\ Below(movements, cutoff) \subseteq Credits(p) \cup Debits(p)
  BY <1>2 DEF ClickInv, FactsInv
<1> HIDE DEF all
<1>9. ClickTypeOK'
  BY <1>1, <1>5, Typed DEF ClickTypeOK
<1>10. CallInv'
  <2>1. cutoff <= cutoff
    BY <1>4
  <2> QED BY <1>1, <1>2, <1>3, <1>6, <1>7, <2>1 DEF CallInv
<1>11. FactsInv'
  BY <1>1, <1>2, <1>6, <1>8 DEF FactsInv
<1>12. CurrentInv'
  BY <1>1, <1>2, <1>6 DEF CurrentInv
<1> QED BY <1>9, <1>10, <1>11, <1>12 DEF ClickInv

(***************************************************************************)
(* materializeCoreDogecoinCurrentState, up to its first statement.         *)
(***************************************************************************)
LEMMA BeginMaterializationStep ==
  ASSUME ClickInv, BeginMaterialization
  PROVE  ClickInv'
<1>1. /\ phase = "idle" /\ cutoff = None /\ ~ready /\ processed # {}
      /\ phase' = "materialize" /\ queue' = Rebuild
      /\ UNCHANGED <<creates, spends, movements, processed, current, ready, asked, pending, cutoff,
                     prevouts, repaired, lost>>
  BY DEF BeginMaterialization, factVars, currentVars, bounds
<1>2. ~Broken /\ ~Broken' /\ ~HasPending' /\ \A t : Landed(t) = processed /\ Landed(t)' = processed
  BY <1>1 DEF Broken, HasPending, Landed, Inserted
<1>3. Chain(processed) /\ asked = None /\ pending = {}
  BY <1>1 DEF ClickInv, CallInv
<1>4. Rebuild \in Seq(Names) /\ Len(Rebuild) = 4 /\ Rebuild # <<>>
  BY DEF Rebuild, Names
<1>5. Remains(Rebuild)' /\ Progress(Rebuild)' = 0
  <2>1. SubSeq(Rebuild, 1, Len(Rebuild)) = Rebuild
    BY <1>4, SubSeqFull
  <2>2. Progress(Rebuild)' = 0
    BY <1>1, <1>4 DEF Progress
  <2>3. Progress(Rebuild)' \in 0 .. Len(Rebuild) /\ 0 + 1 = 1
    BY <1>4, <2>2
  <2>4. queue' = SubSeq(Rebuild, Progress(Rebuild)' + 1, Len(Rebuild))
    BY <1>1, <2>1, <2>2, <2>3
  <2>5. Progress(Rebuild)' \in 0 .. Len(Rebuild)
    BY <2>3
  <2> QED BY <2>2, <2>4, <2>5, Zenon DEF Remains
<1>6. ClickTypeOK'
  BY <1>1, <1>4, Typed DEF ClickTypeOK
<1>7. CallInv'
  BY <1>1, <1>2, <1>3, <1>4, <1>5 DEF CallInv
<1>8. FactsInv'
  BY <1>1, <1>2 DEF ClickInv, FactsInv
<1>9. CurrentInv'
  BY <1>1, <1>5 DEF CurrentInv
<1> QED BY <1>6, <1>7, <1>8, <1>9 DEF ClickInv

(***************************************************************************)
(* One statement of the materialization; after the last the current state  *)
(* is ready.                                                               *)
(***************************************************************************)
LEMMA MaterializeStepStep ==
  ASSUME ClickInv, MaterializeStep
  PROVE  ClickInv'
<1> DEFINE n == Progress(Rebuild)
           s == Head(queue)
           h == End(processed)
<1>1. /\ phase = "materialize" /\ queue # <<>> /\ Materialized(s, h) /\ queue' = Tail(queue)
      /\ ready' = (queue' = <<>>) /\ phase' = IF queue' = <<>> THEN "idle" ELSE phase
      /\ UNCHANGED <<asked, pending, cutoff, prevouts, repaired, lost>>
  BY DEF MaterializeStep, bounds
<1>2. /\ UNCHANGED <<creates, spends, movements, processed>>
      /\ current' = IF s = "clearOutputs" THEN {}
                    ELSE IF s = "outputs" THEN current \cup UnspentRows(h) ELSE current
  BY <1>1 DEF Materialized, factVars
<1>3. /\ Chain(processed) /\ asked = None /\ pending = {} /\ cutoff = None
      /\ ~ready /\ processed # {} /\ Remains(Rebuild)
  BY <1>1 DEF ClickInv, CallInv
<1>4. /\ Rebuild \in Seq(Names) /\ Len(Rebuild) = 4 /\ Rebuild[1] = "clearOutputs"
      /\ Rebuild[2] = "clearBalances" /\ Rebuild[3] = "outputs" /\ Rebuild[4] = "balances"
  BY DEF Rebuild, Names
<1>5. /\ n \in Nat /\ n < 4 /\ s = Rebuild[n + 1] /\ Tail(queue) \in Seq(Names)
      /\ 4 - Len(Tail(queue)) = n + 1 /\ Tail(queue) = SubSeq(Rebuild, n + 2, 4)
      /\ Tail(queue) = <<>> <=> n + 1 = 4
  BY <1>1, <1>3, <1>4, Advance
<1> HIDE DEF n, s, h
<1>6. Progress(Rebuild)' = n + 1
  BY <1>1, <1>4, <1>5 DEF Progress
<1>7. Remains(Rebuild)'
  <2>1. n + 1 \in 0 .. 4 /\ (n + 1) + 1 = n + 2
    BY <1>5
  <2> QED BY <1>1, <1>4, <1>5, <1>6, <2>1 DEF Remains
<1>8. n \in {0, 1, 2, 3}
  BY <1>5
<1>9. /\ n = 0 => s = "clearOutputs"
      /\ n = 1 => s = "clearBalances"
      /\ n = 2 => s = "outputs"
      /\ n = 3 => s = "balances"
  BY <1>4, <1>5
<1>10. ~Broken /\ ~Broken' /\ ~HasPending' /\ \A t : Landed(t) = processed /\ Landed(t)' = processed
  BY <1>1, <1>2, <1>3 DEF Broken, HasPending, Landed, Inserted
<1>11. /\ creates = CreateRows(processed) /\ spends = SpendRows(processed)
       /\ Credits(processed) \subseteq movements
       /\ movements \subseteq Credits(processed) \cup Debits(processed)
  BY <1>10 DEF ClickInv, FactsInv
<1>12. (n = 1 \/ n = 2 => current = {}) /\ (n > 2 => Sound(current, processed, lost))
  BY <1>1 DEF ClickInv, CurrentInv, n
<1>13. n \in {0, 1} => current' = {}
  BY <1>2, <1>9, <1>12
<1>14. n = 2 => Sound(current', processed, lost)
  <2> SUFFICES ASSUME n = 2 PROVE Sound(current', processed, lost)
    OBVIOUS
  <2>1. processed \subseteq Blocks /\ lost \in Nat
    BY Typed
  <2>2. /\ h \in Heights(processed) /\ h \in Nat /\ \A b \in processed : Height[b] <= h
    BY <1>3, <2>1, HeightBounds DEF h
  <2>3. \E b \in processed : Height[b] = h
    BY <2>2 DEF Heights
  <2>4. {r \in creates : r.at <= h} = CreateRows(processed)
    BY <1>11, <2>2 DEF CreateRows
  <2>5. {r \in spends : r.at <= h} = SpendRows(processed)
    BY <1>11, <2>2 DEF SpendRows
  <2>6. Historical(h) = OutputRows(processed)
    BY <1>3, <2>4, <2>5, HistoricalRows
  <2>7. Sound(UnspentRows(h), processed, lost)
    BY <1>3, <2>1, <2>2, <2>3, <2>6, RebuiltRowsAreSound
  <2>8. current' = UnspentRows(h)
    BY <1>2, <1>9, <1>12
  <2> QED BY <2>7, <2>8
<1>15. n = 3 => Sound(current', processed, lost)
  BY <1>2, <1>9, <1>12
<1>16. ClickTypeOK'
  BY <1>1, <1>2, <1>5, Typed DEF ClickTypeOK
<1>17. CallInv'
  <2>1. CASE queue' = <<>>
    BY <1>1, <1>2, <1>3, <1>10, <2>1 DEF CallInv
  <2>2. CASE queue' # <<>>
    BY <1>1, <1>2, <1>3, <1>7, <1>10, <2>2 DEF CallInv
  <2> QED BY <2>1, <2>2
<1>18. FactsInv'
  <2>1. phase' # "rewind"
    BY <1>1
  <2> QED BY <1>2, <1>10, <1>11, <2>1 DEF FactsInv
<1>19. CurrentInv'
  <2>1. CASE queue' = <<>>
    <3>1. n = 3 /\ phase' = "idle" /\ lost' = lost
      BY <1>1, <1>5, <1>8, <2>1
    <3> QED BY <1>2, <1>15, <3>1 DEF CurrentInv
  <2>2. CASE queue' # <<>>
    <3>1. phase' = "materialize" /\ ~ready'
      BY <1>1, <2>2
    <3>2. /\ n + 1 \in {1, 2} => n \in {0, 1}
          /\ n + 1 > 2 => n = 2 \/ n = 3
      BY <1>8
    <3> QED BY <1>1, <1>2, <1>6, <1>13, <1>14, <1>15, <3>1, <3>2 DEF CurrentInv
  <2> QED BY <2>1, <2>2
<1> QED BY <1>16, <1>17, <1>18, <1>19 DEF ClickInv

\* The row of an unspent output is lost: one more may be absent.
LEMMA LoseRowStep ==
  ASSUME ClickInv, LoseRow
  PROVE  ClickInv'
<1>1. /\ phase = "idle" /\ lost' = lost + 1
      /\ UNCHANGED <<creates, spends, movements, processed, ready, phase, asked, pending, cutoff,
                     prevouts, queue, repaired>>
  BY DEF LoseRow, factVars, callVars
<1>2. PICK r \in current : current' = {q \in current : q.key # r.key}
  BY DEF LoseRow
<1>3. lost \in Nat /\ lost' \in Nat
  BY <1>1, Typed
<1>4. /\ Broken' <=> Broken
      /\ ~HasPending' /\ ~HasPending /\ \A t : Landed(t) = processed /\ Landed(t)' = processed
  BY <1>1 DEF Broken, HasPending, Landed, Inserted
<1>5. ready /\ ~Broken => Sound(current', processed, lost')
  <2> SUFFICES ASSUME ready, ~Broken PROVE Sound(current', processed, lost')
    OBVIOUS
  <2>1. Sound(current, processed, lost)
    BY <1>1 DEF ClickInv, CurrentInv
  <2> QED BY <1>1, <1>2, <1>3, <2>1, LostRowsAreCounted
<1>6. ClickTypeOK'
  BY <1>1, <1>3, Typed DEF ClickInv, ClickTypeOK
<1>7. CallInv'
  BY <1>1, <1>4 DEF ClickInv, CallInv
<1>8. FactsInv'
  BY <1>1, <1>4 DEF ClickInv, FactsInv
<1>9. CurrentInv'
  BY <1>1, <1>4, <1>5 DEF CurrentInv
<1> QED BY <1>6, <1>7, <1>8, <1>9 DEF ClickInv

\* A step that leaves every variable as it is.
LEMMA NothingChanges ==
  ASSUME ClickInv, UNCHANGED clickVars
  PROVE  ClickInv'
<1>1. UNCHANGED <<creates, spends, movements, processed, current, ready, phase, asked, pending,
                  cutoff, prevouts, queue, repaired, lost>>
  BY DEF clickVars, factVars, currentVars, callVars, bounds
<1>2. ClickTypeOK'
  BY <1>1 DEF ClickInv, ClickTypeOK
<1>3. CallInv'
  BY <1>1 DEF ClickInv, CallInv, HasPending, Broken, Remains, Progress, Statements
<1>4. FactsInv'
  BY <1>1 DEF ClickInv, FactsInv, Broken, Landed, Inserted, Progress, Statements
<1>5. CurrentInv'
  BY <1>1 DEF ClickInv, CurrentInv, Broken, Progress, Statements, External, Missing
<1> QED BY <1>2, <1>3, <1>4, <1>5 DEF ClickInv

\* Every step of the warehouse preserves the invariant.
LEMMA ClickStep ==
  ASSUME ClickInv, [ClickNext]_clickVars
  PROVE  ClickInv'
<1>1. ASSUME NEW w \in Windows, BeginWindow(w) PROVE ClickInv'
  BY <1>1, BeginWindowStep
<1>2. CASE RewindStep
  BY <1>2, RewindStepStep
<1>3. CASE RewindDone
  BY <1>3, RewindDoneStep
<1>4. CASE LoadPrevouts
  BY <1>4, LoadPrevoutsStep
<1>5. CASE CleanForRepair
  BY <1>5, CleanForRepairStep
<1>6. CASE CleanStep
  BY <1>6, CleanStepStep
<1>7. CASE Repair
  BY <1>7, RepairStep
<1>8. CASE InsertFacts
  BY <1>8, InsertFactsStep
<1>9. CASE InsertCurrentOutputs
  BY <1>9, InsertCurrentOutputsStep
<1>10. CASE InsertBalances
  BY <1>10, InsertBalancesStep
<1>11. CASE InsertProcessedBlocks
  BY <1>11, InsertProcessedBlocksStep
<1>12. CASE CallFails
  BY <1>12, CallFailsStep
<1>13. CASE RecoverWindow
  BY <1>13, RecoverWindowStep
<1>14. CASE BeginMaterialization
  BY <1>14, BeginMaterializationStep
<1>15. CASE MaterializeStep
  BY <1>15, MaterializeStepStep
<1>16. CASE LoseRow
  BY <1>16, LoseRowStep
<1>17. CASE UNCHANGED clickVars
  BY <1>17, NothingChanges
<1> QED BY <1>1, <1>2, <1>3, <1>4, <1>5, <1>6, <1>7, <1>8, <1>9, <1>10, <1>11, <1>12, <1>13,
           <1>14, <1>15, <1>16, <1>17 DEF ClickNext

(***************************************************************************)
(* The invariant holds: whatever fails between two statements, the facts   *)
(* below the cutoff are those of the blocks below it.                      *)
(***************************************************************************)
THEOREM WarehouseInvariant == ClickSpec => []ClickInv
<1>1. ClickInit => ClickInv
  BY Initially
<1>2. ClickInv /\ [ClickNext]_clickVars => ClickInv'
  BY ClickStep
<1> QED BY <1>1, <1>2, PTL DEF ClickSpec

(***************************************************************************)
(* Between calls the facts are those of the processed blocks.              *)
(***************************************************************************)
LEMMA RestingFacts ==
  ASSUME ClickInv, Resting
  PROVE  /\ Chain(processed) /\ SeenOutputs = OutputRows(processed)
         /\ creates = CreateRows(processed) /\ spends = SpendRows(processed)
         /\ Credits(processed) \subseteq movements
         /\ movements \subseteq Credits(processed) \cup Debits(processed)
<1>1. ~Broken /\ \A t : Landed(t) = processed
  BY DEF Resting, Broken, Landed, Inserted
<1>2. /\ creates = CreateRows(processed) /\ spends = SpendRows(processed)
      /\ Credits(processed) \subseteq movements
      /\ movements \subseteq Credits(processed) \cup Debits(processed) /\ Chain(processed)
  BY <1>1 DEF ClickInv, FactsInv, CallInv
<1>3. \A r \in CreateRow : r.at <= None
  BY NoneIsAbove DEF CreateRow
<1>4. {r \in creates : r.at <= None} = CreateRows(processed)
  BY <1>2, <1>3 DEF CreateRows
<1>5. {r \in spends : r.at <= None} = SpendRows(processed)
  BY <1>2, <1>3 DEF SpendRows
<1>6. Historical(None) = OutputRows(processed)
  BY <1>2, <1>4, <1>5, HistoricalRows
<1> QED BY <1>2, <1>6 DEF SeenOutputs

(***************************************************************************)
(* The movements of the blocks are the ones that their outputs call for.   *)
(***************************************************************************)
LEMMA MovementsOfOutputs ==
  ASSUME NEW p, Chain(p), SeenOutputs = OutputRows(p)
  PROVE  ExactMovements = Credits(p) \cup Debits(p)
         /\ Credits(p) = {m \in ExactMovements : m.dir = "credit"}
<1> DEFINE credits == {[dir |-> "credit", key |-> r.key, at |-> r.at] : r \in {r \in SeenOutputs : Owned(r.key)}}
           debits == {[dir |-> "debit", key |-> r.key, at |-> r.spent] :
                        r \in {r \in SeenOutputs : Owned(r.key) /\ r.spent # NoHeight}}
<1>1. /\ Chain(p) /\ SeenOutputs = OutputRows(p)
      /\ \A b \in p : Height[b] \in Nat /\ Height[b] \in 0 .. None - 1 /\ Height[b] # NoHeight
      /\ \A b \in p : Creates(b) \subseteq Outputs /\ Spends(b) \subseteq Outputs
      /\ \A b \in p : \A o \in Spends(b) : \E c \in p : o \in Creates(c)
  BY OutputsOfAChain, NoneIsAbove DEF NoHeight
<1>2. ASSUME NEW m \in credits PROVE m \in Credits(p)
  <2>1. PICK r \in OutputRows(p) :
          Owned(r.key) /\ m = [dir |-> "credit", key |-> r.key, at |-> r.at]
    BY <1>1
  <2>2. PICK b \in p : r.key \in Creates(b) /\ r.at = Height[b]
    BY DEF OutputRows
  <2>3. m.dir = "credit" /\ m.key = r.key /\ m.at = Height[b] /\ m \in Movement
    BY <1>1, <2>1, <2>2 DEF Movement
  <2> QED BY <2>1, <2>2, <2>3 DEF Credits
<1>3. ASSUME NEW m \in debits PROVE m \in Debits(p)
  <2>1. PICK r \in OutputRows(p) :
          Owned(r.key) /\ r.spent # NoHeight /\ m = [dir |-> "debit", key |-> r.key, at |-> r.spent]
    BY <1>1
  <2>2. PICK b \in p : r.key \in Spends(b) /\ r.spent = Height[b]
    BY <2>1 DEF OutputRows
  <2>3. m.dir = "debit" /\ m.key = r.key /\ m.at = Height[b] /\ m \in Movement
    BY <1>1, <2>1, <2>2 DEF Movement
  <2> QED BY <2>1, <2>2, <2>3 DEF Debits
<1>4. ASSUME NEW b \in p, NEW o \in Creates(b)
      PROVE  \E r \in OutputRows(p) : r.key = o /\ r.at = Height[b]
  <2>1. CASE o \in SpentIn(p)
    <3>1. PICK c \in p : o \in Spends(c)
      BY <2>1 DEF SpentIn
    <3> DEFINE r == [key |-> o, at |-> Height[b], spent |-> Height[c]]
    <3>2. r.key = o /\ r.at = Height[b] /\ r.spent = Height[c] /\ r \in OutputRow
      BY <1>1, <3>1 DEF OutputRow
    <3> HIDE DEF r
    <3>3. r \in OutputRows(p)
      BY <1>1, <3>1, <3>2 DEF OutputRows
    <3> QED BY <3>2, <3>3
  <2>2. CASE o \notin SpentIn(p)
    <3> DEFINE r == [key |-> o, at |-> Height[b], spent |-> NoHeight]
    <3>2. r.key = o /\ r.at = Height[b] /\ r.spent = NoHeight /\ r \in OutputRow
      BY <1>1 DEF OutputRow
    <3> HIDE DEF r
    <3>3. r \in OutputRows(p)
      BY <2>2, <3>2 DEF OutputRows
    <3> QED BY <3>2, <3>3
  <2> QED BY <2>1, <2>2
<1>5. ASSUME NEW m \in Credits(p) PROVE m \in credits
  <2>1. PICK b \in p : m.key \in Creates(b) /\ m.at = Height[b]
    BY DEF Credits
  <2>2. m \in Movement /\ m.dir = "credit" /\ Owned(m.key)
    BY DEF Credits
  <2>3. PICK r \in OutputRows(p) : r.key = m.key /\ r.at = m.at
    BY <1>4, <2>1
  <2>4. m = [dir |-> "credit", key |-> r.key, at |-> r.at]
    BY <2>2, <2>3 DEF Movement
  <2> QED BY <1>1, <2>2, <2>3, <2>4
<1>6. ASSUME NEW m \in Debits(p) PROVE m \in debits
  <2>1. PICK b \in p : m.key \in Spends(b) /\ m.at = Height[b]
    BY DEF Debits
  <2>2. m \in Movement /\ m.dir = "debit" /\ Owned(m.key)
    BY DEF Debits
  <2>3. PICK c \in p : m.key \in Creates(c)
    BY <1>1, <2>1
  <2> DEFINE r == [key |-> m.key, at |-> Height[c], spent |-> Height[b]]
  <2>4. r.key = m.key /\ r.at = Height[c] /\ r.spent = Height[b] /\ r \in OutputRow
    BY <1>1, <2>1, <2>3 DEF OutputRow
  <2> HIDE DEF r
  <2>5. r \in OutputRows(p) /\ r.spent # NoHeight
    BY <1>1, <2>1, <2>3, <2>4 DEF OutputRows
  <2>6. m = [dir |-> "debit", key |-> r.key, at |-> r.spent]
    BY <2>1, <2>2, <2>4 DEF Movement
  <2> QED BY <1>1, <2>2, <2>4, <2>5, <2>6
<1>7. ExactMovements = credits \cup debits
  BY DEF ExactMovements
<1>8. /\ \A m \in credits : m.dir = "credit"
      /\ \A m \in debits : m.dir = "debit"
  OBVIOUS
<1> HIDE DEF credits, debits
<1>9. credits = Credits(p) /\ debits = Debits(p)
  BY <1>2, <1>3, <1>5, <1>6
<1> QED BY <1>7, <1>8, <1>9

(***************************************************************************)
(* Between calls, what is kept beside the facts follows them: the newest   *)
(* current rows say what the facts say and lack only rows that were lost;  *)
(* the movements lack no credit and claim nothing else.                    *)
(***************************************************************************)
THEOREM KeptRowsAreKept == ClickSpec => []KeptRowsFollowFacts
<1>1. ClickInv => KeptRowsFollowFacts
  <2> SUFFICES ASSUME ClickInv PROVE CurrentRowsAgree /\ MovementsFollowFacts
    BY DEF KeptRowsFollowFacts
  <2>1. MovementsFollowFacts
    <3> SUFFICES ASSUME Resting
                 PROVE  /\ movements \subseteq ExactMovements
                        /\ {m \in ExactMovements : m.dir = "credit"} \subseteq movements
      BY DEF MovementsFollowFacts
    <3> QED BY RestingFacts, MovementsOfOutputs
  <2>2. CurrentRowsAgree
    <3> SUFFICES ASSUME Resting, ready
                 PROVE  /\ \A r \in Newest(current) :
                             [key |-> r.key, at |-> r.at, spent |-> r.spent] \in Historical(None)
                        /\ Cardinality(LiveKeys(Historical(None)) \ LiveKeys(Newest(current))) <= lost
      BY DEF CurrentRowsAgree
    <3>1. Chain(processed) /\ Historical(None) = OutputRows(processed)
      BY RestingFacts DEF SeenOutputs
    <3>2. Sound(current, processed, lost)
      BY DEF Resting, Broken, ClickInv, CurrentInv
    <3>3. /\ \A r \in current : SoundRow(r, current, processed)
          /\ IsFiniteSet(Absent(current, processed)) /\ Cardinality(Absent(current, processed)) <= lost
      BY <3>2 DEF Sound
    <3>4. /\ \A r \in current : \E q \in Newest(current) : q.key = r.key
          /\ \A r \in Newest(current) :
               [key |-> r.key, at |-> r.at, spent |-> r.spent] \in OutputRows(processed)
      BY <3>1, <3>3, NewestRowIsRight
    <3> DEFINE gone == LiveKeys(Historical(None)) \ LiveKeys(Newest(current))
    <3>5. gone \subseteq Absent(current, processed)
      <4> SUFFICES ASSUME NEW o \in gone PROVE o \in Absent(current, processed)
        OBVIOUS
      <4>1. o \in CreatedIn(processed) \ SpentIn(processed)
        BY <3>1, LiveOutputs
      <4>2. ASSUME NEW r \in current, r.key = o PROVE FALSE
        <5>1. PICK q \in Newest(current) : q.key = o
          BY <3>4, <4>2
        <5> DEFINE s == [key |-> q.key, at |-> q.at, spent |-> q.spent]
        <5>2. s \in OutputRows(processed) /\ s.key = o /\ s.spent = q.spent
          BY <3>4, <5>1
        <5> HIDE DEF s
        <5>3. q.spent # NoHeight
          BY <5>1 DEF LiveKeys
        <5>4. o \in SpentIn(processed)
          BY <5>2, <5>3 DEF OutputRows, SpentIn
        <5> QED BY <4>1, <5>4
      <4> QED BY <4>1, <4>2 DEF Absent
    <3>6. IsFiniteSet(gone) /\ Cardinality(gone) <= Cardinality(Absent(current, processed))
      BY <3>3, <3>5, FS_Subset
    <3>7. Cardinality(gone) \in Nat /\ Cardinality(Absent(current, processed)) \in Nat /\ lost \in Nat
      BY <3>3, <3>6, FS_CardinalityType, Typed
    <3> HIDE DEF gone
    <3>8. Cardinality(gone) <= lost
      BY <3>3, <3>6, <3>7
    <3> QED BY <3>1, <3>4, <3>8 DEF gone
  <2> QED BY <2>1, <2>2
<1> QED BY <1>1, WarehouseInvariant, PTL

-----------------------------------------------------------------------------
(* Balances                                                                *)

\* The outputs the blocks p leave unspent.
Live(p) == CreatedIn(p) \ SpentIn(p)

(***************************************************************************)
(* The rows of balances say what the addresses hold after the blocks p:    *)
(* the newest row of an address is one, and where there is none the        *)
(* address holds nothing.                                                  *)
(***************************************************************************)
BalanceRow == [key : Addresses, amount : Int, version : Int]
SoundBalances(rows, p) ==
  /\ \A r \in rows : r \in BalanceRow /\ r.version <= 2 * End(p) + 1
  /\ \A a \in Addresses :
       \/ Holdings(Live(p), a) = 0 /\ \A r \in rows : r.key # a
       \/ \E r \in rows : /\ r.key = a /\ r.amount = Holdings(Live(p), a)
                          /\ \A q \in rows : q.key = a => q = r \/ q.version < r.version

\* What a call that applies x on top of p will write.
Touched(x) == {Owner[o] : o \in {o \in CreatedIn(x) \cup SpentIn(x) : Owned(o)}}
PlannedRows(p, x) ==
  {[key |-> a, version |-> 2 * End(x) + 1, amount |-> Holdings(Live(p \cup x), a)] : a \in Touched(x)}

WindowInv ==
  /\ asked # None => asked \in Heights(Blocks)
  /\ Broken => cutoff \in Heights(Blocks)
  /\ IsFiniteSet(pending) /\ Cardinality(pending) <= WindowSize

BalanceInv ==
  /\ ready /\ ~Broken =>
       SoundBalances(balanceRows, IF phase = "processed" THEN processed \cup pending ELSE processed)
  /\ ready /\ phase \in {"facts", "balances"} => planned = PlannedRows(processed, pending)
  /\ ready /\ phase = "rewind" =>
       LET n == Progress(Statements(cutoff)) IN
       /\ n \in {6, 7} => balanceRows = {}
       /\ n = 7 => LiveKeys(Newest(current)) = Live(Under(processed, cutoff))
       /\ n > 7 => SoundBalances(balanceRows, Under(processed, cutoff))
  /\ phase = "materialize" =>
       LET n == Progress(Rebuild) IN
       /\ n \in {2, 3} => balanceRows = {}
       /\ n = 3 => LiveKeys(Newest(current)) = Live(processed)

SeesInv ==
  /\ Chain(Counted)
  /\ SeenOutputs = OutputRows(Counted)
  /\ SeenBalances = [a \in Addresses |-> Holdings(Live(Counted), a)]
  /\ ExactMovements = Credits(Counted) \cup Debits(Counted)

-----------------------------------------------------------------------------
(* Sums                                                                    *)

\* A family of sets of outputs has a least member.
LEMMA LeastSet ==
  ASSUME NEW C, C \subseteq SUBSET Outputs, C # {}
  PROVE  \E s \in C : \A x \in s : s \ {x} \notin C
<1> DEFINE D == {Cardinality(s) : s \in C}
<1>1. \A s \in SUBSET Outputs : IsFiniteSet(s) /\ Cardinality(s) \in Nat
  BY ChainsAreValid, FS_Subset, FS_CardinalityType
<1>2. D \subseteq Nat /\ D # {}
  BY <1>1
<1>3. PICK d \in D : \A c \in D : d <= c
  <2> HIDE DEF D
  <2> QED BY <1>2, LeastOf
<1>4. PICK s \in C : d = Cardinality(s)
  OBVIOUS
<1>5. ASSUME NEW x \in s PROVE s \ {x} \notin C
  <2>1. Cardinality(s \ {x}) = Cardinality(s) - 1
    BY <1>1, <1>4, FS_RemoveElement
  <2>2. Cardinality(s) \in Nat /\ ~(Cardinality(s) <= Cardinality(s) - 1)
    BY <1>1, <1>4
  <2> QED BY <1>3, <1>4, <2>1, <2>2
<1> QED BY <1>4, <1>5

(***************************************************************************)
(* What MapThenSumSet computes: a function on the subsets of S that adds   *)
(* up one output after the other.                                          *)
(***************************************************************************)
Pick(s) == CHOOSE x \in s : TRUE
Summing(S, f) ==
  f = [s \in SUBSET S |-> IF s = {} THEN 0 ELSE Amount[Pick(s)] + f[s \ {Pick(s)}]]
SumOver(S) == CHOOSE f : Summing(S, f)
Total(S) == SumOver(S)[S]

\* The holdings of an address are the total of its outputs.
LEMMA HoldingsAreTotals ==
  ASSUME NEW os, NEW a
  PROVE  Holdings(os, a) = Total({o \in os : Owner[o] = a})
  BY DEF Holdings, MapThenSumSet, MapThenFoldSet, Total, SumOver, Summing, Pick

\* The same, on the subsets of up to n outputs.
UpTo(S, n) == {s \in SUBSET S : Cardinality(s) <= n}
SummingUpTo(S, n, f) ==
  f = [s \in UpTo(S, n) |-> IF s = {} THEN 0 ELSE Amount[Pick(s)] + f[s \ {Pick(s)}]]

(***************************************************************************)
(* There is such a function: one for up to n outputs is extended to n + 1, *)
(* and no n is the least that has none.                                    *)
(***************************************************************************)
LEMMA SumsExist ==
  ASSUME NEW S, S \subseteq Outputs
  PROVE  Summing(S, SumOver(S))
<1> DEFINE Missed == {n \in Nat : ~ \E f : SummingUpTo(S, n, f)}
<1>1. \A s \in SUBSET S : IsFiniteSet(s) /\ Cardinality(s) \in Nat
  BY ChainsAreValid, FS_Subset, FS_CardinalityType
<1>2. ASSUME NEW s \in SUBSET S, s # {}
      PROVE  /\ Pick(s) \in s /\ s \ {Pick(s)} \in SUBSET S
             /\ Cardinality(s \ {Pick(s)}) = Cardinality(s) - 1
  <2>1. Pick(s) \in s
    BY <1>2 DEF Pick
  <2> QED BY <1>1, <2>1, FS_RemoveElement
<1>3. Missed = {}
  <2>1. SUFFICES ASSUME Missed # {} PROVE FALSE
    OBVIOUS
  <2>2. PICK n \in Missed : \A m \in Missed : n <= m
    <3>1. Missed \subseteq Nat
      OBVIOUS
    <3> HIDE DEF Missed
    <3> QED BY <2>1, <3>1, LeastOf
  <2>3. CASE n = 0
    <3> DEFINE f == [s \in UpTo(S, 0) |-> 0]
    <3>1. ASSUME NEW s \in UpTo(S, 0) PROVE s = {}
      <4>1. s \in SUBSET S /\ Cardinality(s) <= 0 /\ Cardinality(s) \in Nat
        BY <1>1 DEF UpTo
      <4>2. Cardinality(s) = 0
        BY <4>1
      <4> QED BY <1>1, <4>1, <4>2, FS_EmptySet
    <3>2. f = [s \in UpTo(S, 0) |-> IF s = {} THEN 0 ELSE Amount[Pick(s)] + f[s \ {Pick(s)}]]
      BY <3>1
    <3> HIDE DEF f
    <3>3. SummingUpTo(S, 0, f)
      BY <3>2 DEF SummingUpTo
    <3> QED BY <2>2, <2>3, <3>3
  <2>4. CASE n # 0
    <3>1. n \in Nat /\ n - 1 \in Nat /\ ~(n <= n - 1)
      BY <2>4
    <3>2. PICK g : SummingUpTo(S, n - 1, g)
      <4>1. n - 1 \notin Missed
        <5> HIDE DEF Missed
        <5> QED BY <2>2, <3>1
      <4> QED BY <3>1, <4>1
    <3> DEFINE f == [s \in UpTo(S, n) |->
                       IF s = {} THEN 0 ELSE Amount[Pick(s)] + g[s \ {Pick(s)}]]
    <3>3. ASSUME NEW s \in UpTo(S, n - 1) PROVE s \in UpTo(S, n) /\ g[s] = f[s]
      <4>1. s \in UpTo(S, n)
        BY <1>1, <3>1 DEF UpTo
      <4>2. g[s] = IF s = {} THEN 0 ELSE Amount[Pick(s)] + g[s \ {Pick(s)}]
        BY <3>2 DEF SummingUpTo
      <4> QED BY <4>1, <4>2
    <3>4. ASSUME NEW s \in UpTo(S, n), s # {} PROVE s \ {Pick(s)} \in UpTo(S, n - 1)
      <4>1. s \in SUBSET S /\ Cardinality(s) <= n /\ Cardinality(s) \in Nat
        BY <1>1 DEF UpTo
      <4>2. s \ {Pick(s)} \in SUBSET S /\ Cardinality(s \ {Pick(s)}) = Cardinality(s) - 1
        BY <1>2, <3>4, <4>1
      <4>3. Cardinality(s) - 1 <= n - 1
        BY <3>1, <4>1
      <4> QED BY <4>2, <4>3 DEF UpTo
    <3>5. ASSUME NEW s \in UpTo(S, n)
          PROVE  (IF s = {} THEN 0 ELSE Amount[Pick(s)] + g[s \ {Pick(s)}])
                   = IF s = {} THEN 0 ELSE Amount[Pick(s)] + f[s \ {Pick(s)}]
      <4> HIDE DEF f
      <4>1. CASE s = {} BY <4>1
      <4>2. CASE s # {}
        <5>1. g[s \ {Pick(s)}] = f[s \ {Pick(s)}]
          BY <3>3, <3>4, <4>2
        <5> QED BY <4>2, <5>1
      <4> QED BY <4>1, <4>2
    <3>6. f = [s \in UpTo(S, n) |-> IF s = {} THEN 0 ELSE Amount[Pick(s)] + f[s \ {Pick(s)}]]
      BY <3>5
    <3> HIDE DEF f
    <3>7. SummingUpTo(S, n, f)
      BY <3>6 DEF SummingUpTo
    <3> QED BY <2>2, <3>7
  <2> QED BY <2>3, <2>4
<1>4. UpTo(S, Cardinality(S)) = SUBSET S
  <2>1. IsFiniteSet(S)
    BY <1>1
  <2>2. \A s \in SUBSET S : Cardinality(s) <= Cardinality(S)
    BY <2>1, FS_Subset
  <2> QED BY <2>2 DEF UpTo
<1>5. PICK f : SummingUpTo(S, Cardinality(S), f)
  BY <1>1, <1>3
<1>6. Summing(S, f)
  BY <1>4, <1>5 DEF SummingUpTo, Summing
<1> QED BY <1>6 DEF SumOver

\* The functions of two sets agree on what is in both.
LEMMA SumsAgree ==
  ASSUME NEW S, S \subseteq Outputs, NEW T, T \subseteq S
  PROVE  \A s \in SUBSET T : SumOver(S)[s] = SumOver(T)[s]
<1> DEFINE C == {s \in SUBSET T : SumOver(S)[s] # SumOver(T)[s]}
<1>1. SUFFICES ASSUME C # {} PROVE FALSE
  OBVIOUS
<1>2. PICK s \in C : \A x \in s : s \ {x} \notin C
  <2>1. C \subseteq SUBSET Outputs
    OBVIOUS
  <2> HIDE DEF C
  <2> QED BY <1>1, <2>1, LeastSet
<1>3. s \in SUBSET T /\ s \in SUBSET S /\ SumOver(S)[s] # SumOver(T)[s]
  OBVIOUS
<1>4. /\ SumOver(S)[s] = IF s = {} THEN 0 ELSE Amount[Pick(s)] + SumOver(S)[s \ {Pick(s)}]
      /\ SumOver(T)[s] = IF s = {} THEN 0 ELSE Amount[Pick(s)] + SumOver(T)[s \ {Pick(s)}]
  <2>1. Summing(S, SumOver(S)) /\ Summing(T, SumOver(T))
    BY SumsExist
  <2> DEFINE f == SumOver(S)
             g == SumOver(T)
  <2> HIDE DEF f, g
  <2>2. /\ f = [t \in SUBSET S |-> IF t = {} THEN 0 ELSE Amount[Pick(t)] + f[t \ {Pick(t)}]]
        /\ g = [t \in SUBSET T |-> IF t = {} THEN 0 ELSE Amount[Pick(t)] + g[t \ {Pick(t)}]]
    BY <2>1 DEF f, g, Summing
  <2>3. /\ f[s] = IF s = {} THEN 0 ELSE Amount[Pick(s)] + f[s \ {Pick(s)}]
        /\ g[s] = IF s = {} THEN 0 ELSE Amount[Pick(s)] + g[s \ {Pick(s)}]
    BY <1>3, <2>2
  <2> QED BY <2>3 DEF f, g
<1>5. CASE s = {}
  BY <1>3, <1>4, <1>5
<1>6. CASE s # {}
  <2>1. Pick(s) \in s
    BY <1>6 DEF Pick
  <2>2. s \ {Pick(s)} \in SUBSET T /\ s \ {Pick(s)} \notin C
    BY <1>2, <1>3, <2>1
  <2>3. SumOver(S)[s \ {Pick(s)}] = SumOver(T)[s \ {Pick(s)}]
    BY <2>2
  <2> QED BY <1>3, <1>4, <1>6, <2>3
<1> QED BY <1>5, <1>6

\* A total is that of the set without one of its members, and this member.
LEMMA TotalStep ==
  /\ Total({}) = 0
  /\ \A s \in SUBSET Outputs : s # {} => Pick(s) \in s /\ Total(s) = Amount[Pick(s)] + Total(s \ {Pick(s)})
<1>1. ASSUME NEW s \in SUBSET Outputs
      PROVE  SumOver(s)[s] = IF s = {} THEN 0 ELSE Amount[Pick(s)] + SumOver(s)[s \ {Pick(s)}]
  <2>1. Summing(s, SumOver(s))
    BY SumsExist
  <2> DEFINE f == SumOver(s)
  <2> HIDE DEF f
  <2>2. f = [t \in SUBSET s |-> IF t = {} THEN 0 ELSE Amount[Pick(t)] + f[t \ {Pick(t)}]]
    BY <2>1 DEF f, Summing
  <2>3. f[s] = IF s = {} THEN 0 ELSE Amount[Pick(s)] + f[s \ {Pick(s)}]
    BY <2>2
  <2> QED BY <2>3 DEF f
<1>2. Total({}) = 0
  BY <1>1 DEF Total
<1>3. ASSUME NEW s \in SUBSET Outputs, s # {}
      PROVE  Pick(s) \in s /\ Total(s) = Amount[Pick(s)] + Total(s \ {Pick(s)})
  <2>1. Pick(s) \in s
    BY <1>3 DEF Pick
  <2>2. SumOver(s)[s \ {Pick(s)}] = SumOver(s \ {Pick(s)})[s \ {Pick(s)}]
    BY SumsAgree
  <2> QED BY <1>1, <1>3, <2>1, <2>2 DEF Total
<1> QED BY <1>2, <1>3

\* ... a number, ...
LEMMA TotalsAreNumbers == \A s \in SUBSET Outputs : Total(s) \in Nat
<1> DEFINE C == {s \in SUBSET Outputs : Total(s) \notin Nat}
<1>1. SUFFICES ASSUME C # {} PROVE FALSE
  OBVIOUS
<1>2. PICK s \in C : \A x \in s : s \ {x} \notin C
  <2>1. C \subseteq SUBSET Outputs
    OBVIOUS
  <2> HIDE DEF C
  <2> QED BY <1>1, <2>1, LeastSet
<1>3. CASE s = {}
  BY <1>3, TotalStep
<1>4. CASE s # {}
  <2>1. s \in SUBSET Outputs /\ Pick(s) \in s /\ Total(s) = Amount[Pick(s)] + Total(s \ {Pick(s)})
    BY <1>4, TotalStep
  <2>2. Total(s \ {Pick(s)}) \in Nat
    BY <1>2, <2>1
  <2>3. Amount[Pick(s)] \in Nat
    BY <2>1, EffectsConstants
  <2> QED BY <2>1, <2>2, <2>3
<1> QED BY <1>3, <1>4

\* ... whichever member that is.
LEMMA TotalWithout ==
  \A s \in SUBSET Outputs : \A y \in s : Total(s) = Amount[y] + Total(s \ {y})
<1> DEFINE C == {s \in SUBSET Outputs : \E y \in s : Total(s) # Amount[y] + Total(s \ {y})}
<1>1. SUFFICES ASSUME C # {} PROVE FALSE
  OBVIOUS
<1>2. PICK s \in C : \A x \in s : s \ {x} \notin C
  <2>1. C \subseteq SUBSET Outputs
    OBVIOUS
  <2> HIDE DEF C
  <2> QED BY <1>1, <2>1, LeastSet
<1>3. PICK y \in s : Total(s) # Amount[y] + Total(s \ {y})
  OBVIOUS
<1> DEFINE x == Pick(s)
<1>4. s \in SUBSET Outputs /\ x \in s /\ Total(s) = Amount[x] + Total(s \ {x})
  BY <1>3, TotalStep
<1> HIDE DEF x
<1>5. x # y
  BY <1>3, <1>4
<1>6. s \ {x} \notin C /\ s \ {y} \notin C /\ s \ {x} \in SUBSET Outputs /\ s \ {y} \in SUBSET Outputs
  BY <1>2, <1>4
<1>7. /\ Total(s \ {x}) = Amount[y] + Total((s \ {x}) \ {y})
      /\ Total(s \ {y}) = Amount[x] + Total((s \ {y}) \ {x})
  BY <1>4, <1>5, <1>6
<1>8. (s \ {x}) \ {y} = (s \ {y}) \ {x}
  OBVIOUS
<1>9. Amount[x] \in Nat /\ Amount[y] \in Nat /\ Total((s \ {y}) \ {x}) \in Nat
  BY <1>4, <1>6, EffectsConstants, TotalsAreNumbers
<1> DEFINE rest == Total((s \ {y}) \ {x})
<1>10. /\ Total(s) = Amount[x] + (Amount[y] + rest) /\ Total(s \ {y}) = Amount[x] + rest
       /\ rest \in Nat
  BY <1>4, <1>7, <1>8, <1>9
<1> HIDE DEF rest
<1>11. Total(s) = Amount[y] + Total(s \ {y})
  BY <1>9, <1>10
<1> QED BY <1>3, <1>11

\* The total of two sets that share nothing is the sum of their totals.
LEMMA TotalsAdd ==
  ASSUME NEW A, A \subseteq Outputs, NEW B, B \subseteq Outputs, A \cap B = {}
  PROVE  Total(A \cup B) = Total(A) + Total(B)
<1> DEFINE C == {s \in SUBSET B : Total(A \cup s) # Total(A) + Total(s)}
<1>1. SUFFICES ASSUME C # {} PROVE FALSE
  OBVIOUS
<1>2. PICK s \in C : \A x \in s : s \ {x} \notin C
  <2>1. C \subseteq SUBSET Outputs
    OBVIOUS
  <2> HIDE DEF C
  <2> QED BY <1>1, <2>1, LeastSet
<1>3. s \in SUBSET B /\ Total(A \cup s) # Total(A) + Total(s)
  OBVIOUS
<1>4. CASE s = {}
  <2>1. A \cup s = A /\ Total(s) = 0 /\ Total(A) \in Nat
    BY <1>4, TotalStep, TotalsAreNumbers
  <2> QED BY <1>3, <2>1
<1>5. CASE s # {}
  <2>1. PICK x \in s : TRUE
    BY <1>5
  <2>2. Total(A \cup (s \ {x})) = Total(A) + Total(s \ {x})
    BY <1>2, <1>3, <2>1
  <2>3. (A \cup s) \ {x} = A \cup (s \ {x})
    BY <1>3, <2>1
  <2>4. Total(A \cup s) = Amount[x] + Total((A \cup s) \ {x})
    BY <1>3, <2>1, TotalWithout
  <2>5. Total(s) = Amount[x] + Total(s \ {x})
    BY <1>3, <2>1, TotalWithout
  <2>6. Amount[x] \in Nat /\ Total(A) \in Nat /\ Total(s \ {x}) \in Nat
    <3>1. x \in Outputs /\ A \in SUBSET Outputs /\ s \ {x} \in SUBSET Outputs
      BY <1>3, <2>1
    <3> QED BY <3>1, EffectsConstants, TotalsAreNumbers
  <2> DEFINE rest == Total(s \ {x})
  <2>7. /\ Total(A \cup s) = Amount[x] + (Total(A) + rest) /\ Total(s) = Amount[x] + rest
        /\ rest \in Nat
    BY <2>2, <2>3, <2>4, <2>5, <2>6
  <2> HIDE DEF rest
  <2>8. Total(A \cup s) = Total(A) + Total(s)
    BY <2>6, <2>7
  <2> QED BY <1>3, <2>8
<1> QED BY <1>4, <1>5

(***************************************************************************)
(* What an address holds: nothing of nothing, a number, and of two sets    *)
(* that share no output what it holds of either.                           *)
(***************************************************************************)
LEMMA HoldingsOfOutputs ==
  ASSUME NEW a
  PROVE  /\ \A os : (\A o \in os : Owner[o] # a) => Holdings(os, a) = 0
         /\ \A os \in SUBSET Outputs : Holdings(os, a) \in Nat
         /\ \A os, us : (\A o : Owner[o] = a => (o \in os <=> o \in us)) => Holdings(os, a) = Holdings(us, a)
         /\ \A os, us \in SUBSET Outputs :
              os \cap us = {} => Holdings(os \cup us, a) = Holdings(os, a) + Holdings(us, a)
<1> DEFINE of(os) == {o \in os : Owner[o] = a}
<1>1. \A os : Holdings(os, a) = Total(of(os))
  BY HoldingsAreTotals
<1>2. ASSUME NEW os, \A o \in os : Owner[o] # a PROVE Holdings(os, a) = 0
  <2>1. of(os) = {}
    BY <1>2
  <2> QED BY <1>1, <2>1, TotalStep
<1>3. ASSUME NEW os \in SUBSET Outputs PROVE Holdings(os, a) \in Nat
  <2>1. of(os) \in SUBSET Outputs
    OBVIOUS
  <2> QED BY <1>1, <2>1, TotalsAreNumbers
<1>4. ASSUME NEW os, NEW us, \A o : Owner[o] = a => (o \in os <=> o \in us)
      PROVE  Holdings(os, a) = Holdings(us, a)
  <2>1. of(os) = of(us)
    BY <1>4
  <2> QED BY <1>1, <2>1
<1>5. ASSUME NEW os \in SUBSET Outputs, NEW us \in SUBSET Outputs, os \cap us = {}
      PROVE  Holdings(os \cup us, a) = Holdings(os, a) + Holdings(us, a)
  <2>1. /\ of(os) \subseteq Outputs /\ of(us) \subseteq Outputs /\ of(os) \cap of(us) = {}
        /\ of(os \cup us) = of(os) \cup of(us)
    BY <1>5
  <2>2. Total(of(os) \cup of(us)) = Total(of(os)) + Total(of(us))
    <3> HIDE DEF of
    <3> QED BY <2>1, TotalsAdd
  <2> QED BY <1>1, <2>1, <2>2
<1> HIDE DEF of
<1> QED BY <1>2, <1>3, <1>4, <1>5

-----------------------------------------------------------------------------
(* Balances of a chain                                                     *)

(***************************************************************************)
(* What a window creates is new and what it spends was unspent or is its   *)
(* own.                                                                    *)
(***************************************************************************)
LEMMA LiveAfterAWindow ==
  ASSUME NEW p, NEW x, Chain(p), Chain(p \cup x), \A b \in p, c \in x : Height[b] < Height[c]
  PROVE  /\ Live(p) \subseteq Outputs /\ Live(p \cup x) \subseteq Outputs
         /\ CreatedIn(x) \subseteq Outputs /\ SpentIn(x) \subseteq Outputs
         /\ Live(p) \cap CreatedIn(x) = {} /\ Live(p \cup x) \cap SpentIn(x) = {}
         /\ Live(p) \cup CreatedIn(x) = Live(p \cup x) \cup SpentIn(x)
<1> DEFINE q == p \cup x
<1>1. /\ q \subseteq Blocks
      /\ \A b \in q : Creates(b) \subseteq Outputs /\ Spends(b) \subseteq Outputs
      /\ \A b, c \in q : \A o \in Creates(b) : o \in Creates(c) => b = c
      /\ \A b, c \in q : \A o \in Spends(b) : o \in Spends(c) => b = c
      /\ \A b \in q : \A o \in Spends(b) : \E c \in q : o \in Creates(c)
  BY OutputsOfAChain
<1>2. \A b \in p : \A o \in Spends(b) : \E c \in p : o \in Creates(c)
  BY OutputsOfAChain
<1>3. \A b \in p, c \in x : b # c
  <2>1. \A b \in q : Height[b] \in Nat
    BY <1>1, NoneIsAbove
  <2> QED BY <2>1
<1>4. \A o : o \in CreatedIn(q) <=> o \in CreatedIn(p) \/ o \in CreatedIn(x)
  BY DEF CreatedIn
<1>5. \A o : o \in SpentIn(q) <=> o \in SpentIn(p) \/ o \in SpentIn(x)
  BY DEF SpentIn
<1>6. \A o : ~(o \in CreatedIn(p) /\ o \in CreatedIn(x))
  BY <1>1, <1>3 DEF CreatedIn
<1>7. \A o : ~(o \in SpentIn(p) /\ o \in SpentIn(x))
  BY <1>1, <1>3 DEF SpentIn
<1>8. \A o \in SpentIn(p) : o \in CreatedIn(p)
  BY <1>2 DEF SpentIn, CreatedIn
<1>9. \A o \in SpentIn(x) : o \in CreatedIn(q)
  BY <1>1 DEF SpentIn, CreatedIn
<1>10. \A o : o \in CreatedIn(p) \/ o \in CreatedIn(x) \/ o \in SpentIn(x) => o \in Outputs
  BY <1>1 DEF SpentIn, CreatedIn
<1> QED BY <1>4, <1>5, <1>6, <1>7, <1>8, <1>9, <1>10 DEF Live

\* ... so that balances move by what is created and spent.
LEMMA BalanceAfterAWindow ==
  ASSUME NEW p, NEW x, Chain(p), Chain(p \cup x), \A b \in p, c \in x : Height[b] < Height[c], NEW a
  PROVE  Holdings(Live(p), a) + Holdings(CreatedIn(x), a) - Holdings(SpentIn(x), a) = Holdings(Live(p \cup x), a)
<1> DEFINE l == Live(p)
           m == Live(p \cup x)
           c == CreatedIn(x)
           s == SpentIn(x)
<1>1. /\ l \in SUBSET Outputs /\ m \in SUBSET Outputs /\ c \in SUBSET Outputs /\ s \in SUBSET Outputs
      /\ l \cap c = {} /\ m \cap s = {} /\ l \cup c = m \cup s
  BY LiveAfterAWindow
<1> HIDE DEF l, m, c, s
<1>2. /\ Holdings(l, a) \in Nat /\ Holdings(m, a) \in Nat /\ Holdings(c, a) \in Nat /\ Holdings(s, a) \in Nat
  BY <1>1, HoldingsOfOutputs
<1>3. /\ Holdings(l \cup c, a) = Holdings(l, a) + Holdings(c, a)
      /\ Holdings(m \cup s, a) = Holdings(m, a) + Holdings(s, a)
  BY <1>1, HoldingsOfOutputs
<1>4. Holdings(l, a) + Holdings(c, a) = Holdings(m, a) + Holdings(s, a)
  BY <1>1, <1>3
<1>5. Holdings(l, a) + Holdings(c, a) - Holdings(s, a) = Holdings(m, a)
  <2> DEFINE hl == Holdings(l, a)
             hm == Holdings(m, a)
             hc == Holdings(c, a)
             hs == Holdings(s, a)
  <2>1. hl \in Nat /\ hm \in Nat /\ hc \in Nat /\ hs \in Nat /\ hl + hc = hm + hs
    BY <1>2, <1>4
  <2> HIDE DEF hl, hm, hc, hs
  <2>2. hl + hc - hs = hm
    BY <2>1
  <2> QED BY <2>2 DEF hl, hm, hc, hs
<1> QED BY <1>5 DEF l, m, c, s

\* Nothing is held by nobody's rows when there is no block.
LEMMA NothingIsHeld == SoundBalances({}, {})
<1>1. \A o \in Live({}) : FALSE
  BY DEF Live, CreatedIn
<1>2. \A a : Holdings(Live({}), a) = 0
  BY <1>1, HoldingsOfOutputs
<1> QED BY <1>2 DEF SoundBalances

(***************************************************************************)
(* getBalanceRowsByKeys reads what is held.                                *)
(***************************************************************************)
LEMMA BalancesAreRead ==
  ASSUME NEW p, SoundBalances(balanceRows, p), NEW a \in Addresses
  PROVE  BalanceOf(a) = Holdings(Live(p), a)
<1> DEFINE rows == {r \in Newest(balanceRows) : r.key = a}
<1>1. \A r \in balanceRows : r.version \in Int
  BY DEF SoundBalances, BalanceRow
<1>2. CASE Holdings(Live(p), a) = 0 /\ \A r \in balanceRows : r.key # a
  <2>1. rows = {}
    BY <1>2 DEF Newest
  <2> QED BY <1>2, <2>1 DEF BalanceOf
<1>3. ASSUME NEW r \in balanceRows, r.key = a, r.amount = Holdings(Live(p), a),
             \A q \in balanceRows : q.key = a => q = r \/ q.version < r.version
      PROVE  BalanceOf(a) = Holdings(Live(p), a)
  <2>1. r \in rows
    BY <1>1, <1>3 DEF Newest
  <2>2. ASSUME NEW q \in rows PROVE q = r
    <3>1. q \in balanceRows /\ q.key = a /\ r.version <= q.version
      BY <1>3 DEF Newest
    <3>2. q.version \in Int /\ r.version \in Int
      BY <1>1, <3>1
    <3> QED BY <1>3, <3>1, <3>2
  <2>3. rows # {} /\ (CHOOSE q \in rows : TRUE) = r
    BY <2>1, <2>2
  <2> QED BY <1>3, <2>3 DEF BalanceOf
<1>4. \/ Holdings(Live(p), a) = 0 /\ \A r \in balanceRows : r.key # a
      \/ \E r \in balanceRows : /\ r.key = a /\ r.amount = Holdings(Live(p), a)
                                /\ \A q \in balanceRows : q.key = a => q = r \/ q.version < r.version
  BY DEF SoundBalances
<1> QED BY <1>2, <1>3, <1>4

\* What coreCurrentBalanceRows plans follows from the rows it reads.
LEMMA BalancesArePlanned ==
  ASSUME Chain(processed), Chain(processed \cup pending), pending # {},
         \A b \in processed, c \in pending : Height[b] < Height[c],
         SoundBalances(balanceRows, processed)
  PROVE  NextBalances = PlannedRows(processed, pending)
<1>1. ASSUME NEW a \in Touched(pending)
      PROVE  BalanceOf(a) + Holdings(CreatedIn(pending), a) - Holdings(SpentIn(pending), a)
               = Holdings(Live(processed \cup pending), a)
  <2>1. a \in Addresses
    <3>1. CreatedIn(pending) \subseteq Outputs /\ SpentIn(pending) \subseteq Outputs
      BY LiveAfterAWindow
    <3> QED BY <3>1, EffectsConstants DEF Touched, Owned
  <2>2. BalanceOf(a) = Holdings(Live(processed), a)
    BY <2>1, BalancesAreRead
  <2> QED BY <2>2, BalanceAfterAWindow
<1>2. NextBalances =
        {[key |-> a, version |-> 2 * End(pending) + 1,
          amount |-> BalanceOf(a) + Holdings(CreatedIn(pending), a) - Holdings(SpentIn(pending), a)] :
            a \in Touched(pending)}
  BY DEF NextBalances, Touched
<1> DEFINE f(a) == BalanceOf(a) + Holdings(CreatedIn(pending), a) - Holdings(SpentIn(pending), a)
           g(a) == Holdings(Live(processed \cup pending), a)
           v == 2 * End(pending) + 1
<1>3. \A a \in Touched(pending) : f(a) = g(a)
  BY <1>1
<1>4. /\ NextBalances = {[key |-> a, version |-> v, amount |-> f(a)] : a \in Touched(pending)}
      /\ PlannedRows(processed, pending) = {[key |-> a, version |-> v, amount |-> g(a)] : a \in Touched(pending)}
  BY <1>2 DEF PlannedRows
<1> HIDE DEF f, g, v
<1> QED BY <1>3, <1>4

(***************************************************************************)
(* insertBalances: the rows of a window outrank those that were there.     *)
(***************************************************************************)
LEMMA PlannedRowsAreSound ==
  ASSUME NEW rows, NEW p, NEW x, Chain(p), Chain(p \cup x), x # {},
         \A b \in p, c \in x : Height[b] < Height[c], SoundBalances(rows, p)
  PROVE  SoundBalances(rows \cup PlannedRows(p, x), p \cup x)
<1> DEFINE q == p \cup x
           new == PlannedRows(p, x)
           e == End(x)
<1>1. /\ q \subseteq Blocks /\ \A b \in q : Height[b] \in Nat
  BY OutputsOfAChain, NoneIsAbove
<1>2. /\ e \in Nat /\ End(q) = e /\ End(p) \in Int /\ End(p) < e
  <2>1. /\ x \subseteq Blocks /\ q \subseteq Blocks /\ q # {} /\ p \subseteq Blocks
    BY <1>1
  <2>2. /\ End(x) \in Heights(x) /\ \A b \in x : Height[b] <= End(x)
    BY <2>1, HeightBounds
  <2>3. End(q) \in Heights(q) /\ \A b \in q : Height[b] <= End(q)
    BY <2>1, HeightBounds
  <2>4. PICK c \in x : Height[c] = e
    BY <2>2 DEF Heights
  <2>5. PICK d \in q : Height[d] = End(q)
    BY <2>3 DEF Heights
  <2>6. Height[d] <= e
    <3>1. CASE d \in x BY <2>2, <3>1
    <3>2. CASE d \in p
      <4>1. Height[d] < Height[c]
        BY <3>2
      <4> QED BY <1>1, <2>4, <4>1
    <3> QED BY <3>1, <3>2
  <2>7. e <= End(q)
    BY <2>3, <2>4
  <2>8. e \in Nat /\ End(q) \in Nat
    BY <1>1, <2>4, <2>5
  <2>9. End(q) = e
    <3> DEFINE y == End(q)
    <3>1. y <= e /\ e <= y /\ y \in Nat /\ e \in Nat
      BY <2>5, <2>6, <2>7, <2>8
    <3> HIDE DEF y, e
    <3>2. y = e
      BY <3>1
    <3> QED BY <3>2 DEF y
  <2>10. End(p) \in Int /\ End(p) < e
    <3>1. CASE p = {}
      BY <2>8, <3>1, EndOfNothing DEF NoHeight
    <3>2. CASE p # {}
      <4>1. End(p) \in Heights(p)
        BY <2>1, <3>2, HeightBounds
      <4>2. PICK b \in p : Height[b] = End(p)
        BY <4>1 DEF Heights
      <4>3. Height[b] < Height[c]
        OBVIOUS
      <4> QED BY <1>1, <2>4, <4>2, <4>3
    <3> QED BY <3>1, <3>2
  <2> QED BY <2>8, <2>9, <2>10
<1> HIDE DEF e
<1>3. ASSUME NEW r \in new
      PROVE  /\ r \in BalanceRow /\ r.version = 2 * e + 1 /\ r.key \in Touched(x)
             /\ r.amount = Holdings(Live(q), r.key)
             /\ \A s \in new : s.key = r.key => s = r
  <2>1. PICK a \in Touched(x) :
          r = [key |-> a, version |-> 2 * e + 1, amount |-> Holdings(Live(q), a)]
    BY DEF PlannedRows, e
  <2>2. a \in Addresses
    <3>1. CreatedIn(x) \subseteq Outputs /\ SpentIn(x) \subseteq Outputs
      BY LiveAfterAWindow
    <3> QED BY <3>1, EffectsConstants DEF Touched, Owned
  <2>3. Holdings(Live(q), a) \in Nat
    <3>1. Live(q) \in SUBSET Outputs
      BY LiveAfterAWindow
    <3> QED BY <3>1, HoldingsOfOutputs
  <2>4. \A s \in new : s = [key |-> s.key, version |-> 2 * e + 1, amount |-> Holdings(Live(q), s.key)]
    BY DEF PlannedRows, e
  <2>5. \A s \in new : s.key = r.key => s = r
    <3> HIDE DEF new
    <3> QED BY <2>4
  <2>6. r.key = a /\ r.version = 2 * e + 1 /\ r.amount = Holdings(Live(q), a)
    BY <2>1
  <2>7. 2 * e + 1 \in Int /\ Holdings(Live(q), a) \in Int
    BY <1>2, <2>3
  <2> DEFINE v == 2 * e + 1
             m == Holdings(Live(q), a)
  <2> HIDE DEF v, m
  <2>8. r = [key |-> a, version |-> v, amount |-> m] /\ v \in Int /\ m \in Int
    BY <2>1, <2>7 DEF v, m
  <2>9. r \in BalanceRow
    BY <2>2, <2>8 DEF BalanceRow
  <2> QED BY <2>1, <2>5, <2>6, <2>9
<1>4. ASSUME NEW a \in Touched(x) PROVE \E r \in new : r.key = a
  <2>1. [key |-> a, version |-> 2 * End(x) + 1, amount |-> Holdings(Live(q), a)] \in new
    BY DEF PlannedRows
  <2> QED BY <2>1
<1>5. ASSUME NEW r \in rows
      PROVE  r \in BalanceRow /\ r.version \in Int /\ r.version < 2 * e + 1
  <2>1. r \in BalanceRow /\ r.version <= 2 * End(p) + 1
    BY DEF SoundBalances
  <2>2. r.version \in Int
    BY <2>1 DEF BalanceRow
  <2> QED BY <1>2, <2>1, <2>2
<1> HIDE DEF new, q
<1>6. ASSUME NEW r \in rows \cup new PROVE r \in BalanceRow /\ r.version <= 2 * End(q) + 1
  <2>1. CASE r \in new
    BY <1>2, <1>3, <2>1
  <2>2. CASE r \in rows
    BY <1>2, <1>5, <2>2
  <2> QED BY <2>1, <2>2
<1>7. ASSUME NEW a \in Addresses
      PROVE  \/ Holdings(Live(q), a) = 0 /\ \A r \in rows \cup new : r.key # a
             \/ \E r \in rows \cup new :
                  /\ r.key = a /\ r.amount = Holdings(Live(q), a)
                  /\ \A s \in rows \cup new : s.key = a => s = r \/ s.version < r.version
  <2>1. CASE a \in Touched(x)
    <3>1. PICK r \in new : r.key = a
      BY <1>4, <2>1
    <3>2. \A s \in new : s.key = a => s = r
      BY <1>3, <3>1
    <3>3. \A s \in rows : s.version < r.version
      BY <1>3, <1>5
    <3>4. r.amount = Holdings(Live(q), a)
      BY <1>3, <3>1
    <3> QED BY <3>1, <3>2, <3>3, <3>4
  <2>2. CASE a \notin Touched(x)
    <3>1. \A r \in new : r.key # a
      BY <1>3, <2>2
    <3>2. Holdings(Live(q), a) = Holdings(Live(p), a)
      <4>1. \A o \in CreatedIn(x) \cup SpentIn(x) : Owner[o] # a
        <5>1. a # NoAddress
          BY EffectsConstants
        <5> QED BY <2>2, <5>1 DEF Touched, Owned
      <4>2. \A o : Owner[o] = a => (o \in Live(q) <=> o \in Live(p))
        <5>1. Live(p) \cup CreatedIn(x) = Live(q) \cup SpentIn(x)
          BY LiveAfterAWindow DEF q
        <5> QED BY <4>1, <5>1
      <4> QED BY <4>2, HoldingsOfOutputs
    <3>3. \/ Holdings(Live(p), a) = 0 /\ \A r \in rows : r.key # a
          \/ \E r \in rows : /\ r.key = a /\ r.amount = Holdings(Live(p), a)
                             /\ \A s \in rows : s.key = a => s = r \/ s.version < r.version
      BY DEF SoundBalances
    <3> QED BY <3>1, <3>2, <3>3
  <2> QED BY <2>1, <2>2
<1> QED BY <1>6, <1>7 DEF SoundBalances, new, q

(***************************************************************************)
(* insertCoreCurrentBalances: aggregated over the rows just rebuilt.       *)
(***************************************************************************)
LEMMA AggregatedRowsAreSound ==
  ASSUME NEW p, Chain(p), NEW h \in Nat, End(p) = h, LiveKeys(Newest(current)) = Live(p)
  PROVE  SoundBalances(AggregatedRows(h), p)
<1> DEFINE new == AggregatedRows(h)
           owners == {Owner[o] : o \in {o \in Live(p) : Owned(o)}}
<1>1. Live(p) \in SUBSET Outputs
  BY OutputsOfAChain DEF Live, CreatedIn
<1>2. new = {[key |-> a, amount |-> Holdings(Live(p), a), version |-> h] : a \in owners}
  BY DEF AggregatedRows, LiveKeys
<1>3. owners \subseteq Addresses
  BY <1>1, EffectsConstants DEF Owned
<1>4. \A a : Holdings(Live(p), a) \in Nat
  BY <1>1, HoldingsOfOutputs
<1> HIDE DEF new
<1>5. \A r \in new : /\ r \in BalanceRow /\ r.version = h /\ r.key \in owners
                     /\ r = [key |-> r.key, amount |-> Holdings(Live(p), r.key), version |-> h]
  BY <1>2, <1>3, <1>4 DEF BalanceRow
<1>6. ASSUME NEW a \in owners PROVE \E r \in new : r.key = a
  <2> DEFINE r == [key |-> a, amount |-> Holdings(Live(p), a), version |-> h]
  <2>1. r \in new
    BY <1>2
  <2>2. r.key = a
    OBVIOUS
  <2> HIDE DEF r
  <2> QED BY <2>1, <2>2
<1>7. \A r \in new : r \in BalanceRow /\ r.version <= 2 * End(p) + 1
  BY <1>5
<1>8. ASSUME NEW a \in Addresses
      PROVE  \/ Holdings(Live(p), a) = 0 /\ \A r \in new : r.key # a
             \/ \E r \in new : /\ r.key = a /\ r.amount = Holdings(Live(p), a)
                               /\ \A q \in new : q.key = a => q = r \/ q.version < r.version
  <2>1. CASE a \in owners
    <3>1. PICK r \in new : r.key = a
      BY <1>6, <2>1
    <3>2. r.amount = Holdings(Live(p), a) /\ \A q \in new : q.key = a => q = r
      BY <1>5, <3>1
    <3> QED BY <3>1, <3>2
  <2>2. CASE a \notin owners
    <3>1. \A o \in Live(p) : Owner[o] # a
      <4>1. a # NoAddress
        BY EffectsConstants
      <4> QED BY <2>2, <4>1 DEF Owned
    <3>2. Holdings(Live(p), a) = 0
      BY <3>1, HoldingsOfOutputs
    <3> QED BY <1>5, <2>2, <3>2
  <2> QED BY <2>1, <2>2
<1> QED BY <1>7, <1>8 DEF SoundBalances, new

\* The rows of a rebuild are those of what is unspent, and all of one version.
LEMMA RebuiltRowsAreLive ==
  ASSUME NEW p, Chain(p), NEW h \in Int, Historical(h) = OutputRows(p)
  PROVE  LiveKeys(Newest(UnspentRows(h))) = Live(p)
<1> DEFINE new == UnspentRows(h)
<1>1. \A r \in new : r.version = h /\ r.spent = NoHeight
  BY DEF UnspentRows
<1>2. {r.key : r \in new} = LiveKeys(OutputRows(p))
  <2> DEFINE live == {r \in OutputRows(p) : r.spent = NoHeight}
             row(r) == [key |-> r.key, at |-> r.at, spent |-> NoHeight, version |-> h]
  <2>1. new = {row(r) : r \in live}
    BY DEF UnspentRows
  <2>2. \A r \in live : row(r).key = r.key
    OBVIOUS
  <2> HIDE DEF live, new, row
  <2>3. {r.key : r \in new} = {r.key : r \in live}
    BY <2>1, <2>2
  <2> QED BY <2>3 DEF live, LiveKeys
<1> HIDE DEF new
<1>3. Newest(new) = new
  <2>1. \A r, q \in new : q.version <= r.version
    BY <1>1
  <2> QED BY <2>1 DEF Newest
<1>4. LiveKeys(new) = {r.key : r \in new}
  <2>1. {r \in new : r.spent = NoHeight} = new
    BY <1>1
  <2> QED BY <2>1 DEF LiveKeys
<1>5. LiveKeys(Newest(new)) = CreatedIn(p) \ SpentIn(p)
  BY <1>2, <1>3, <1>4, LiveOutputs
<1> QED BY <1>5 DEF new, Live

-----------------------------------------------------------------------------
(* What the refinement needs beside the tables                             *)

SeenInv == ClickInv /\ WindowInv /\ BalanceInv

\* The heights a window starts at or is in conflict at are heights of blocks.
LEMMA WindowHeights ==
  ASSUME NEW w \in Windows, NEW p
  PROVE  /\ Start(w) \in Heights(Blocks)
         /\ Conflicts(w, p) # {} => Min(Conflicts(w, p)) \in Heights(Blocks)
         /\ \A x : x \subseteq w => IsFiniteSet(x) /\ Cardinality(x) <= WindowSize
<1>1. w \subseteq Blocks /\ w # {} /\ Cardinality(w) <= WindowSize
  BY DEF Windows
<1>2. Start(w) \in Heights(Blocks)
  <2>1. Start(w) \in Heights(w)
    BY <1>1, HeightBounds DEF Start
  <2> QED BY <1>1, <2>1 DEF Heights
<1>3. ASSUME Conflicts(w, p) # {} PROVE Min(Conflicts(w, p)) \in Heights(Blocks)
  <2> DEFINE S == Conflicts(w, p)
  <2>1. S \subseteq Heights(Blocks)
    BY <1>1 DEF Conflicts, Heights
  <2>2. S \subseteq Nat
    BY <2>1, BlockFacts DEF Heights
  <2> HIDE DEF S
  <2>3. \E m \in S : \A k \in S : m <= k
    BY <1>3, <2>2, LeastOf DEF S
  <2>4. Min(S) \in S
    BY <2>3 DEF Min
  <2> QED BY <2>1, <2>4 DEF S
<1>4. ASSUME NEW x, x \subseteq w PROVE IsFiniteSet(x) /\ Cardinality(x) <= WindowSize
  <2>1. IsFiniteSet(w)
    BY <1>1, ChainsAreValid, FS_Subset
  <2>2. IsFiniteSet(x) /\ Cardinality(x) <= Cardinality(w)
    BY <1>4, <2>1, FS_Subset
  <2>3. Cardinality(x) \in Nat /\ Cardinality(w) \in Nat /\ WindowSize \in Nat
    BY <2>1, <2>2, FS_CardinalityType, EffectsConstants
  <2> QED BY <1>1, <2>2, <2>3
<1> QED BY <1>2, <1>3, <1>4

(***************************************************************************)
(* A recovery marker names a height of a block, and a window stays within  *)
(* its bound.                                                              *)
(***************************************************************************)
LEMMA WindowStep ==
  ASSUME ClickInv, WindowInv, [ClickNext]_clickVars
  PROVE  WindowInv'
<1>1. IsFiniteSet({}) /\ Cardinality({}) <= WindowSize
  BY FS_EmptySet, EffectsConstants
<1>2. /\ asked # None => asked \in Heights(Blocks)
      /\ Broken => cutoff \in Heights(Blocks)
      /\ IsFiniteSet(pending) /\ Cardinality(pending) <= WindowSize
  BY DEF WindowInv
<1>3. Heights(Blocks)' = Heights(Blocks) /\ None' = None
  BY DEF Heights, None
<1>4. ASSUME asked' \in {asked, None}, pending' \in {pending, {}}, Broken' => Broken /\ cutoff' = cutoff
      PROVE  WindowInv'
  BY <1>1, <1>2, <1>3, <1>4 DEF WindowInv
<1>5. ASSUME NEW w \in Windows, BeginWindow(w) PROVE WindowInv'
  <2>1. /\ asked' = Start(w) /\ pending' = Pending(w, processed) /\ Pending(w, processed) \subseteq w
    BY <1>5 DEF BeginWindow, Pending
  <2>2. \/ phase' = "load"
        \/ Conflicts(w, processed) # {} /\ cutoff' = Min(Conflicts(w, processed))
    BY <1>5 DEF BeginWindow, TakeBack
  <2>3. Broken' => cutoff' \in Heights(Blocks)
    BY <2>2, WindowHeights DEF Broken
  <2> QED BY <1>3, <2>1, <2>3, WindowHeights DEF WindowInv
<1>6. CASE RewindStep
  BY <1>4, <1>6 DEF RewindStep, Broken
<1>7. CASE RewindDone
  <2>1. ~Broken' /\ asked' \in {asked, None} /\ pending' = pending
    BY <1>3, <1>7 DEF RewindDone, Broken
  <2> QED BY <1>4, <2>1
<1>8. CASE LoadPrevouts
  BY <1>4, <1>8 DEF LoadPrevouts, Broken
<1>9. CASE CleanForRepair
  BY <1>4, <1>9 DEF CleanForRepair, Broken
<1>10. CASE CleanStep
  BY <1>4, <1>10 DEF CleanStep, Broken
<1>11. CASE Repair
  BY <1>4, <1>11 DEF Repair, Broken
<1>12. CASE InsertFacts
  BY <1>4, <1>12 DEF InsertFacts, Broken
<1>13. CASE InsertCurrentOutputs
  BY <1>4, <1>13 DEF InsertCurrentOutputs, Broken
<1>14. CASE InsertBalances
  BY <1>4, <1>14 DEF InsertBalances, Broken
<1>15. CASE InsertProcessedBlocks
  <2>1. phase = "processed" /\ phase' = "idle" /\ cutoff' = cutoff /\ asked' = None /\ pending' = {}
    BY <1>15 DEF InsertProcessedBlocks, EndCall
  <2>2. cutoff = None
    BY <2>1 DEF ClickInv, CallInv
  <2> QED BY <1>3, <1>4, <2>1, <2>2 DEF Broken
<1>16. CASE CallFails
  <2>1. cutoff' = asked /\ asked' = None /\ pending' = {} /\ phase' = "idle"
    BY <1>16 DEF CallFails, EndCall
  <2>2. Broken' => cutoff' \in Heights(Blocks)
    BY <1>2, <1>3, <2>1 DEF Broken
  <2> QED BY <1>1, <1>3, <2>1, <2>2 DEF WindowInv
<1>17. CASE RecoverWindow
  <2>1. Broken /\ cutoff' = cutoff /\ asked' = cutoff /\ pending' = pending
    BY <1>17 DEF RecoverWindow, TakeBack, Broken
  <2> QED BY <1>2, <1>3, <2>1 DEF WindowInv
<1>18. CASE BeginMaterialization
  BY <1>4, <1>18 DEF BeginMaterialization, Broken
<1>19. CASE MaterializeStep
  <2>1. /\ phase = "materialize" /\ phase' \in {"idle", "materialize"} /\ cutoff' = cutoff
        /\ asked' = asked /\ pending' = pending
    BY <1>19 DEF MaterializeStep
  <2>2. cutoff = None
    BY <2>1 DEF ClickInv, CallInv
  <2> QED BY <1>3, <1>4, <2>1, <2>2 DEF Broken
<1>20. CASE LoseRow
  BY <1>3, <1>4, <1>20 DEF LoseRow, callVars, Broken
<1>21. CASE UNCHANGED clickVars
  BY <1>3, <1>4, <1>21 DEF clickVars, callVars, Broken
<1> QED BY <1>5, <1>6, <1>7, <1>8, <1>9, <1>10, <1>11, <1>12, <1>13, <1>14, <1>15, <1>16, <1>17,
           <1>18, <1>19, <1>20, <1>21 DEF ClickNext

(***************************************************************************)
(* A rewind before its next statement: which one it is.                    *)
(***************************************************************************)
LEMMA NextStatement ==
  ASSUME ClickInv, phase = "rewind", queue # <<>>, queue' = Tail(queue), ready' = ready, cutoff' = cutoff
  PROVE  LET n == Progress(Statements(cutoff))
             s == Head(queue)
         IN  /\ n \in Nat /\ n <= 7 /\ Progress(Statements(cutoff))' = n + 1
             /\ n = 0 => s = "creates"
             /\ n = 1 => s = "spends"
             /\ n = 2 => s = "processed"
             /\ n = 3 => s = "movements"
             /\ n = 4 => ready /\ s = "clearOutputs"
             /\ n = 5 => ready /\ s = "clearBalances"
             /\ n >= 6 => ready /\ cutoff > 0
             /\ n = 6 => s = "outputs"
             /\ n = 7 => s = "balances"
<1> DEFINE all == Statements(cutoff)
           n == Progress(all)
           s == Head(queue)
<1>1. Remains(all) /\ ready \in BOOLEAN /\ queue \in Seq(Names) /\ cutoff \in Nat
  BY Typed DEF ClickInv, CallInv
<1>2. /\ all \in Seq(Names)
      /\ all[1] = "creates" /\ all[2] = "spends" /\ all[3] = "processed" /\ all[4] = "movements"
      /\ ~ready => Len(all) = 4
      /\ ready => all[5] = "clearOutputs" /\ all[6] = "clearBalances"
      /\ ready /\ cutoff = 0 => Len(all) = 6
      /\ ready /\ cutoff > 0 => Len(all) = 8 /\ all[7] = "outputs" /\ all[8] = "balances"
  BY <1>1, StatementList
<1>3. /\ n \in Nat /\ n < Len(all) /\ s = all[n + 1]
      /\ Len(all) - Len(Tail(queue)) = n + 1
  BY <1>1, <1>2, Advance
<1>4. Statements(cutoff)' = all
  BY DEF Statements
<1>5. Len(all) \in Nat
  <2>1. \A q \in Seq(Names) : Len(q) \in Nat
    BY LenProperties
  <2> QED BY <1>2, <2>1, Zenon
<1>6. /\ all[1] = "creates" /\ all[2] = "spends" /\ all[3] = "processed" /\ all[4] = "movements"
      /\ ~ready => Len(all) = 4
      /\ ready => all[5] = "clearOutputs" /\ all[6] = "clearBalances"
      /\ ready /\ cutoff = 0 => Len(all) = 6
      /\ ready /\ cutoff > 0 => Len(all) = 8 /\ all[7] = "outputs" /\ all[8] = "balances"
  BY <1>2, Zenon
<1> HIDE DEF all, n, s
<1>7. Progress(Statements(cutoff))' = n + 1
  BY <1>3, <1>4 DEF Progress
<1>8. n \in Nat /\ n < Len(all) /\ s = all[n + 1] /\ Len(all) \in Nat
  BY <1>3, <1>5
<1>9. n >= 4 => ready
  BY <1>1, <1>6, <1>8
<1>10. n >= 6 => cutoff > 0
  BY <1>1, <1>6, <1>8, <1>9
<1>11. n <= 7
  <2>1. cutoff = 0 \/ cutoff > 0
    BY <1>1
  <2>2. Len(all) \in {4, 6, 8}
    BY <1>1, <1>6, <2>1
  <2> QED BY <1>8, <2>2
<1>12. (n = 0 => s = "creates") /\ (n = 1 => s = "spends")
  BY <1>6, <1>8
<1>13. (n = 2 => s = "processed") /\ (n = 3 => s = "movements")
  BY <1>6, <1>8
<1>14. (n = 4 => s = "clearOutputs") /\ (n = 5 => s = "clearBalances")
  BY <1>6, <1>8, <1>9
<1>15. (n = 6 => s = "outputs") /\ (n = 7 => s = "balances")
  BY <1>6, <1>8, <1>9, <1>10
<1>16. /\ n \in Nat /\ n <= 7 /\ Progress(Statements(cutoff))' = n + 1
       /\ n = 0 => s = "creates"
       /\ n = 1 => s = "spends"
       /\ n = 2 => s = "processed"
       /\ n = 3 => s = "movements"
       /\ n = 4 => ready /\ s = "clearOutputs"
       /\ n = 5 => ready /\ s = "clearBalances"
       /\ n >= 6 => ready /\ cutoff > 0
       /\ n = 6 => s = "outputs"
       /\ n = 7 => s = "balances"
  BY <1>7, <1>8, <1>9, <1>10, <1>11, <1>12, <1>13, <1>14, <1>15
<1> QED BY <1>16 DEF n, s, all

\* ... and at its end: all of them are done.
LEMMA LastStatement ==
  ASSUME ClickInv, phase = "rewind", queue = <<>>
  PROVE  LET n == Progress(Statements(cutoff))
         IN  n \in Nat /\ n >= 4 /\ (ready => n = IF cutoff = 0 THEN 6 ELSE 8)
<1> DEFINE all == Statements(cutoff)
           n == Progress(all)
<1>1. Remains(all) /\ ready \in BOOLEAN /\ cutoff \in Nat
  BY Typed DEF ClickInv, CallInv
<1>2. /\ all \in Seq(Names)
      /\ ~ready => Len(all) = 4
      /\ ready /\ cutoff = 0 => Len(all) = 6
      /\ ready /\ cutoff > 0 => Len(all) = 8
  BY <1>1, StatementList
<1>3. n = Len(all)
  BY <1>1, <1>2, WholeListRemains
<1> HIDE DEF n, all
<1>4. cutoff = 0 \/ cutoff > 0
  BY <1>1
<1>5. n \in Nat /\ n >= 4 /\ (ready => n = IF cutoff = 0 THEN 6 ELSE 8)
  BY <1>1, <1>2, <1>3, <1>4
<1> QED BY <1>5 DEF n, all

\* Before the first statement none is done.
LEMMA FirstStatement ==
  ASSUME ClickInv, cutoff' \in Nat, ready' = ready, queue' = Statements(cutoff)'
  PROVE  Progress(Statements(cutoff))' = 0
<1> DEFINE all == Statements(cutoff')
<1>1. ready \in BOOLEAN
  BY Typed
<1>2. all \in Seq(Names)
  BY <1>1, StatementList
<1>3. Statements(cutoff)' = all
  BY DEF Statements
<1>4. Len(all) \in Nat
  <2>1. \A q \in Seq(Names) : Len(q) \in Nat
    BY LenProperties
  <2> QED BY <1>2, <2>1, Zenon
<1> HIDE DEF all
<1>5. Len(all) - Len(all) = 0
  BY <1>4
<1> QED BY <1>3, <1>5 DEF Progress

\* What one statement does to the balances.
LEMMA StatementBalances ==
  ASSUME NEW h, Statement(h)
  PROVE  balanceRows' = IF Head(queue) = "clearBalances" THEN {}
                        ELSE IF Head(queue) = "balances" THEN balanceRows \cup AggregatedRows(h)
                        ELSE balanceRows
<1>1. CASE Head(queue) \in {"creates", "spends", "processed", "movements"}
  <2>1. balanceRows' = balanceRows
    BY <1>1 DEF Statement, Delete
  <2>2. Head(queue) # "clearBalances" /\ Head(queue) # "balances"
    BY <1>1
  <2> QED BY <2>1, <2>2
<1>2. CASE Head(queue) \notin {"creates", "spends", "processed", "movements"}
  BY <1>2 DEF Statement, Materialized
<1> QED BY <1>1, <1>2

(***************************************************************************)
(* Outside rewinds and materializations a step that leaves the tables      *)
(* alone leaves the balances right.                                        *)
(***************************************************************************)
LEMMA BalancesStay ==
  ASSUME BalanceInv, ~Broken, phase # "processed", phase' \notin {"processed", "rewind", "materialize"},
         UNCHANGED <<balanceRows, processed, ready>>,
         ready /\ phase' \in {"facts", "balances"} => planned' = PlannedRows(processed, pending)'
  PROVE  BalanceInv'
<1>1. ready => SoundBalances(balanceRows, processed)
  BY DEF BalanceInv
<1>2. ready' => SoundBalances(balanceRows', processed')
  BY <1>1
<1> QED BY <1>2 DEF BalanceInv

\* What a call will write follows from the blocks it applies.
LEMMA PlannedPrimed ==
  ASSUME UNCHANGED <<processed, pending>>
  PROVE  PlannedRows(processed, pending)' = PlannedRows(processed, pending)
  BY DEF PlannedRows

\* A window in conflict starts a rewind, of which no statement is done.
LEMMA BeginWindowBalances ==
  ASSUME SeenInv, NEW w \in Windows, BeginWindow(w)
  PROVE  BalanceInv'
<1>1. /\ phase = "idle" /\ cutoff = None /\ UNCHANGED <<balanceRows, processed, ready>>
  BY DEF BeginWindow, factVars, currentVars
<1>2. ClickInv /\ BalanceInv /\ ~Broken
  BY <1>1 DEF SeenInv, Broken
<1>3. CASE Conflicts(w, processed) = {}
  <2>1. phase' = "load"
    BY <1>3 DEF BeginWindow
  <2> QED BY <1>1, <1>2, <2>1, BalancesStay
<1>4. CASE Conflicts(w, processed) # {}
  <2>1. phase' = "rewind" /\ cutoff' = Min(Conflicts(w, processed)) /\ queue' = Statements(cutoff)'
    BY <1>1, <1>4 DEF BeginWindow, TakeBack, Statements
  <2>2. cutoff' \in Nat
    BY <1>4, <2>1, WindowHeights, BlockFacts DEF Heights
  <2>3. Progress(Statements(cutoff))' = 0
    BY <1>1, <1>2, <2>1, <2>2, FirstStatement
  <2> QED BY <2>1, <2>3 DEF BalanceInv, Broken
<1> QED BY <1>3, <1>4

\* A recovery starts a rewind as well.
LEMMA RecoverWindowBalances ==
  ASSUME SeenInv, RecoverWindow
  PROVE  BalanceInv'
<1>1. /\ cutoff' = cutoff /\ phase' = "rewind" /\ ready' = ready /\ queue' = Statements(cutoff)'
  BY DEF RecoverWindow, TakeBack, currentVars, Statements
<1>2. Progress(Statements(cutoff))' = 0
  BY <1>1, FirstStatement, Typed DEF SeenInv
<1> QED BY <1>1, <1>2 DEF BalanceInv, Broken

(***************************************************************************)
(* The rebuild of a rewind: the balances are aggregated over the rows of   *)
(* the outputs just rebuilt.                                               *)
(***************************************************************************)
LEMMA RewindStepBalances ==
  ASSUME SeenInv, RewindStep
  PROVE  BalanceInv'
<1> DEFINE n == Progress(Statements(cutoff))
           s == Head(queue)
           p == Under(processed, cutoff)
           h == cutoff - 1
<1>1. /\ phase = "rewind" /\ queue # <<>> /\ Statement(h) /\ queue' = Tail(queue)
      /\ UNCHANGED <<ready, phase, asked, pending, cutoff, prevouts, repaired, lost>>
  BY DEF RewindStep, bounds
<1>2. ClickInv /\ BalanceInv /\ Broken /\ Broken'
  BY <1>1 DEF SeenInv, Broken
<1>3. /\ n \in Nat /\ n <= 7 /\ Progress(Statements(cutoff))' = n + 1
      /\ n = 2 => s = "processed"
      /\ n = 5 => ready /\ s = "clearBalances"
      /\ n >= 6 => ready /\ cutoff > 0
      /\ n = 6 => s = "outputs"
      /\ n = 7 => s = "balances"
  BY <1>1, <1>2, NextStatement
<1>4. balanceRows' = IF s = "clearBalances" THEN {}
                     ELSE IF s = "balances" THEN balanceRows \cup AggregatedRows(h) ELSE balanceRows
  BY <1>1, StatementBalances
<1>5. /\ processed' = IF s = "processed" THEN p ELSE processed
      /\ current' = IF s = "clearOutputs" THEN {}
                    ELSE IF s = "outputs" THEN current \cup UnspentRows(h) ELSE current
  BY <1>1, StatementEffects
<1>6. /\ ready => /\ n \in {6, 7} => balanceRows = {}
                  /\ n = 7 => LiveKeys(Newest(current)) = Live(p)
      /\ ready /\ n = 6 => current = {}
  BY <1>1, <1>2 DEF BalanceInv, SeenInv, ClickInv, CurrentInv
<1>7. Under(processed, cutoff)' = p
  BY <1>1, <1>5, Typed, <1>2, NoneIsAbove DEF Under
<1>8. /\ Chain(p) /\ cutoff \in Nat /\ Above(processed, cutoff) /\ processed \subseteq Blocks
      /\ creates \subseteq CreateRow /\ spends \subseteq CreateRow
      /\ Below(creates, cutoff) = CreateRows(p) /\ Below(spends, cutoff) = SpendRows(p)
  BY <1>2, Typed, UnderIsAChain DEF ClickInv, CallInv, FactsInv
<1>9. cutoff > 0 => h \in Nat /\ h + 1 = cutoff /\ \E b \in p : Height[b] = h
  <2> SUFFICES ASSUME cutoff > 0 PROVE h \in Nat /\ h + 1 = cutoff /\ \E b \in p : Height[b] = h
    OBVIOUS
  <2>1. h \in Nat /\ h + 1 = cutoff
    BY <1>8
  <2>2. PICK b \in processed : Height[b] = h
    BY <1>8 DEF Above
  <2>3. b \in p
    BY <1>8, <2>2 DEF Under
  <2> QED BY <2>1, <2>2, <2>3
<1> HIDE DEF n, s, p, h
<1>10. n + 1 \in {6, 7} => balanceRows' = {}
  <2>1. n + 1 \in {6, 7} => n = 5 \/ n = 6
    BY <1>3
  <2> QED BY <1>3, <1>4, <1>6, <2>1
<1>11. n + 1 = 7 => LiveKeys(Newest(current')) = Live(p)
  <2> SUFFICES ASSUME n + 1 = 7 PROVE LiveKeys(Newest(current')) = Live(p)
    OBVIOUS
  <2>1. n = 6
    BY <1>3
  <2>2. n >= 6
    BY <2>1
  <2>3. current' = UnspentRows(h) /\ h \in Nat /\ h + 1 = cutoff
    BY <1>3, <1>5, <1>6, <1>9, <2>1, <2>2
  <2>4. Historical(h) = OutputRows(p)
    BY <1>8, <2>3, HistoricalBelow
  <2>5. LiveKeys(Newest(UnspentRows(h))) = Live(p)
    BY <1>8, <2>3, <2>4, RebuiltRowsAreLive
  <2> QED BY <2>3, <2>5
<1>12. n + 1 > 7 => SoundBalances(balanceRows', p)
  <2> SUFFICES ASSUME n + 1 > 7 PROVE SoundBalances(balanceRows', p)
    OBVIOUS
  <2>1. n = 7 /\ n >= 6
    BY <1>3
  <2>2. balanceRows' = AggregatedRows(h) /\ LiveKeys(Newest(current)) = Live(p)
    BY <1>3, <1>4, <1>6, <2>1
  <2>3. h \in Nat /\ h + 1 = cutoff
    BY <1>3, <1>9, <2>1
  <2>4. PICK b \in p : Height[b] = h
    BY <1>3, <1>9, <2>1
  <2>5. End(p) = h
    <3>1. p \subseteq Blocks /\ \A c \in p : Height[c] < cutoff /\ Height[c] \in Nat
      BY <1>8, NoneIsAbove DEF Under, p
    <3>2. End(p) \in Heights(p) /\ Height[b] <= End(p)
      BY <2>4, <3>1, HeightBounds
    <3>3. PICK c \in p : End(p) = Height[c]
      BY <3>2 DEF Heights
    <3>4. Height[c] < h + 1 /\ h <= Height[c] /\ Height[c] \in Nat
      BY <2>3, <2>4, <3>1, <3>2, <3>3
    <3>5. Height[c] = h
      BY <2>3, <3>4
    <3> QED BY <3>3, <3>5
  <2>6. SoundBalances(AggregatedRows(h), p)
    BY <1>8, <2>2, <2>3, <2>5, AggregatedRowsAreSound
  <2> QED BY <2>2, <2>6
<1>13. LiveKeys(Newest(current))' = LiveKeys(Newest(current'))
  BY DEF LiveKeys, Newest
<1> QED BY <1>1, <1>2, <1>3, <1>7, <1>10, <1>11, <1>12, <1>13 DEF BalanceInv, SoundBalances

\* A rewind ends with the balances of the blocks it kept: all rebuilt, or none.
LEMMA RewindDoneBalances ==
  ASSUME SeenInv, RewindDone
  PROVE  BalanceInv'
<1> DEFINE n == Progress(Statements(cutoff))
           p == Under(processed, cutoff)
<1>1. /\ phase = "rewind" /\ queue = <<>> /\ phase' \in {"idle", "load"}
      /\ UNCHANGED <<processed, ready, balanceRows>>
  BY DEF RewindDone, factVars, currentVars
<1>2. ClickInv /\ BalanceInv /\ Broken
  BY <1>1 DEF SeenInv, Broken
<1>3. n \in Nat /\ n >= 4 /\ (ready => n = IF cutoff = 0 THEN 6 ELSE 8)
  BY <1>1, <1>2, LastStatement
<1>4. n >= 3 => p = processed
  BY <1>1, <1>2 DEF ClickInv, FactsInv
<1>5. ready => /\ n \in {6, 7} => balanceRows = {}
               /\ n > 7 => SoundBalances(balanceRows, p)
  BY <1>1, <1>2 DEF BalanceInv
<1>6. processed \subseteq Blocks /\ cutoff \in Nat
  BY <1>2, Typed
<1> HIDE DEF n
<1>7. p = processed
  <2>1. n >= 3
    BY <1>3
  <2> QED BY <1>4, <2>1
<1>8. ASSUME ready PROVE SoundBalances(balanceRows, processed)
  <2>1. CASE cutoff = 0
    <3>1. n = 6 /\ balanceRows = {}
      BY <1>3, <1>5, <1>8, <2>1
    <3>2. processed = {}
      <4>1. \A b \in processed : Height[b] \in Nat /\ Height[b] < 0
        BY <1>6, <1>7, <2>1, NoneIsAbove DEF Under
      <4> QED BY <4>1
    <3> QED BY <3>1, <3>2, NothingIsHeld
  <2>2. CASE cutoff # 0
    <3>1. n = 8
      BY <1>3, <1>8, <2>2
    <3>2. n > 7
      BY <3>1
    <3> QED BY <1>5, <1>7, <1>8, <3>2
  <2> QED BY <2>1, <2>2
<1>9. ready' => SoundBalances(balanceRows', processed')
  BY <1>1, <1>8
<1> QED BY <1>1, <1>9 DEF BalanceInv

\* A call plans the balances from the rows it reads.
LEMMA LoadPrevoutsBalances ==
  ASSUME SeenInv, LoadPrevouts
  PROVE  BalanceInv'
<1>1. /\ phase = "load" /\ phase' = "facts" /\ UNCHANGED <<balanceRows, processed, ready, pending>>
      /\ ready => planned' = NextBalances
  BY DEF LoadPrevouts, factVars, currentVars
<1>2. ClickInv /\ BalanceInv /\ ~Broken /\ HasPending
  BY <1>1 DEF SeenInv, Broken, HasPending
<1>3. ASSUME ready PROVE planned' = PlannedRows(processed, pending)'
  <2>1. SoundBalances(balanceRows, processed)
    BY <1>1, <1>2, <1>3 DEF BalanceInv
  <2>2. NextBalances = PlannedRows(processed, pending)
    BY <1>2, <2>1, DuringACall, BalancesArePlanned
  <2> QED BY <1>1, <1>3, <2>2, PlannedPrimed
<1> QED BY <1>1, <1>2, <1>3, BalancesStay

\* The planned rows, with their versions, are newer than all others.
LEMMA InsertBalancesBalances ==
  ASSUME SeenInv, InsertBalances
  PROVE  BalanceInv'
<1>1. /\ phase = "balances" /\ phase' = "processed" /\ balanceRows' = balanceRows \cup planned
      /\ UNCHANGED <<processed, pending, ready>>
  BY DEF InsertBalances, factVars
<1>2. ClickInv /\ BalanceInv /\ ~Broken /\ HasPending
  BY <1>1 DEF SeenInv, Broken, HasPending
<1>3. ASSUME ready PROVE SoundBalances(balanceRows', processed \cup pending)
  <2>1. SoundBalances(balanceRows, processed) /\ planned = PlannedRows(processed, pending)
    BY <1>1, <1>2, <1>3 DEF BalanceInv
  <2>2. SoundBalances(balanceRows \cup PlannedRows(processed, pending), processed \cup pending)
    BY <1>2, <2>1, DuringACall, PlannedRowsAreSound
  <2> QED BY <1>1, <2>1, <2>2
<1>4. ready' => SoundBalances(balanceRows', processed' \cup pending')
  BY <1>1, <1>3
<1> QED BY <1>1, <1>4 DEF BalanceInv

\* The blocks count from now on, and the balances already include them.
LEMMA InsertProcessedBlocksBalances ==
  ASSUME SeenInv, InsertProcessedBlocks
  PROVE  BalanceInv'
<1>1. /\ phase = "processed" /\ phase' = "idle" /\ processed' = processed \cup pending
      /\ UNCHANGED <<balanceRows, ready>>
  BY DEF InsertProcessedBlocks, EndCall, currentVars
<1>2. BalanceInv /\ ~Broken
  BY <1>1 DEF SeenInv, Broken
<1>3. ready' => SoundBalances(balanceRows', processed')
  BY <1>1, <1>2 DEF BalanceInv
<1> QED BY <1>1, <1>3 DEF BalanceInv

(***************************************************************************)
(* A call that failed in a materialization had no current state yet;       *)
(* elsewhere the rewind that is due rebuilds it.                           *)
(***************************************************************************)
LEMMA CallFailsBalances ==
  ASSUME SeenInv, CallFails
  PROVE  BalanceInv'
<1>1. /\ phase # "idle" /\ cutoff' = asked /\ phase' = "idle" /\ UNCHANGED ready
  BY DEF CallFails, EndCall, currentVars
<1>2. phase = "materialize" => ~ready
  BY DEF SeenInv, ClickInv, CallInv
<1>3. phase # "materialize" => asked < None
  BY <1>1 DEF SeenInv, ClickInv, CallInv
<1>4. asked \in Nat /\ None \in Nat
  BY Typed DEF SeenInv
<1>5. ~ready' \/ Broken'
  BY <1>1, <1>2, <1>3, <1>4 DEF Broken, None
<1> QED BY <1>1, <1>5 DEF BalanceInv

\* The first current state: outputs, then the balances aggregated over them.
LEMMA MaterializeBalances ==
  ASSUME SeenInv, MaterializeStep
  PROVE  BalanceInv'
<1> DEFINE n == Progress(Rebuild)
           s == Head(queue)
           h == End(processed)
<1>1. /\ phase = "materialize" /\ queue # <<>> /\ Materialized(s, h) /\ queue' = Tail(queue)
      /\ ready' = (queue' = <<>>) /\ phase' = IF queue' = <<>> THEN "idle" ELSE phase
      /\ UNCHANGED cutoff
  BY DEF MaterializeStep
<1>2. /\ UNCHANGED <<creates, spends, processed>>
      /\ current' = IF s = "clearOutputs" THEN {}
                    ELSE IF s = "outputs" THEN current \cup UnspentRows(h) ELSE current
      /\ balanceRows' = IF s = "clearBalances" THEN {}
                        ELSE IF s = "balances" THEN balanceRows \cup AggregatedRows(h) ELSE balanceRows
  BY <1>1 DEF Materialized, factVars
<1>3. ClickInv /\ BalanceInv /\ ~Broken /\ Chain(processed) /\ processed # {} /\ Remains(Rebuild) /\ ~ready
  BY <1>1 DEF SeenInv, Broken, ClickInv, CallInv
<1>4. /\ Rebuild \in Seq(Names) /\ Len(Rebuild) = 4 /\ Rebuild[1] = "clearOutputs"
      /\ Rebuild[2] = "clearBalances" /\ Rebuild[3] = "outputs" /\ Rebuild[4] = "balances"
  BY DEF Rebuild, Names
<1>5. /\ n \in Nat /\ n < 4 /\ s = Rebuild[n + 1]
      /\ 4 - Len(Tail(queue)) = n + 1
      /\ Tail(queue) = <<>> <=> n + 1 = 4
  BY <1>1, <1>3, <1>4, Typed, Advance
<1>6. Progress(Rebuild)' = n + 1
  BY <1>1, <1>4, <1>5 DEF Progress
<1>7. /\ n \in {2, 3} => balanceRows = {}
      /\ n = 3 => LiveKeys(Newest(current)) = Live(processed)
      /\ n \in {1, 2} => current = {}
  BY <1>1, <1>3 DEF BalanceInv, ClickInv, CurrentInv
<1> HIDE DEF n, s, h
<1>8. n \in {0, 1, 2, 3}
  BY <1>5
<1>9. /\ n = 0 => s = "clearOutputs"
      /\ n = 1 => s = "clearBalances"
      /\ n = 2 => s = "outputs"
      /\ n = 3 => s = "balances"
  BY <1>4, <1>5
<1>10. h \in Nat /\ Historical(h) = OutputRows(processed)
  <2>1. processed \subseteq Blocks /\ creates = CreateRows(processed) /\ spends = SpendRows(processed)
    BY <1>1, <1>3, Typed, LandedBlocks DEF ClickInv, FactsInv
  <2>2. /\ h \in Nat /\ \A b \in processed : Height[b] <= h
    BY <1>3, <2>1, HeightBounds DEF h
  <2>3. {r \in creates : r.at <= h} = CreateRows(processed)
    BY <2>1, <2>2 DEF CreateRows
  <2>4. {r \in spends : r.at <= h} = SpendRows(processed)
    BY <2>1, <2>2 DEF SpendRows
  <2> QED BY <1>3, <2>2, <2>3, <2>4, HistoricalRows
<1>11. CASE n = 3
  <2>1. balanceRows' = AggregatedRows(h) /\ LiveKeys(Newest(current)) = Live(processed)
    BY <1>2, <1>7, <1>9, <1>11
  <2>2. SoundBalances(AggregatedRows(h), processed)
    BY <1>3, <1>10, <2>1, AggregatedRowsAreSound DEF h
  <2>3. SoundBalances(balanceRows', processed')
    BY <1>2, <2>1, <2>2
  <2>4. phase' = "idle"
    BY <1>1, <1>5, <1>11
  <2> QED BY <2>3, <2>4 DEF BalanceInv
<1>12. CASE n # 3
  <2>0. n \in {0, 1, 2} /\ n + 1 # 4
    BY <1>8, <1>12
  <2>1. n \in {0, 1, 2} /\ phase' = "materialize" /\ ~ready'
    <3>1. queue' # <<>>
      BY <1>1, <1>5, <2>0
    <3> QED BY <1>1, <2>0, <3>1
  <2>2. n + 1 \in {2, 3} => balanceRows' = {}
    BY <1>2, <1>7, <1>9, <2>1
  <2>3. n + 1 = 3 => LiveKeys(Newest(current')) = Live(processed)
    <3> SUFFICES ASSUME n = 2 PROVE LiveKeys(Newest(current')) = Live(processed)
      BY <2>1
    <3>1. current' = UnspentRows(h)
      BY <1>2, <1>7, <1>9
    <3>2. LiveKeys(Newest(UnspentRows(h))) = Live(processed)
      BY <1>3, <1>10, RebuiltRowsAreLive
    <3> QED BY <3>1, <3>2
  <2>4. LiveKeys(Newest(current))' = LiveKeys(Newest(current')) /\ Live(processed)' = Live(processed)
    BY <1>2 DEF LiveKeys, Newest, Live
  <2> QED BY <1>6, <2>1, <2>2, <2>3, <2>4 DEF BalanceInv
<1> QED BY <1>11, <1>12

\* The cleaning before a repair takes no processed block.
LEMMA CleaningKeepsBlocks ==
  ASSUME ClickInv, CleanStep
  PROVE  UNCHANGED <<processed, balanceRows, ready, pending, planned>> /\ phase = "clean" /\ phase' = "clean"
<1>1. /\ phase = "clean" /\ phase' = "clean" /\ UNCHANGED <<balanceRows, ready, pending, planned>>
      /\ processed' = IF Head(queue) = "processed" THEN Under(processed, cutoff) ELSE processed
  BY DEF CleanStep, Delete, Under
<1>2. HasPending
  BY <1>1 DEF HasPending
<1>3. cutoff = Start(pending) /\ pending # {} /\ pending \subseteq Blocks
  BY <1>1, <1>2, DuringACall DEF ClickInv, CallInv
<1>4. cutoff \in Heights(pending)
  BY <1>3, HeightBounds DEF Start
<1>5. PICK c \in pending : cutoff = Height[c]
  BY <1>4 DEF Heights
<1>6. \A b \in processed : Height[b] < cutoff
  BY <1>2, <1>5, DuringACall
<1>7. Under(processed, cutoff) = processed
  BY <1>6 DEF Under
<1> QED BY <1>1, <1>7

\* At the start there is nothing to see.
LEMMA SeenInitially == ClickInit => SeenInv
<1> SUFFICES ASSUME ClickInit PROVE SeenInv
  OBVIOUS
<1>1. ClickInv
  BY Initially
<1>2. asked = None /\ cutoff = None /\ pending = {} /\ ~ready /\ phase = "idle"
  BY DEF ClickInit
<1>3. IsFiniteSet({}) /\ Cardinality({}) <= WindowSize
  BY FS_EmptySet, EffectsConstants
<1>4. WindowInv
  BY <1>2, <1>3 DEF WindowInv, Broken
<1>5. BalanceInv
  BY <1>2 DEF BalanceInv
<1> QED BY <1>1, <1>4, <1>5 DEF SeenInv

(***************************************************************************)
(* Between its statements a materialization has no current state, and a    *)
(* call that loads, cleans or repairs writes no balances.                  *)
(***************************************************************************)
LEMMA BalanceStep ==
  ASSUME SeenInv, [ClickNext]_clickVars
  PROVE  BalanceInv'
<1>1. ClickInv /\ BalanceInv
  BY DEF SeenInv
<1>2. ASSUME NEW w \in Windows, BeginWindow(w) PROVE BalanceInv'
  BY <1>2, BeginWindowBalances
<1>3. CASE CleanForRepair
  <2>1. /\ phase = "load" /\ phase' = "clean" /\ UNCHANGED <<balanceRows, processed, ready>>
    BY <1>3 DEF CleanForRepair, factVars, currentVars
  <2> QED BY <1>1, <2>1, BalancesStay DEF Broken
<1>4. CASE CleanStep
  <2>1. UNCHANGED <<processed, balanceRows, ready, pending, planned>> /\ phase = "clean" /\ phase' = "clean"
    BY <1>1, <1>4, CleaningKeepsBlocks
  <2> QED BY <1>1, <2>1, BalancesStay DEF Broken
<1>5. CASE Repair
  <2>1. /\ phase = "clean" /\ phase' = "load" /\ UNCHANGED <<balanceRows, processed, ready>>
    BY <1>5 DEF Repair, factVars
  <2> QED BY <1>1, <2>1, BalancesStay DEF Broken
<1>6. CASE InsertFacts
  <2>1. /\ phase = "facts" /\ phase' = "facts"
        /\ UNCHANGED <<balanceRows, processed, ready, pending, planned>>
    BY <1>6 DEF InsertFacts, currentVars
  <2>2. ready => planned = PlannedRows(processed, pending)
    BY <1>1, <2>1 DEF BalanceInv
  <2>3. ready /\ phase' \in {"facts", "balances"} => planned' = PlannedRows(processed, pending)'
    BY <2>1, <2>2, PlannedPrimed
  <2> QED BY <1>1, <2>1, <2>3, BalancesStay DEF Broken
<1>7. CASE InsertCurrentOutputs
  <2>1. /\ phase = "facts" /\ phase' = "balances"
        /\ UNCHANGED <<balanceRows, processed, ready, pending, planned>>
    BY <1>7 DEF InsertCurrentOutputs, factVars
  <2>2. ready => planned = PlannedRows(processed, pending)
    BY <1>1, <2>1 DEF BalanceInv
  <2>3. ready /\ phase' \in {"facts", "balances"} => planned' = PlannedRows(processed, pending)'
    BY <2>1, <2>2, PlannedPrimed
  <2> QED BY <1>1, <2>1, <2>3, BalancesStay DEF Broken
<1>8. CASE BeginMaterialization
  <2>1. phase' = "materialize" /\ queue' = Rebuild /\ ~ready'
    BY <1>8 DEF BeginMaterialization, currentVars
  <2>2. Len(Rebuild) - Len(Rebuild) = 0
    BY DEF Rebuild
  <2>3. Progress(Rebuild)' = 0
    BY <2>1, <2>2 DEF Progress
  <2> QED BY <2>1, <2>3 DEF BalanceInv
<1>9. CASE LoseRow
  <2>1. phase = "idle" /\ UNCHANGED <<phase, cutoff, balanceRows, processed, ready>>
    BY <1>9 DEF LoseRow, factVars, callVars
  <2>2. ready /\ ~Broken => SoundBalances(balanceRows, processed)
    BY <1>1, <2>1 DEF BalanceInv
  <2>3. ready' /\ ~Broken' => SoundBalances(balanceRows', processed')
    BY <2>1, <2>2 DEF Broken, None
  <2> QED BY <2>1, <2>3 DEF BalanceInv
<1>10. CASE UNCHANGED clickVars
  BY <1>1, <1>10 DEF clickVars, factVars, currentVars, callVars, BalanceInv, Broken, None, Progress,
     Statements
<1> QED BY <1>2, <1>3, <1>4, <1>5, <1>6, <1>7, <1>8, <1>9, <1>10, RewindStepBalances,
           RewindDoneBalances, LoadPrevoutsBalances, InsertBalancesBalances,
           InsertProcessedBlocksBalances, CallFailsBalances, RecoverWindowBalances,
           MaterializeBalances DEF ClickNext

\* Also the markers and the balances stay as the refinement needs them.
THEOREM SeenInvariant == ClickSpec => []SeenInv
<1>1. ClickInit => SeenInv
  BY SeenInitially
<1>2. SeenInv /\ [ClickNext]_clickVars => SeenInv'
  <2> SUFFICES ASSUME SeenInv, [ClickNext]_clickVars PROVE SeenInv'
    OBVIOUS
  <2>1. ClickInv'
    BY ClickStep DEF SeenInv
  <2>2. WindowInv'
    BY WindowStep DEF SeenInv
  <2>3. BalanceInv'
    BY BalanceStep
  <2> QED BY <2>1, <2>2, <2>3 DEF SeenInv
<1> QED BY <1>1, <1>2, PTL DEF ClickSpec

-----------------------------------------------------------------------------
(* What callers see                                                        *)

\* The blocks that count end below the cutoff.
LEMMA CountedBlocks ==
  ASSUME ClickInv
  PROVE  LET p == Counted
             h == End(Counted) + 1
         IN  /\ p = Under(processed, cutoff) /\ Chain(p) /\ p \subseteq Blocks
             /\ h \in Nat /\ h <= cutoff /\ Under(processed, h) = p
             /\ \A b \in p : Height[b] < h
             /\ p # {} => \E b \in p : Height[b] + 1 = h
             /\ p = {} => h = 0
<1> DEFINE p == Counted
           h == End(Counted) + 1
<1>1. processed \subseteq Blocks /\ cutoff \in Nat /\ Chain(processed) /\ cutoff \in Int
  BY Typed DEF ClickInv, CallInv
<1>2. p = Under(processed, cutoff)
  BY DEF Counted, Under
<1>3. Chain(p) /\ p \subseteq Blocks
  BY <1>1, <1>2, UnderIsAChain DEF Under
<1>4. \A b \in processed : Height[b] \in Nat
  BY <1>1, NoneIsAbove
<1>5. CASE p = {}
  <2>1. h = 0
    BY <1>5, EndOfNothing DEF NoHeight
  <2>2. Under(processed, h) = p
    <3>1. \A b \in processed : ~(Height[b] < 0)
      BY <1>4
    <3> QED BY <1>5, <2>1, <3>1 DEF Under
  <2> HIDE DEF p, h
  <2>3. h \in Nat /\ h <= cutoff
    BY <1>1, <2>1
  <2> QED BY <1>2, <1>3, <1>5, <2>1, <2>2, <2>3 DEF p, h
<1>6. CASE p # {}
  <2>1. End(p) \in Heights(p) /\ \A b \in p : Height[b] <= End(p)
    BY <1>3, <1>6, HeightBounds
  <2>2. PICK b \in p : Height[b] = End(p)
    BY <2>1 DEF Heights
  <2>3. \A c \in p : c \in processed /\ Height[c] < cutoff /\ Height[c] \in Nat
    BY <1>2, <1>4 DEF Under
  <2>4. h = Height[b] + 1
    BY <2>2
  <2> HIDE DEF p
  <2>5. h \in Nat /\ h <= cutoff /\ \A c \in p : Height[c] < h
    BY <1>1, <2>1, <2>2, <2>3, <2>4
  <2> HIDE DEF h
  <2>6. Under(processed, h) = p
    <3>1. ASSUME NEW c \in processed, Height[c] < h PROVE c \in p
      <4>1. Height[c] < cutoff
        BY <1>1, <1>4, <2>5, <3>1
      <4> QED BY <1>2, <4>1 DEF Under
    <3> QED BY <2>3, <2>5, <3>1 DEF Under
  <2> QED BY <1>2, <1>3, <1>6, <2>2, <2>4, <2>5, <2>6 DEF p, h
<1> QED BY <1>5, <1>6

(***************************************************************************)
(* The facts below the end of the counted blocks are those of these        *)
(* blocks.                                                                 *)
(***************************************************************************)
LEMMA CountedFacts ==
  ASSUME ClickInv
  PROVE  /\ {c \in creates : c.at <= End(Counted)} = CreateRows(Counted)
         /\ {s \in spends : s.at <= End(Counted)} = SpendRows(Counted)
<1> DEFINE p == Counted
           h == End(Counted) + 1
<1>1. /\ Chain(p) /\ p \subseteq Blocks /\ p \subseteq processed
      /\ h \in Nat /\ h <= cutoff /\ Under(processed, h) = p
      /\ p # {} => \E b \in p : Height[b] + 1 = h
      /\ p = {} => h = 0
  BY CountedBlocks DEF Under
<1>2. Below(creates, h) = CreateRows(p) /\ Below(spends, h) = SpendRows(p)
  <2>1. CASE Broken
    BY <1>1, <2>1, FactsFurtherBelow
  <2>2. CASE ~Broken
    <3>1. ASSUME HasPending, NEW c \in pending PROVE h <= Height[c]
      <4>1. Height[c] \in Nat /\ \A b \in processed : Height[b] \in Nat /\ Height[b] < Height[c]
        BY <3>1, DuringACall, NoneIsAbove
      <4> HIDE DEF p, h
      <4>2. CASE p = {}
        BY <1>1, <4>1, <4>2
      <4>3. CASE p # {}
        BY <1>1, <4>1, <4>3
      <4> QED BY <4>2, <4>3
    <3> QED BY <1>1, <2>2, <3>1, FactsBelow
  <2> QED BY <2>1, <2>2
<1>3. End(Counted) \in Int /\ h = End(Counted) + 1
  <2>1. CASE p = {}
    BY <2>1, EndOfNothing DEF NoHeight
  <2>2. CASE p # {}
    BY <1>1, <2>2, HeightBounds
  <2> QED BY <2>1, <2>2
<1> HIDE DEF p, h
<1>4. \A r \in CreateRow : r.at \in Nat
  BY NoneIsAbove DEF CreateRow
<1>5. \A r \in CreateRow : r.at <= End(Counted) <=> r.at < h
  BY <1>1, <1>3, <1>4
<1>6. creates \subseteq CreateRow /\ spends \subseteq CreateRow
  BY Typed
<1>7. {c \in creates : c.at <= End(Counted)} = Below(creates, h)
  BY <1>5, <1>6 DEF Below
<1>8. {c \in spends : c.at <= End(Counted)} = Below(spends, h)
  BY <1>5, <1>6 DEF Below
<1> QED BY <1>2, <1>7, <1>8 DEF p

(***************************************************************************)
(* What callers see is what the counted blocks say, whatever call is under *)
(* way and whatever has failed.                                            *)
(***************************************************************************)
LEMMA CallersSeeTheBlocks ==
  ASSUME SeenInv
  PROVE  SeesInv
<1>1. ClickInv /\ BalanceInv
  BY DEF SeenInv
<1>2. Chain(Counted)
  BY <1>1, CountedBlocks
<1>3. Resting => Counted = processed
  <2>1. processed \subseteq Blocks
    BY <1>1, Typed
  <2> QED BY <2>1, NoneIsAbove DEF Resting, Counted
<1>4. SeenOutputs = OutputRows(Counted)
  <2>1. CASE Resting
    BY <1>1, <1>3, <2>1, RestingFacts
  <2>2. CASE ~Resting
    <3>1. Historical(End(Counted)) = OutputRows(Counted)
      BY <1>1, <1>2, CountedFacts, HistoricalRows
    <3> QED BY <2>2, <3>1 DEF SeenOutputs
  <2> QED BY <2>1, <2>2
<1>5. LiveKeys(SeenOutputs) = Live(Counted)
  BY <1>2, <1>4, LiveOutputs DEF Live
<1>6. ASSUME Resting, ready, NEW a \in Addresses
      PROVE  BalanceOf(a) = Holdings(Live(Counted), a)
  <2>1. SoundBalances(balanceRows, processed)
    BY <1>1, <1>6 DEF BalanceInv, Resting, Broken
  <2> QED BY <1>3, <1>6, <2>1, BalancesAreRead
<1>7. SeenBalances = [a \in Addresses |-> Holdings(Live(Counted), a)]
  <2>1. \A a \in Addresses : (IF Resting /\ ready THEN BalanceOf(a) ELSE Holdings(LiveKeys(SeenOutputs), a))
                             = Holdings(Live(Counted), a)
    BY <1>5, <1>6
  <2> QED BY <2>1 DEF SeenBalances
<1>8. ExactMovements = Credits(Counted) \cup Debits(Counted)
  BY <1>2, <1>4, MovementsOfOutputs
<1> QED BY <1>2, <1>4, <1>7, <1>8 DEF SeesInv

-----------------------------------------------------------------------------
(* What the warehouse in memory makes of the rows of a chain               *)

\* An output of a chain has one row.
LEMMA RowsOfAChain ==
  ASSUME NEW p, Chain(p)
  PROVE  /\ \A b \in p : Height[b] \in Nat /\ Height[b] # NoHeight /\ b \in Blocks
         /\ \A r \in OutputRows(p) : r = [key |-> r.key, at |-> r.at, spent |-> r.spent]
         /\ \A b \in p : \A o \in Creates(b) : o \in Outputs
         /\ \A b, c \in p : \A o \in Creates(b) \cap Creates(c) : b = c
         /\ \A b, c \in p : \A o \in Spends(b) \cap Spends(c) : b = c
         /\ \A b \in p : \A o \in Creates(b) :
              o \notin SpentIn(p) => [key |-> o, at |-> Height[b], spent |-> NoHeight] \in OutputRows(p)
         /\ \A b, c \in p : \A o \in Creates(b) :
              o \in Spends(c) => [key |-> o, at |-> Height[b], spent |-> Height[c]] \in OutputRows(p)
<1>1. /\ \A b \in p : Height[b] \in Nat /\ Height[b] # NoHeight /\ b \in Blocks
      /\ \A b \in p : \A o \in Creates(b) : o \in Outputs
      /\ \A b, c \in p : \A o \in Creates(b) \cap Creates(c) : b = c
      /\ \A b, c \in p : \A o \in Spends(b) \cap Spends(c) : b = c
  BY OutputsOfAChain, NoneIsAbove DEF NoHeight
<1>2. \A r \in OutputRows(p) : r = [key |-> r.key, at |-> r.at, spent |-> r.spent]
  BY DEF OutputRows, OutputRow
<1>3. ASSUME NEW b \in p, NEW o \in Creates(b), o \notin SpentIn(p)
      PROVE  [key |-> o, at |-> Height[b], spent |-> NoHeight] \in OutputRows(p)
  <2> DEFINE r == [key |-> o, at |-> Height[b], spent |-> NoHeight]
  <2>1. r \in OutputRow /\ r.key = o /\ r.at = Height[b] /\ r.spent = NoHeight
    BY <1>1 DEF OutputRow
  <2> HIDE DEF r
  <2>2. r \in OutputRows(p)
    BY <1>3, <2>1 DEF OutputRows
  <2> QED BY <2>2 DEF r
<1>4. ASSUME NEW b \in p, NEW c \in p, NEW o \in Creates(b), o \in Spends(c)
      PROVE  [key |-> o, at |-> Height[b], spent |-> Height[c]] \in OutputRows(p)
  <2> DEFINE r == [key |-> o, at |-> Height[b], spent |-> Height[c]]
  <2>1. r \in OutputRow /\ r.key = o /\ r.at = Height[b] /\ r.spent = Height[c] /\ r.spent # NoHeight
    BY <1>1 DEF OutputRow
  <2> HIDE DEF r
  <2>2. r \in OutputRows(p)
    BY <1>4, <2>1 DEF OutputRows
  <2> QED BY <2>2 DEF r
<1> QED BY <1>1, <1>2, <1>3, <1>4

(***************************************************************************)
(* Rewinding takes the outputs of the blocks from h on away, and makes     *)
(* those they spent unspent again: what is left are the rows of the blocks *)
(* below.                                                                  *)
(***************************************************************************)
LEMMA RewoundRows ==
  ASSUME NEW p, Chain(p), NEW h \in Nat
  PROVE  Memory!Rewound(OutputRows(p), h) = OutputRows(Under(p, h))
<1> DEFINE u == Under(p, h)
           back(r) == [r EXCEPT !.spent = IF @ >= h THEN NoHeight ELSE @]
<1>1. Chain(u) /\ u \subseteq p /\ \A b \in p : b \in u <=> Height[b] < h
  BY UnderIsAChain DEF Under
<1>2. SpentIn(u) \subseteq SpentIn(p)
  BY <1>1 DEF SpentIn
<1>3. ASSUME NEW r \in OutputRows(p), r.at < h PROVE back(r) \in OutputRows(u)
  <2>1. PICK b \in p : r.key \in Creates(b) /\ r.at = Height[b]
    BY DEF OutputRows
  <2>2. b \in u
    BY <1>1, <1>3, <2>1
  <2>3. CASE r.spent = NoHeight
    <3>1. r.key \notin SpentIn(u)
      BY <1>2, <2>3 DEF OutputRows
    <3>2. back(r) = [key |-> r.key, at |-> Height[b], spent |-> NoHeight]
      BY <2>1, <2>3, RowsOfAChain DEF NoHeight
    <3> QED BY <1>1, <2>1, <2>2, <3>1, <3>2, RowsOfAChain
  <2>4. CASE r.spent # NoHeight
    <3>1. PICK c \in p : r.key \in Spends(c) /\ r.spent = Height[c]
      BY <2>4 DEF OutputRows
    <3>2. CASE c \in u
      <4>1. Height[c] < h /\ Height[c] \in Nat
        BY <1>1, <3>2, RowsOfAChain
      <4>2. ~(r.spent >= h)
        BY <3>1, <4>1
      <4>3. back(r) = [key |-> r.key, at |-> Height[b], spent |-> Height[c]]
        BY <2>1, <3>1, <4>2, RowsOfAChain
      <4> QED BY <1>1, <2>1, <2>2, <3>1, <3>2, <4>3, RowsOfAChain
    <3>3. CASE c \notin u
      <4>1. ~(Height[c] < h) /\ Height[c] \in Nat
        BY <1>1, <3>3, RowsOfAChain
      <4>2. r.spent >= h
        BY <3>1, <4>1
      <4>3. back(r) = [key |-> r.key, at |-> Height[b], spent |-> NoHeight]
        BY <2>1, <4>2, RowsOfAChain
      <4>4. r.key \notin SpentIn(u)
        <5> SUFFICES ASSUME NEW d \in u, r.key \in Spends(d) PROVE FALSE
          BY DEF SpentIn
        <5>1. d = c
          BY <1>1, <3>1, RowsOfAChain
        <5> QED BY <3>3, <5>1
      <4> QED BY <1>1, <2>1, <2>2, <4>3, <4>4, RowsOfAChain
    <3> QED BY <3>2, <3>3
  <2> QED BY <2>3, <2>4
<1>4. ASSUME NEW q \in OutputRows(u) PROVE \E r \in OutputRows(p) : r.at < h /\ back(r) = q
  <2>1. PICK b \in u : q.key \in Creates(b) /\ q.at = Height[b]
    BY DEF OutputRows
  <2>2. Height[b] < h /\ q = [key |-> q.key, at |-> Height[b], spent |-> q.spent] /\ b \in p
    BY <1>1, <2>1, RowsOfAChain
  <2>3. CASE q.spent # NoHeight
    <3>1. PICK c \in u : q.key \in Spends(c) /\ q.spent = Height[c]
      BY <2>3 DEF OutputRows
    <3>2. q \in OutputRows(p)
      BY <1>1, <2>1, <2>2, <3>1, RowsOfAChain
    <3>3. ~(q.spent >= h)
      <4>1. Height[c] < h /\ Height[c] \in Nat
        BY <1>1, <3>1, RowsOfAChain
      <4> QED BY <3>1, <4>1
    <3>4. back(q) = q
      BY <2>2, <3>3
    <3> QED BY <2>1, <2>2, <3>2, <3>4
  <2>4. CASE q.spent = NoHeight /\ q.key \notin SpentIn(p)
    <3>1. q \in OutputRows(p)
      BY <2>1, <2>2, <2>4, RowsOfAChain
    <3>2. back(q) = q
      BY <2>2, <2>4 DEF NoHeight
    <3> QED BY <2>1, <2>2, <3>1, <3>2
  <2>5. CASE q.spent = NoHeight /\ q.key \in SpentIn(p)
    <3>1. PICK c \in p : q.key \in Spends(c)
      BY <2>5 DEF SpentIn
    <3>2. c \notin u
      <4>1. q.key \notin SpentIn(u)
        BY <2>5 DEF OutputRows
      <4> QED BY <3>1, <4>1 DEF SpentIn
    <3>3. Height[c] >= h
      BY <1>1, <3>1, <3>2, RowsOfAChain
    <3> DEFINE r == [key |-> q.key, at |-> Height[b], spent |-> Height[c]]
    <3>4. r \in OutputRows(p)
      BY <2>1, <2>2, <3>1, RowsOfAChain
    <3>5. r.at = Height[b] /\ back(r) = q
      BY <2>2, <2>5, <3>3
    <3> QED BY <2>2, <3>4, <3>5
  <2> QED BY <2>3, <2>4, <2>5
<1>5. Memory!Rewound(OutputRows(p), h) = {back(r) : r \in {r \in OutputRows(p) : r.at < h}}
  BY DEF Memory!Rewound, Memory!NoHeight, NoHeight
<1> HIDE DEF back, u
<1>6. {back(r) : r \in {r \in OutputRows(p) : r.at < h}} = OutputRows(u)
  BY <1>3, <1>4
<1> QED BY <1>5, <1>6 DEF u

(***************************************************************************)
(* Applying the blocks x to the rows of the blocks below them gives the    *)
(* rows of all: x spends outputs of both.                                  *)
(***************************************************************************)
LEMMA AppliedRows ==
  ASSUME NEW p, NEW x, Chain(p), Chain(p \cup x), \A b \in p, c \in x : Height[b] < Height[c]
  PROVE  Memory!Applied(OutputRows(p), x) = OutputRows(p \cup x)
<1> DEFINE all == p \cup x
           made == {[key |-> o, at |-> Height[MakerOf(o, x)], spent |-> NoHeight] : o \in CreatedIn(x)}
           rows == {r \in OutputRows(p) : r.key \notin CreatedIn(x)} \cup made
           step(r) == IF r.key \in SpentIn(x) THEN [r EXCEPT !.spent = Height[SpenderOf(r.key, x)]] ELSE r
<1>1. /\ \A b \in x : \A o \in Creates(b) : MakerOf(o, x) = b
      /\ \A b \in x : \A o \in Spends(b) : SpenderOf(o, x) = b
      /\ \A o \in CreatedIn(x) : MakerOf(o, x) \in x /\ o \in Creates(MakerOf(o, x))
      /\ \A o \in SpentIn(x) : SpenderOf(o, x) \in x /\ o \in Spends(SpenderOf(o, x))
  BY WholeChain
<1>2. /\ Chain(all) /\ p \subseteq all /\ x \subseteq all
      /\ \A b \in all : b \in p \/ b \in x
      /\ \A b \in p, c \in x : b # c
      /\ \A o : o \in SpentIn(all) <=> o \in SpentIn(p) \/ o \in SpentIn(x)
  <2>1. \A b \in p : Height[b] \in Nat
    BY RowsOfAChain
  <2>2. \A b \in p, c \in x : b # c
    BY <2>1
  <2>3. \A o : o \in SpentIn(all) <=> o \in SpentIn(p) \/ o \in SpentIn(x)
    BY DEF SpentIn
  <2> QED BY <2>2, <2>3
<1>3. \A b \in p : \A o \in Creates(b) : o \notin CreatedIn(x)
  BY <1>1, <1>2, RowsOfAChain
<1>4. \A b \in x : \A o \in Creates(b) : o \notin SpentIn(p)
  <2> SUFFICES ASSUME NEW b \in x, NEW o \in Creates(b), NEW c \in p, o \in Spends(c) PROVE FALSE
    BY DEF SpentIn
  <2>1. PICK d \in p : o \in Creates(d)
    BY OutputsOfAChain
  <2>2. d = b
    BY <1>2, <2>1, RowsOfAChain
  <2> QED BY <1>2, <2>2
<1>5. \A o : o \in SpentIn(x) => o \notin SpentIn(p)
  <2> SUFFICES ASSUME NEW o, NEW b \in x, o \in Spends(b), NEW c \in p, o \in Spends(c) PROVE FALSE
    BY DEF SpentIn
  <2>1. b = c
    BY <1>2, RowsOfAChain
  <2> QED BY <1>2, <2>1
<1>6. ASSUME NEW b \in all, NEW o \in Creates(b), NEW r, r = [key |-> o, at |-> Height[b], spent |-> r.spent],
             b \in x => r.spent = NoHeight, b \in p => r \in OutputRows(p)
      PROVE  step(r) \in OutputRows(all)
  <2>0. r.key = o /\ r.at = Height[b]
    BY <1>6
  <2>1. CASE o \in SpentIn(x)
    <3> DEFINE c == SpenderOf(o, x)
    <3>1. c \in x /\ o \in Spends(c)
      BY <1>1, <2>1
    <3>2. step(r) = [key |-> o, at |-> Height[b], spent |-> Height[c]]
      BY <1>6, <2>0, <2>1
    <3> HIDE DEF c
    <3> QED BY <1>2, <3>1, <3>2, RowsOfAChain
  <2>2. CASE o \notin SpentIn(x) /\ b \in x
    <3>1. step(r) = [key |-> o, at |-> Height[b], spent |-> NoHeight] /\ o \notin SpentIn(all)
      BY <1>2, <1>4, <1>6, <2>0, <2>2
    <3> QED BY <1>2, <3>1, RowsOfAChain
  <2>3. CASE o \notin SpentIn(x) /\ b \in p
    <3>1. step(r) = r /\ r \in OutputRows(p)
      BY <1>6, <2>0, <2>3
    <3>2. CASE r.spent = NoHeight
      <4>1. o \notin SpentIn(p)
        BY <2>0, <3>1, <3>2 DEF OutputRows
      <4>2. r = [key |-> o, at |-> Height[b], spent |-> NoHeight] /\ o \notin SpentIn(all)
        BY <1>2, <1>6, <2>3, <3>2, <4>1
      <4> QED BY <1>2, <3>1, <4>2, RowsOfAChain
    <3>3. CASE r.spent # NoHeight
      <4>1. PICK c \in p : o \in Spends(c) /\ r.spent = Height[c]
        BY <2>0, <3>1, <3>3 DEF OutputRows
      <4>2. r = [key |-> o, at |-> Height[b], spent |-> Height[c]] /\ c \in all
        BY <1>2, <1>6, <4>1
      <4> QED BY <1>2, <3>1, <4>1, <4>2, RowsOfAChain
    <3> QED BY <3>2, <3>3
  <2> QED BY <1>2, <2>1, <2>2, <2>3
<1>7. ASSUME NEW r \in rows PROVE step(r) \in OutputRows(all)
  <2>1. CASE r \in made
    <3>1. PICK o \in CreatedIn(x) : r = [key |-> o, at |-> Height[MakerOf(o, x)], spent |-> NoHeight]
      BY <2>1
    <3> DEFINE b == MakerOf(o, x)
    <3>2. b \in x /\ o \in Creates(b) /\ b \notin p
      BY <1>1, <1>2
    <3>3. r = [key |-> o, at |-> Height[b], spent |-> r.spent] /\ r.spent = NoHeight
      BY <3>1
    <3> HIDE DEF b, step
    <3> QED BY <1>2, <1>6, <3>2, <3>3
  <2>2. CASE r \in OutputRows(p)
    <3>1. PICK b \in p : r.key \in Creates(b) /\ r.at = Height[b]
      BY <2>2 DEF OutputRows
    <3>2. r = [key |-> r.key, at |-> Height[b], spent |-> r.spent] /\ b \notin x /\ b \in all
      BY <1>2, <2>2, <3>1, RowsOfAChain
    <3> HIDE DEF step
    <3> QED BY <1>2, <1>6, <2>2, <3>1, <3>2
  <2> QED BY <2>1, <2>2
<1>8. ASSUME NEW q \in OutputRows(all) PROVE \E r \in rows : step(r) = q
  <2>1. PICK b \in all : q.key \in Creates(b) /\ q.at = Height[b]
    BY DEF OutputRows
  <2>2. q = [key |-> q.key, at |-> Height[b], spent |-> q.spent]
    BY <1>2, <2>1, RowsOfAChain
  <2> DEFINE r == [key |-> q.key, at |-> Height[b], spent |-> NoHeight]
  <2>3. b \in x => r \in rows
    <3> SUFFICES ASSUME b \in x PROVE r \in made
      OBVIOUS
    <3>1. MakerOf(q.key, x) = b /\ q.key \in CreatedIn(x)
      BY <1>1, <2>1 DEF CreatedIn
    <3> QED BY <3>1
  <2>4. b \in p => /\ q.key \notin SpentIn(p) => r \in rows
                   /\ q \in OutputRows(p) => q \in rows
    <3> SUFFICES ASSUME b \in p PROVE /\ q.key \notin SpentIn(p) => r \in rows
                                      /\ q \in OutputRows(p) => q \in rows
      OBVIOUS
    <3>1. q.key \notin CreatedIn(x)
      BY <1>3, <2>1
    <3>2. q.key \notin SpentIn(p) => r \in OutputRows(p)
      BY <2>1, RowsOfAChain
    <3>3. r.key = q.key
      OBVIOUS
    <3> HIDE DEF r
    <3> QED BY <3>1, <3>2, <3>3
  <2> HIDE DEF rows
  <2>5. CASE q.key \in SpentIn(x)
    <3>1. q.key \notin SpentIn(p)
      BY <1>5, <2>5
    <3>2. r \in rows
      BY <1>2, <2>3, <2>4, <3>1
    <3>3. PICK c \in x : q.key \in Spends(c)
      BY <2>5 DEF SpentIn
    <3>4. q.spent # NoHeight
      BY <1>2, <2>5 DEF OutputRows
    <3>5. PICK d \in all : q.key \in Spends(d) /\ q.spent = Height[d]
      BY <3>4 DEF OutputRows
    <3>6. d = c /\ SpenderOf(q.key, x) = c
      BY <1>1, <1>2, <3>3, <3>5, RowsOfAChain
    <3>7. step(r) = [key |-> q.key, at |-> Height[b], spent |-> Height[c]]
      BY <2>5, <3>6
    <3>8. step(r) = q
      BY <2>2, <3>5, <3>6, <3>7
    <3> QED BY <3>2, <3>8
  <2>6. CASE q.key \notin SpentIn(x) /\ q.spent = NoHeight
    <3>1. q.key \notin SpentIn(p)
      BY <1>2, <2>6 DEF OutputRows
    <3>2. r \in rows /\ r = q
      BY <1>2, <2>2, <2>3, <2>4, <2>6, <3>1
    <3> QED BY <2>6, <3>2
  <2>7. CASE q.key \notin SpentIn(x) /\ q.spent # NoHeight
    <3>1. PICK c \in all : q.key \in Spends(c) /\ q.spent = Height[c]
      BY <2>7 DEF OutputRows
    <3>2. c \in p /\ q.key \in SpentIn(p)
      BY <1>2, <2>7, <3>1 DEF SpentIn
    <3>3. b \in p
      BY <1>2, <1>4, <2>1, <3>2
    <3>4. q \in OutputRows(p)
      BY <2>1, <2>2, <3>1, <3>2, <3>3, RowsOfAChain
    <3> QED BY <2>4, <2>7, <3>3, <3>4
  <2> QED BY <2>5, <2>6, <2>7
<1>9. Memory!Applied(OutputRows(p), x) = {step(r) : r \in rows}
  BY DEF Memory!Applied, Memory!CreatedIn, Memory!SpentIn, Memory!MakerOf, Memory!SpenderOf, Memory!NoHeight,
     Memory!Creates, Memory!Spends, CreatedIn, SpentIn, MakerOf, SpenderOf, Creates, Spends, NoHeight
<1> HIDE DEF step, rows
<1>10. {step(r) : r \in rows} = OutputRows(all)
  BY <1>7, <1>8
<1> QED BY <1>9, <1>10

\* The movements of a window in memory are its credits and its debits.
LEMMA MovementsInMemory ==
  ASSUME NEW p, NEW x, Chain(p \cup x)
  PROVE  Memory!MovementsOf(x) = Credits(x) \cup Debits(x)
<1>1. /\ \A b \in x : \A o \in Creates(b) : MakerOf(o, x) = b
      /\ \A b \in x : \A o \in Spends(b) : SpenderOf(o, x) = b
      /\ \A o \in CreatedIn(x) : MakerOf(o, x) \in x /\ o \in Creates(MakerOf(o, x))
      /\ \A o \in SpentIn(x) : SpenderOf(o, x) \in x /\ o \in Spends(SpenderOf(o, x))
  BY WholeChain
<1>2. \A b \in x : /\ Height[b] \in 0 .. None - 1
                   /\ Creates(b) \subseteq Outputs /\ Spends(b) \subseteq Outputs
  BY OutputsOfAChain, NoneIsAbove
<1> DEFINE credits == {[dir |-> "credit", key |-> o, at |-> Height[MakerOf(o, x)]] :
                         o \in {o \in CreatedIn(x) : Owned(o)}}
           debits == {[dir |-> "debit", key |-> o, at |-> Height[SpenderOf(o, x)]] :
                        o \in {o \in SpentIn(x) : Owned(o)}}
<1>3. Memory!MovementsOf(x) = credits \cup debits
  BY DEF Memory!MovementsOf, Memory!CreatedIn, Memory!SpentIn, Memory!MakerOf, Memory!SpenderOf,
     Memory!Owned, Memory!Creates, Memory!Spends, CreatedIn, SpentIn, MakerOf, SpenderOf, Creates, Spends, Owned
<1>4. ASSUME NEW m \in Credits(x) PROVE m \in credits
  <2>1. m \in Movement /\ m.dir = "credit" /\ Owned(m.key)
    BY DEF Credits
  <2>2. PICK b \in x : m.key \in Creates(b) /\ m.at = Height[b]
    BY DEF Credits
  <2>3. m = [dir |-> "credit", key |-> m.key, at |-> Height[MakerOf(m.key, x)]]
    BY <1>1, <2>1, <2>2 DEF Movement
  <2>4. m.key \in {o \in CreatedIn(x) : Owned(o)}
    BY <2>1, <2>2 DEF CreatedIn
  <2> QED BY <2>3, <2>4
<1>5. ASSUME NEW m \in Debits(x) PROVE m \in debits
  <2>1. m \in Movement /\ m.dir = "debit" /\ Owned(m.key)
    BY DEF Debits
  <2>2. PICK b \in x : m.key \in Spends(b) /\ m.at = Height[b]
    BY DEF Debits
  <2>3. m = [dir |-> "debit", key |-> m.key, at |-> Height[SpenderOf(m.key, x)]]
    BY <1>1, <2>1, <2>2 DEF Movement
  <2>4. m.key \in {o \in SpentIn(x) : Owned(o)}
    BY <2>1, <2>2 DEF SpentIn
  <2> QED BY <2>3, <2>4
<1>6. ASSUME NEW o \in CreatedIn(x), Owned(o)
      PROVE [dir |-> "credit", key |-> o, at |-> Height[MakerOf(o, x)]] \in Credits(x)
  BY <1>1, <1>2, <1>6 DEF Credits, Movement
<1>7. ASSUME NEW o \in SpentIn(x), Owned(o)
      PROVE [dir |-> "debit", key |-> o, at |-> Height[SpenderOf(o, x)]] \in Debits(x)
  BY <1>1, <1>2, <1>7 DEF Debits, Movement
<1>8. credits \subseteq Credits(x) /\ debits \subseteq Debits(x)
  BY <1>6, <1>7
<1> HIDE DEF credits, debits
<1> QED BY <1>3, <1>4, <1>5, <1>8

-----------------------------------------------------------------------------
(* The steps of the warehouse in memory                                    *)

\* What is seen after a step.
LEMMA SeenNext ==
  ASSUME SeesInv'
  PROVE  /\ Chain(Counted') /\ SeenOutputs' = OutputRows(Counted')
         /\ SeenBalances' = [a \in Addresses |-> Holdings(Live(Counted'), a)]
         /\ ExactMovements' = Credits(Counted') \cup Debits(Counted')
  BY DEF SeesInv

\* Both warehouses sum alike.
LEMMA SumsInMemory ==
  ASSUME NEW os, NEW a
  PROVE  Memory!Holdings(os, a) = Holdings(os, a)
  BY DEF Memory!Holdings, Holdings, Memory!MapThenSumSet, MapThenSumSet, Memory!MapThenFoldSet, MapThenFoldSet

\* Taking blocks back.
LEMMA RecoverIsSeen ==
  ASSUME SeesInv, SeesInv', NEW h \in Heights(Blocks), Counted' = Under(Counted, h)
  PROVE  Memory!Recover(h)
<1> DEFINE p == Counted
           u == Under(p, h)
<1>1. /\ Chain(p) /\ SeenOutputs = OutputRows(p) /\ ExactMovements = Credits(p) \cup Debits(p)
      /\ Counted' = u /\ h \in Nat
  <2>1. h \in Nat
    BY BlockFacts DEF Heights
  <2> QED BY <2>1 DEF SeesInv
<1>2. /\ Chain(u) /\ SeenOutputs' = OutputRows(u)
      /\ SeenBalances' = [a \in Addresses |-> Holdings(Live(u), a)]
      /\ ExactMovements' = Credits(u) \cup Debits(u)
  BY SeenNext
<1>3. Counted' = {b \in Counted : Height[b] < h}
  BY DEF Under
<1>4. ExactMovements' = {m \in ExactMovements : m.at < h}
  <2>1. Below(Credits(p), h) = Credits(u) /\ Below(Debits(p), h) = Debits(u)
    BY RowsBelow
  <2> QED BY <1>1, <1>2, <2>1 DEF Below
<1>5. SeenOutputs' = Memory!Rewound(SeenOutputs, h)
  BY <1>1, <1>2, RewoundRows
<1>6. SeenBalances' = Memory!BalancesFrom(SeenOutputs')
  <2>1. LiveKeys(OutputRows(u)) = Live(u)
    BY <1>2, LiveOutputs DEF Live
  <2>2. Memory!Keys(Memory!Unspent(OutputRows(u))) = Live(u)
    BY <2>1 DEF LiveKeys, Memory!Keys, Memory!Unspent, Memory!NoHeight, NoHeight
  <2> HIDE DEF u
  <2>3. Memory!BalancesFrom(OutputRows(u)) = [a \in Addresses |-> Holdings(Live(u), a)]
    BY <2>2, SumsInMemory DEF Memory!BalancesFrom
  <2> QED BY <1>2, <2>3
<1> QED BY <1>3, <1>4, <1>5, <1>6 DEF Memory!Recover

(***************************************************************************)
(* The blocks of a call are a window the warehouse in memory may be        *)
(* offered.                                                                *)
(***************************************************************************)
LEMMA PendingIsAWindow ==
  ASSUME NEW p, NEW x, Chain(p), Chain(p \cup x), \A b \in p, c \in x : Height[b] < Height[c],
         x # {}, Cardinality(x) <= WindowSize
  PROVE  /\ x \in Windows /\ Parent[First(x)] \in p \cup {NoBlock}
         /\ Conflicts(x, p) = {} /\ Pending(x, p) = x
<1>1. /\ x \subseteq Blocks /\ \A b \in p : b \in Blocks
      /\ \A b \in p \cup x : Height[b] \in Nat /\ Parent[b] \in p \cup x \cup {NoBlock}
      /\ \A b, c \in x : b # c => Height[b] # Height[c]
      /\ \A b \in x : Parent[b] = NoBlock => Height[b] = 0
      /\ \A b \in x : Parent[b] # NoBlock => Height[b] = Height[Parent[b]] + 1
  BY BlockFacts DEF Chain
<1>2. \A b, c \in x : b # c => Creates(b) \cap Creates(c) = {} /\ Spends(b) \cap Spends(c) = {}
  <2>1. p \cup x \in SUBSET Blocks
    BY <1>1
  <2>2. \A b, c \in p \cup x : b # c => Creates(b) \cap Creates(c) = {} /\ Spends(b) \cap Spends(c) = {}
    BY <2>1, ChainsAreValid
  <2> QED BY <2>2
<1>3. ASSUME NEW b \in x, Parent[b] \notin x PROVE \A c \in x : Height[c] >= Height[b]
  <2>1. CASE Parent[b] = NoBlock
    BY <1>1, <2>1
  <2>2. CASE Parent[b] # NoBlock
    <3>1. Parent[b] \in p /\ Height[Parent[b]] \in Nat /\ Height[b] = Height[Parent[b]] + 1
      BY <1>1, <1>3, <2>2
    <3>2. \A c \in x : Height[Parent[b]] < Height[c] /\ Height[c] \in Nat
      BY <1>1, <3>1
    <3> QED BY <3>1, <3>2
  <2> QED BY <2>1, <2>2
<1>4. WellFormed(x)
  BY <1>1, <1>2, <1>3 DEF WellFormed
<1>5. x \in Windows
  BY <1>1, <1>4 DEF Windows
<1>6. Parent[First(x)] \in p \cup {NoBlock}
  <2>1. Start(x) \in Heights(x) /\ \A b \in x : Start(x) <= Height[b]
    BY <1>1, HeightBounds DEF Start
  <2>2. First(x) \in x /\ Height[First(x)] = Start(x)
    BY <2>1 DEF First, Heights
  <2>3. Parent[First(x)] \notin x
    <3> DEFINE f == First(x)
               q == Parent[f]
    <3> HIDE DEF f
    <3> SUFFICES ASSUME q \in x PROVE FALSE
      BY DEF f
    <3>1. q # NoBlock /\ f \in x /\ Height[f] = Height[q] + 1 /\ Height[q] \in Nat /\ Height[f] <= Height[q]
      BY <1>1, <2>1, <2>2, BlockFacts DEF f
    <3> QED BY <3>1
  <2> QED BY <1>1, <2>2, <2>3
<1>7. Conflicts(x, p) = {} /\ x \cap p = {}
  <2>1. \A b \in p, c \in x : Height[b] # Height[c]
    BY <1>1
  <2> QED BY <2>1 DEF Conflicts
<1>8. Pending(x, p) = x
  BY <1>7 DEF Pending
<1> QED BY <1>5, <1>6, <1>7, <1>8

(***************************************************************************)
(* What the new movements of a window add to an address is what its blocks *)
(* create and spend.                                                       *)
(***************************************************************************)
LEMMA WindowSums ==
  ASSUME NEW p, NEW x, Chain(p \cup x), NEW a \in Addresses
  PROVE  /\ Memory!Sum(Credits(x) \cup Debits(x), "credit", a) = Holdings(CreatedIn(x), a)
         /\ Memory!Sum(Credits(x) \cup Debits(x), "debit", a) = Holdings(SpentIn(x), a)
<1> DEFINE ms == Credits(x) \cup Debits(x)
           keys(dir) == {m.key : m \in {m \in ms : m.dir = dir}}
<1>1. \A b \in x : /\ Height[b] \in 0 .. None - 1
                   /\ Creates(b) \subseteq Outputs /\ Spends(b) \subseteq Outputs
  BY OutputsOfAChain, NoneIsAbove
<1>2. \A o : Owner[o] = a => Owned(o)
  BY EffectsConstants DEF Owned
<1>3. ASSUME NEW o, Owner[o] = a PROVE o \in keys("credit") <=> o \in CreatedIn(x)
  <2>1. ASSUME o \in CreatedIn(x) PROVE o \in keys("credit")
    <3>1. PICK b \in x : o \in Creates(b)
      BY <2>1 DEF CreatedIn
    <3> DEFINE m == [dir |-> "credit", key |-> o, at |-> Height[b]]
    <3>2. m \in Movement /\ m.dir = "credit" /\ m.key = o /\ m.at = Height[b]
      BY <1>1, <3>1 DEF Movement
    <3> HIDE DEF m
    <3>3. m \in Credits(x)
      BY <1>2, <1>3, <3>1, <3>2 DEF Credits
    <3> QED BY <3>2, <3>3
  <2>2. ASSUME o \in keys("credit") PROVE o \in CreatedIn(x)
    <3>1. PICK m \in Credits(x) \cup Debits(x) : m.dir = "credit" /\ m.key = o
      BY <2>2
    <3>2. m \in Credits(x)
      BY <3>1 DEF Debits
    <3> QED BY <3>1, <3>2 DEF Credits, CreatedIn
  <2> QED BY <2>1, <2>2
<1>4. ASSUME NEW o, Owner[o] = a PROVE o \in keys("debit") <=> o \in SpentIn(x)
  <2>1. ASSUME o \in SpentIn(x) PROVE o \in keys("debit")
    <3>1. PICK b \in x : o \in Spends(b)
      BY <2>1 DEF SpentIn
    <3> DEFINE m == [dir |-> "debit", key |-> o, at |-> Height[b]]
    <3>2. m \in Movement /\ m.dir = "debit" /\ m.key = o /\ m.at = Height[b]
      BY <1>1, <3>1 DEF Movement
    <3> HIDE DEF m
    <3>3. m \in Debits(x)
      BY <1>2, <1>4, <3>1, <3>2 DEF Debits
    <3> QED BY <3>2, <3>3
  <2>2. ASSUME o \in keys("debit") PROVE o \in SpentIn(x)
    <3>1. PICK m \in Credits(x) \cup Debits(x) : m.dir = "debit" /\ m.key = o
      BY <2>2
    <3>2. m \in Debits(x)
      BY <3>1 DEF Credits
    <3> QED BY <3>1, <3>2 DEF Debits, SpentIn
  <2> QED BY <2>1, <2>2
<1>5. \A dir : Memory!Sum(ms, dir, a) = Holdings(keys(dir), a)
  BY SumsInMemory DEF Memory!Sum
<1> HIDE DEF ms, keys
<1>6. Holdings(keys("credit"), a) = Holdings(CreatedIn(x), a)
  BY <1>3, HoldingsOfOutputs
<1>7. Holdings(keys("debit"), a) = Holdings(SpentIn(x), a)
  BY <1>4, HoldingsOfOutputs
<1> QED BY <1>5, <1>6, <1>7 DEF ms

(***************************************************************************)
(* The insert of the processed blocks is where the window appears to       *)
(* callers, whole.                                                         *)
(***************************************************************************)
LEMMA ApplyIsSeen ==
  ASSUME SeesInv, SeesInv', NEW x, Counted' = Counted \cup x, x # {}, Cardinality(x) <= WindowSize,
         \A b \in Counted, c \in x : Height[b] < Height[c]
  PROVE  \E w \in Windows : Memory!Apply(w)
<1> DEFINE p == Counted
           h == End(p) + 1
<1>1. /\ Chain(p) /\ SeenOutputs = OutputRows(p) /\ ExactMovements = Credits(p) \cup Debits(p)
      /\ SeenBalances = [a \in Addresses |-> Holdings(Live(p), a)]
  BY DEF SeesInv
<1>2. /\ Chain(p \cup x) /\ SeenOutputs' = OutputRows(p \cup x)
      /\ SeenBalances' = [a \in Addresses |-> Holdings(Live(p \cup x), a)]
      /\ ExactMovements' = Credits(p \cup x) \cup Debits(p \cup x)
  BY SeenNext
<1>3. /\ x \in Windows /\ Parent[First(x)] \in p \cup {NoBlock}
      /\ Conflicts(x, p) = {} /\ Pending(x, p) = x
  BY <1>1, <1>2, PendingIsAWindow
<1>4. h \in Nat /\ \A b \in p : Height[b] \in Nat /\ Height[b] < h
  <2>1. p \subseteq Blocks
    BY <1>1 DEF Chain
  <2>2. CASE p = {}
    BY <2>2, EndOfNothing DEF NoHeight
  <2>3. CASE p # {}
    <3>1. End(p) \in Nat /\ \A b \in p : Height[b] <= End(p) /\ Height[b] \in Nat
      BY <2>1, <2>3, HeightBounds, NoneIsAbove
    <3> QED BY <3>1
  <2> QED BY <2>2, <2>3
<1> HIDE DEF h
<1>5. Under(p, h) = p /\ {b \in p : Height[b] < h} = p
  BY <1>4 DEF Under
<1>6. Min(Conflicts(x, p) \cup {h}) = h
  <2>1. Min({h}) = h
    <3>1. \A m : (m \in {h} /\ \A y \in {h} : m <= y) <=> m = h
      BY <1>4
    <3> QED BY <3>1 DEF Min
  <2>2. Conflicts(x, p) \cup {h} = {h}
    BY <1>3
  <2> QED BY <2>1, <2>2
<1>7. Memory!Rewound(SeenOutputs, h) = OutputRows(p)
  BY <1>1, <1>4, <1>5, RewoundRows
<1>8. {m \in ExactMovements : m.at < h} = ExactMovements
  <2>1. Below(Credits(p), h) = Credits(p) /\ Below(Debits(p), h) = Debits(p)
    BY <1>5, RowsBelow
  <2> QED BY <1>1, <2>1 DEF Below
<1>9. Memory!NewMovements(ExactMovements, x) = Credits(x) \cup Debits(x)
  <2>1. Memory!MovementsOf(x) = Credits(x) \cup Debits(x)
    BY <1>2, MovementsInMemory
  <2>2. /\ \A b \in p, c \in x : b # c
        /\ \A b, c \in p \cup x : \A o \in Creates(b) \cap Creates(c) : b = c
        /\ \A b, c \in p \cup x : \A o \in Spends(b) \cap Spends(c) : b = c
    BY <1>2, <1>4, RowsOfAChain
  <2>3. ASSUME NEW m \in Credits(x), NEW k \in Credits(p) \cup Debits(p) PROVE ~(k.dir = m.dir /\ k.key = m.key)
    <3> SUFFICES ASSUME k.dir = m.dir, k.key = m.key PROVE FALSE
      OBVIOUS
    <3>1. m.dir = "credit" /\ \E c \in x : m.key \in Creates(c)
      BY DEF Credits
    <3>2. k \in Credits(p)
      BY <3>1 DEF Debits
    <3>3. \E b \in p : k.key \in Creates(b)
      BY <3>2 DEF Credits
    <3> QED BY <2>2, <3>1, <3>3
  <2>4. ASSUME NEW m \in Debits(x), NEW k \in Credits(p) \cup Debits(p) PROVE ~(k.dir = m.dir /\ k.key = m.key)
    <3> SUFFICES ASSUME k.dir = m.dir, k.key = m.key PROVE FALSE
      OBVIOUS
    <3>1. m.dir = "debit" /\ \E c \in x : m.key \in Spends(c)
      BY DEF Debits
    <3>2. k \in Debits(p)
      BY <3>1 DEF Credits
    <3>3. \E b \in p : k.key \in Spends(b)
      BY <3>2 DEF Debits
    <3> QED BY <2>2, <3>1, <3>3
  <2> QED BY <1>1, <2>1, <2>3, <2>4 DEF Memory!NewMovements
<1>10. ExactMovements' = ExactMovements \cup (Credits(x) \cup Debits(x))
  <2>1. Credits(p \cup x) = Credits(p) \cup Credits(x) /\ Debits(p \cup x) = Debits(p) \cup Debits(x)
    BY RowsOfUnion
  <2> HIDE DEF p
  <2> QED BY <1>1, <1>2, <2>1
<1>11. SeenOutputs' = Memory!Applied(OutputRows(p), x)
  BY <1>1, <1>2, AppliedRows
<1>12. SeenBalances' = [a \in Addresses |->
          SeenBalances[a] + Memory!Sum(Credits(x) \cup Debits(x), "credit", a)
                          - Memory!Sum(Credits(x) \cup Debits(x), "debit", a)]
  <2>1. ASSUME NEW a \in Addresses
        PROVE  Holdings(Live(p \cup x), a)
               = SeenBalances[a] + Memory!Sum(Credits(x) \cup Debits(x), "credit", a)
                                 - Memory!Sum(Credits(x) \cup Debits(x), "debit", a)
    <3>1. Holdings(Live(p), a) + Holdings(CreatedIn(x), a) - Holdings(SpentIn(x), a)
          = Holdings(Live(p \cup x), a)
      BY <1>1, <1>2, BalanceAfterAWindow
    <3>2. SeenBalances[a] = Holdings(Live(p), a)
      BY <1>1
    <3>3. /\ Memory!Sum(Credits(x) \cup Debits(x), "credit", a) = Holdings(CreatedIn(x), a)
          /\ Memory!Sum(Credits(x) \cup Debits(x), "debit", a) = Holdings(SpentIn(x), a)
      BY <1>2, WindowSums
    <3> QED BY <3>1, <3>2, <3>3
  <2> QED BY <1>2, <2>1
<1>13. Counted' = {b \in Counted : Height[b] < h} \cup x
  BY <1>5
<1> DEFINE base == IF Conflicts(x, Counted) = {} THEN SeenBalances
                   ELSE Memory!BalancesFrom(Memory!Rewound(SeenOutputs, h))
<1>14. base = SeenBalances
  BY <1>3
<1>15. Memory!Apply(x)
  BY <1>3, <1>6, <1>7, <1>8, <1>9, <1>10, <1>11, <1>12, <1>13, <1>14 DEF Memory!Apply, h,
     Memory!Conflicts, Conflicts, Memory!Pending, Pending, Memory!End, End, Memory!Max, Max, Memory!Min, Min,
     Memory!Heights, Heights, Memory!First, First, Memory!Start, Start, Memory!NoHeight, NoHeight
<1> QED BY <1>3, <1>15

(***************************************************************************)
(* Every step of the tables is a step of the warehouse in memory, or       *)
(* nothing callers could see: only taking blocks back and inserting the    *)
(* processed blocks change the blocks that count.                          *)
(***************************************************************************)
LEMMA StepIsSeen ==
  ASSUME SeenInv, SeenInv', [ClickNext]_clickVars
  PROVE  [Memory!MemoryNext]_Memory!memoryVars
<1>1. SeesInv /\ SeesInv' /\ ClickInv /\ WindowInv
  <2>1. SeesInv'
    BY CallersSeeTheBlocks, PTL
  <2> QED BY <2>1, CallersSeeTheBlocks DEF SeenInv
<1>2. /\ Chain(processed) /\ processed \subseteq Blocks /\ \A b \in processed : Height[b] \in Nat /\ Height[b] < None
      /\ cutoff \in Nat /\ None \in Nat
  BY <1>1, Typed, NoneIsAbove DEF ClickInv, CallInv
<1>3. ASSUME Counted' = Counted PROVE UNCHANGED Memory!memoryVars
  BY <1>1, <1>3, SeenNext DEF SeesInv, Memory!memoryVars
<1>4. ASSUME UNCHANGED <<processed, cutoff>> PROVE Counted' = Counted
  BY <1>4 DEF Counted
<1>5. ASSUME cutoff = None PROVE Counted = processed
  BY <1>2, <1>5 DEF Counted
<1>6. ASSUME cutoff' = None, UNCHANGED processed PROVE Counted' = processed
  BY <1>2, <1>6 DEF Counted
<1>7. ASSUME NEW h \in Heights(Blocks), Counted' = Under(Counted, h) PROVE Memory!MemoryNext
  BY <1>1, <1>7, RecoverIsSeen DEF Memory!MemoryNext, Memory!Heights, Heights
<1>8. ASSUME NEW w \in Windows, BeginWindow(w)
      PROVE  Memory!MemoryNext \/ UNCHANGED Memory!memoryVars
  <2>1. cutoff = None /\ UNCHANGED processed
    BY <1>8 DEF BeginWindow, factVars
  <2>2. CASE Conflicts(w, processed) = {}
    BY <1>3, <1>4, <1>8, <2>1, <2>2 DEF BeginWindow
  <2>3. CASE Conflicts(w, processed) # {}
    <3> DEFINE h == Min(Conflicts(w, processed))
    <3>1. h \in Heights(Blocks) /\ cutoff' = h
      BY <1>8, <2>3, WindowHeights DEF BeginWindow, TakeBack
    <3>2. Counted' = Under(Counted, h)
      BY <1>5, <2>1, <3>1 DEF Counted, Under
    <3> QED BY <1>7, <3>1, <3>2
  <2> QED BY <2>2, <2>3
<1>9. CASE RewindStep
  <2>1. /\ phase = "rewind" /\ UNCHANGED cutoff
        /\ processed' = IF Head(queue) = "processed" THEN Under(processed, cutoff) ELSE processed
    BY <1>9, StatementEffects DEF RewindStep
  <2>2. Counted' = Counted
    BY <2>1 DEF Counted, Under
  <2> QED BY <1>3, <2>2
<1>10. CASE RewindDone
  <2>1. phase = "rewind" /\ queue = <<>> /\ cutoff' = None /\ UNCHANGED processed
    BY <1>10 DEF RewindDone, factVars
  <2> DEFINE n == Progress(Statements(cutoff))
  <2>2. n \in Nat /\ n >= 4 /\ (n >= 3 => Under(processed, cutoff) = processed)
    BY <1>1, <2>1, LastStatement DEF ClickInv, FactsInv
  <2> HIDE DEF n
  <2>3. Under(processed, cutoff) = processed
    BY <2>2
  <2>4. Counted' = Counted
    BY <1>6, <2>1, <2>3 DEF Counted, Under
  <2> QED BY <1>3, <2>4
<1>11. CASE CleanForRepair
  <2>1. phase = "load" /\ cutoff' = Start(pending) /\ UNCHANGED processed
    BY <1>11 DEF CleanForRepair, factVars
  <2>2. cutoff = None /\ HasPending
    BY <1>1, <2>1 DEF ClickInv, CallInv, HasPending
  <2>3. Counted' = processed
    <3>1. pending # {} /\ pending \subseteq Blocks
      BY <1>1, <2>2, DuringACall
    <3>2. Start(pending) \in Heights(pending)
      BY <3>1, HeightBounds DEF Start
    <3>3. PICK c \in pending : Start(pending) = Height[c]
      BY <3>2 DEF Heights
    <3>4. \A b \in processed : Height[b] < Height[c]
      BY <1>1, <2>2, DuringACall
    <3> QED BY <2>1, <3>3, <3>4 DEF Counted
  <2> QED BY <1>3, <1>5, <2>2, <2>3
<1>12. CASE CleanStep
  <2>1. UNCHANGED <<processed, cutoff>>
    BY <1>1, <1>12, CleaningKeepsBlocks DEF CleanStep
  <2> QED BY <1>3, <1>4, <2>1
<1>13. CASE Repair
  <2>1. phase = "clean" /\ cutoff' = None /\ UNCHANGED processed
    BY <1>13 DEF Repair, factVars
  <2>2. cutoff = Start(pending) /\ HasPending
    BY <1>1, <2>1 DEF ClickInv, CallInv, HasPending
  <2>3. Counted = processed
    <3>1. pending # {} /\ pending \subseteq Blocks
      BY <1>1, <2>2, DuringACall
    <3>2. Start(pending) \in Heights(pending)
      BY <3>1, HeightBounds DEF Start
    <3>3. PICK c \in pending : Start(pending) = Height[c]
      BY <3>2 DEF Heights
    <3>4. \A b \in processed : Height[b] < Height[c]
      BY <1>1, <2>2, DuringACall
    <3> QED BY <2>2, <3>3, <3>4 DEF Counted
  <2> QED BY <1>3, <1>6, <2>1, <2>3
<1>14. CASE InsertProcessedBlocks
  <2>1. phase = "processed" /\ processed' = processed \cup pending /\ UNCHANGED cutoff
    BY <1>14 DEF InsertProcessedBlocks
  <2>2. cutoff = None /\ HasPending
    BY <1>1, <2>1 DEF ClickInv, CallInv, HasPending
  <2>3. /\ pending # {} /\ pending \subseteq Blocks
        /\ \A b \in processed, c \in pending : Height[b] < Height[c]
    BY <1>1, <2>2, DuringACall
  <2>4. Counted = processed /\ Counted' = Counted \cup pending
    <3>1. Counted = processed
      BY <1>5, <2>2
    <3>2. \A b \in processed \cup pending : Height[b] < None
      BY <1>2, <2>3, NoneIsAbove
    <3>3. Counted' = processed \cup pending
      BY <2>1, <2>2, <3>2 DEF Counted
    <3> QED BY <3>1, <3>3
  <2>5. Cardinality(pending) <= WindowSize
    BY <1>1 DEF WindowInv
  <2>6. \E w \in Windows : Memory!Apply(w)
    BY <1>1, <2>3, <2>4, <2>5, ApplyIsSeen
  <2>7. Memory!Windows = Windows
    <3>1. \A b : Memory!Creates(b) = Creates(b) /\ Memory!Spends(b) = Spends(b)
      BY DEF Memory!Creates, Creates, Memory!Spends, Spends
    <3>2. \A w \in SUBSET Blocks : Memory!WellFormed(w) <=> WellFormed(w)
      BY <3>1 DEF Memory!WellFormed, WellFormed
    <3>3. \A w : Memory!Cardinality(w) = Cardinality(w)
      BY DEF Memory!Cardinality, Cardinality
    <3> QED BY <3>2, <3>3 DEF Memory!Windows, Windows
  <2> QED BY <2>6, <2>7 DEF Memory!MemoryNext
<1>15. CASE CallFails
  <2>1. phase # "idle" /\ cutoff' = asked /\ UNCHANGED processed
    BY <1>15 DEF CallFails, factVars
  <2>2. CASE phase = "materialize"
    <3>1. asked = None /\ cutoff = None
      BY <1>1, <2>2 DEF ClickInv, CallInv
    <3> QED BY <1>3, <1>4, <2>1, <3>1
  <2>3. CASE phase # "materialize"
    <3>1. asked < None /\ asked \in Nat
      BY <1>1, <2>1, <2>3, Typed DEF ClickInv, CallInv
    <3>2. asked \in Heights(Blocks)
      BY <1>1, <1>2, <3>1 DEF WindowInv
    <3>3. Counted' = Under(Counted, asked)
      <4>1. asked <= cutoff \/ Counted = processed
        <5>1. CASE phase = "rewind"
          BY <1>1, <5>1 DEF ClickInv, CallInv
        <5>2. CASE phase = "clean"
          <6>1. cutoff = Start(pending) /\ HasPending
            BY <1>1, <5>2 DEF ClickInv, CallInv, HasPending
          <6>2. pending # {} /\ pending \subseteq Blocks /\ \A b \in pending : asked <= Height[b]
            BY <1>1, <6>1, DuringACall
          <6>3. Start(pending) \in Heights(pending)
            BY <6>2, HeightBounds DEF Start
          <6>4. PICK c \in pending : Start(pending) = Height[c]
            BY <6>3 DEF Heights
          <6> QED BY <6>1, <6>2, <6>4
        <5>3. CASE phase \in {"load", "facts", "balances", "processed"}
          <6>1. cutoff = None
            BY <1>1, <5>3 DEF ClickInv, CallInv
          <6> QED BY <1>5, <6>1
        <5> QED BY <1>1, <2>1, <2>3, <5>1, <5>2, <5>3 DEF ClickInv, ClickTypeOK
      <4>2. Counted' = Under(processed, asked)
        BY <2>1 DEF Counted, Under
      <4>3. CASE asked <= cutoff
        <5>1. \A b \in processed : Height[b] < asked => Height[b] < cutoff
          BY <1>2, <3>1, <4>3
        <5> QED BY <4>2, <5>1 DEF Counted, Under
      <4> QED BY <4>1, <4>2, <4>3
    <3> QED BY <1>7, <3>2, <3>3
  <2> QED BY <2>2, <2>3
<1>16. CASE RecoverWindow
  <2>1. UNCHANGED <<processed, cutoff>>
    BY <1>16 DEF RecoverWindow, TakeBack, factVars
  <2> QED BY <1>3, <1>4, <2>1
<1>17. CASE \/ LoadPrevouts \/ InsertFacts \/ InsertCurrentOutputs \/ InsertBalances
            \/ BeginMaterialization \/ MaterializeStep \/ LoseRow \/ UNCHANGED clickVars
  <2>1. UNCHANGED <<processed, cutoff>>
    BY <1>17 DEF LoadPrevouts, InsertFacts, InsertCurrentOutputs, InsertBalances, BeginMaterialization,
       MaterializeStep, Materialized, LoseRow, factVars, callVars, clickVars
  <2> QED BY <1>3, <1>4, <2>1
<1> QED BY <1>8, <1>9, <1>10, <1>11, <1>12, <1>13, <1>14, <1>15, <1>16, <1>17 DEF ClickNext

\* At the start both warehouses are empty.
LEMMA StartIsSeen == ClickInit => Memory!MemoryInit
<1> SUFFICES ASSUME ClickInit PROVE Memory!MemoryInit
  OBVIOUS
<1>1. SeesInv
  BY SeenInitially, CallersSeeTheBlocks
<1>2. Counted = {}
  BY DEF ClickInit, Counted
<1>3. OutputRows({}) = {} /\ Credits({}) = {} /\ Debits({}) = {} /\ Live({}) = {}
  BY DEF OutputRows, Credits, Debits, Live, CreatedIn, SpentIn
<1>4. \A a : Holdings({}, a) = 0
  BY HoldingsOfOutputs
<1>5. SeenOutputs = {} /\ ExactMovements = {} /\ SeenBalances = [a \in Addresses |-> 0]
  BY <1>1, <1>2, <1>3, <1>4 DEF SeesInv
<1> QED BY <1>2, <1>5 DEF Memory!MemoryInit

(***************************************************************************)
(* The refinement: whatever fails between two statements, whatever is      *)
(* taken back, rebuilt, lost or repaired, the outputs, the balances and    *)
(* the processed blocks that callers see are those of a warehouse that     *)
(* applies and takes back whole windows.  It says nothing of the stored    *)
(* movements: those of the warehouse in memory are mapped to what the      *)
(* outputs imply.                                                          *)
(***************************************************************************)
THEOREM WarehouseActsAsInMemory == ClickSpec => ActsAsInMemory
<1>1. ClickInit => Memory!MemoryInit
  BY StartIsSeen
<1>2. SeenInv /\ SeenInv' /\ [ClickNext]_clickVars => [Memory!MemoryNext]_Memory!memoryVars
  BY StepIsSeen
<1> QED BY <1>1, <1>2, SeenInvariant, PTL DEF ClickSpec, ActsAsInMemory, Memory!MemorySpec
=============================================================================
