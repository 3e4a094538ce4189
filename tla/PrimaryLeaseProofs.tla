------------------------- MODULE PrimaryLeaseProofs -------------------------
(***************************************************************************)
(* The lease protocol proved for any number of instances, any heartbeat    *)
(* and any clock offsets of at most two heartbeats.                        *)
(***************************************************************************)
EXTENDS PrimaryLease, TLAPS

(***************************************************************************)
(* A statement on its way never sets the row's time back, and one that     *)
(* replaces another's lease does so because that lease is three heartbeats *)
(* old.                                                                    *)
(***************************************************************************)
Justified(request) ==
  /\ request.expected.at <= request.next.at
  /\ request.expected.owner \in Instances \ {request.next.owner} =>
       ~IsFresh(request.next.owner, request.expected)

\* The statement that instance i awaits is its own.
CallsJustified ==
  \A i \in Instances :
    call[i] # NoCall => call[i].next.owner = i /\ Justified(call[i])

OrphansJustified == \A request \in orphans : Justified(request)

\* A lease held in memory or on its way there was once in the row, and the
\* row's time only grows.
KnownLease(i, known) ==
  /\ known.at <= stored.at
  /\ stored.owner = i \/ Clock(i) - known.at >= Heartbeat

HeldLeases ==
  \A i \in Instances : lease[i] # NoLease => lease[i].owner = i /\ KnownLease(i, lease[i])

WonLeases ==
  \A i \in Instances : call[i].outcome = "won" => KnownLease(i, call[i].next)

\* Every stamp lies in the past of the instance that made it.
PastStamp(row) == row.owner \in Instances => row.at <= Clock(row.owner)

StampsInThePast ==
  /\ PastStamp(stored)
  /\ \A i \in Instances :
       PastStamp(lease[i]) /\ PastStamp(seen[i]) /\ PastStamp(call[i].next)
  /\ \A request \in orphans : PastStamp(request.next)

LeaseInv ==
  /\ TypeOK
  /\ StampsInThePast
  /\ CallsJustified
  /\ OrphansJustified
  /\ HeldLeases
  /\ WonLeases

-----------------------------------------------------------------------------
(***************************************************************************)
(* The state is always of the declared type, for every number of instances.*)
(***************************************************************************)
LEMMA TypeInit == Init => TypeOK
BY LeaseConstants DEF Init, TypeOK, Row, Lease, NoLease, NoCall, Call

(***************************************************************************)
(* Every step of an instance or of the database keeps the types.           *)
(***************************************************************************)
LEMMA TypeStep == TypeOK /\ [Next]_vars => TypeOK'
<1> SUFFICES ASSUME TypeOK, [Next]_vars PROVE TypeOK'
  OBVIOUS
<1> USE LeaseConstants DEF TypeOK, Clock
<1>1. CASE Tick
  BY <1>1 DEF Tick
<1>2. ASSUME NEW i \in Instances, Start(i) PROVE TypeOK'
  BY <1>2 DEF Start
<1>3. ASSUME NEW i \in Instances, LoopStep(i) PROVE TypeOK'
  <2>1. NewLease(i) \in Lease
    BY DEF NewLease, Lease
  <2>2. CASE SkipRoundTrip(i)
    BY <2>2 DEF SkipRoundTrip, StartWork
  <2>3. CASE ReadLease(i)
    BY <2>3 DEF ReadLease
  <2>4. CASE StandBy(i)
    BY <2>4 DEF StandBy, Row
  <2>5. CASE Claim(i) \/ RenewOwn(i)
    BY <2>1, <2>5 DEF Claim, RenewOwn, Send, Call
  <2>6. CASE LeaseWon(i)
    BY <2>6 DEF LeaseWon, Adopt, StartWork, Call, NoCall, Row
  <2>7. CASE LeaseLost(i)
    BY <2>7 DEF LeaseLost, Adopt, Call, NoCall, Row
  <2>8. CASE WorkEnds(i)
    BY <2>8 DEF WorkEnds
  <2> QED
    BY <1>3, <2>2, <2>3, <2>4, <2>5, <2>6, <2>7, <2>8 DEF LoopStep
<1>4. ASSUME NEW i \in Instances, HeartbeatStep(i) PROVE TypeOK'
  <2>1. NewLease(i) \in Lease
    BY DEF NewLease, Lease
  <2>2. CASE HeartbeatFires(i)
    BY <2>1, <2>2 DEF HeartbeatFires, Send, Call
  <2>3. CASE HeartbeatAnswered(i)
    BY <2>3 DEF HeartbeatAnswered, Adopt, Call, NoCall, Row
  <2> QED
    BY <1>4, <2>2, <2>3 DEF HeartbeatStep
<1>5. ASSUME NEW i \in Instances, ExecuteCall(i) PROVE TypeOK'
  BY <1>5 DEF ExecuteCall, Swap, Call, NoCall, Row
<1>6. ASSUME NEW i \in Instances, FaultStep(i) PROVE TypeOK'
  <2>1. Abandon(i) => orphans' \subseteq Request /\ call' \in [Instances -> Call \cup {NoCall}]
                      /\ faults' \in Nat
    BY DEF Abandon, Request, Call, NoCall
  <2> QED
    BY <1>6, <2>1 DEF FaultStep, ClaimFails, RenewFails, Die, Row
<1>7. ASSUME NEW request \in orphans, ExecuteOrphan(request) PROVE TypeOK'
  BY <1>7 DEF ExecuteOrphan, Swap, Request, Row
<1>8. CASE UNCHANGED vars
  BY <1>8 DEF vars
<1> QED
  BY <1>1, <1>2, <1>3, <1>4, <1>5, <1>6, <1>7, <1>8 DEF Next

(***************************************************************************)
(* The row, the leases in memory, the statements under way and the clock   *)
(* keep their types in every behaviour, for every number of instances.     *)
(***************************************************************************)
THEOREM TypeCorrect == Spec => []TypeOK
BY TypeInit, TypeStep, PTL DEF Spec

-----------------------------------------------------------------------------
(***************************************************************************)
(* A statement that runs in the database keeps what every instance knows:  *)
(* it leaves the row alone, or moves its time forward and, if it replaces  *)
(* the owner, does so when that owner's lease is no longer fresh.          *)
(***************************************************************************)
LEMMA SwapKeepsKnown ==
  ASSUME TypeOK, NEW request \in Request, Justified(request), Swap(request),
         now' = now, NEW i \in Instances, NEW known \in Lease, KnownLease(i, known)
  PROVE  KnownLease(i, known)'
<1> USE LeaseConstants DEF TypeOK, Request, Row, Lease, NoLease, KnownLease, Clock
<1>1. CASE stored # request.expected
  BY <1>1 DEF Swap
<1>2. CASE stored = request.expected
  <2> DEFINE j == request.next.owner
  <2>1. stored' = request.next /\ j \in Instances
    BY <1>2 DEF Swap
  <2>2. (known.at <= stored.at)'
    BY <1>2, <2>1 DEF Justified
  <2>3. CASE j = i
    BY <2>1, <2>2, <2>3
  <2>4. CASE j # i /\ stored.owner # i
    BY <2>1, <2>2, <2>4
  <2>5. CASE j # i /\ stored.owner = i
    <3>1. Clock(j) - stored.at > 3 * Heartbeat
      BY <1>2, <2>1, <2>5 DEF Justified, IsFresh
    <3>2. Skew[j] - Skew[i] <= 2 * Heartbeat
      BY <2>1, BoundedSkew
    <3> QED
      BY <2>1, <2>2, <3>1, <3>2
  <2> QED
    BY <2>3, <2>4, <2>5
<1> QED
  BY <1>1, <1>2

(***************************************************************************)
(* Nothing is forgotten while time passes and the row stays as it is.      *)
(***************************************************************************)
LEMMA WaitKeepsKnown ==
  ASSUME TypeOK, stored' = stored, now' \in Nat, now' >= now,
         NEW i \in Instances, NEW known \in Lease, KnownLease(i, known)
  PROVE  KnownLease(i, known)'
BY LeaseConstants DEF TypeOK, Row, Lease, NoLease, KnownLease, Clock

(***************************************************************************)
(* A request that replaces a lease its sender found stale is still         *)
(* justified later: that lease only gets older.                            *)
(***************************************************************************)
LEMMA WaitKeepsJustified ==
  ASSUME TypeOK, now' \in Nat, now' >= now,
         NEW request \in Request, Justified(request)
  PROVE  Justified(request)'
BY LeaseConstants DEF TypeOK, Request, Row, Lease, NoLease, Justified, IsFresh, Clock

(***************************************************************************)
(* The invariant holds before any instance has started.                    *)
(***************************************************************************)
LEMMA InvInit == Init => LeaseInv
<1> SUFFICES ASSUME Init PROVE LeaseInv
  OBVIOUS
<1>1. TypeOK
  BY TypeInit
<1>2. StampsInThePast
  BY LeaseConstants DEF Init, StampsInThePast, PastStamp, NoLease, NoCall
<1>3. CallsJustified /\ OrphansJustified /\ HeldLeases /\ WonLeases
  BY DEF Init, CallsJustified, OrphansJustified, HeldLeases, WonLeases, NoCall
<1> QED
  BY <1>1, <1>2, <1>3 DEF LeaseInv

(***************************************************************************)
(* A step in which time stands still and the row stays as it is keeps the  *)
(* invariant if what it puts into the memory of instance i is known, past  *)
(* and justified already.                                                  *)
(***************************************************************************)
LEMMA LocalStep ==
  ASSUME LeaseInv, TypeOK', UNCHANGED <<now, stored>>, NEW i \in Instances,
         \A k \in Instances \ {i} :
           lease'[k] = lease[k] /\ seen'[k] = seen[k] /\ call'[k] = call[k],
         lease'[i] \in {lease[i], NoLease}
           \/ (call[i].outcome = "won" /\ lease'[i] = call[i].next),
         seen'[i] \in {seen[i], stored},
         call'[i] \in {call[i], NoCall}
           \/ (/\ call'[i].outcome = "sent"
               /\ call'[i].next.owner = i
               /\ PastStamp(call'[i].next)
               /\ Justified(call'[i])),
         \A request \in orphans' :
           request \in orphans \/ (/\ call[i] # NoCall
                                   /\ request.expected = call[i].expected
                                   /\ request.next = call[i].next)
  PROVE  LeaseInv'
<1> USE LeaseConstants DEF LeaseInv, TypeOK
<1>1. \A k \in Instances, known \in Row : KnownLease(k, known) => KnownLease(k, known)'
  BY DEF KnownLease, Clock
<1>2. \A row : PastStamp(row) => PastStamp(row)'
  BY DEF PastStamp, Clock
<1>3. \A request : Justified(request) => Justified(request)'
  BY DEF Justified, IsFresh, Clock
<1>4. PastStamp(NoLease)' /\ PastStamp(NoCall.next)'
  BY DEF PastStamp, NoLease, NoCall
<1>5. StampsInThePast'
  <2>1. PastStamp(stored)'
    BY <1>2 DEF StampsInThePast
  <2>2. ASSUME NEW k \in Instances
        PROVE  (PastStamp(lease[k]) /\ PastStamp(seen[k]) /\ PastStamp(call[k].next))'
    BY <1>2, <1>4 DEF StampsInThePast, PastStamp, Clock
  <2>3. ASSUME NEW request \in orphans' PROVE PastStamp(request.next)'
    BY <1>2 DEF StampsInThePast
  <2> QED
    BY <2>1, <2>2, <2>3 DEF StampsInThePast
<1>6. CallsJustified'
  BY <1>3 DEF CallsJustified, Justified, IsFresh, Clock
<1>7. OrphansJustified'
  <2> SUFFICES ASSUME NEW request \in orphans' PROVE Justified(request)'
    BY DEF OrphansJustified
  <2>1. CASE request \in orphans
    BY <1>3, <2>1 DEF OrphansJustified
  <2>2. CASE request \notin orphans
    BY <1>3, <2>2 DEF CallsJustified, Justified, IsFresh, Clock
  <2> QED
    BY <2>1, <2>2
<1>8. HeldLeases'
  <2> SUFFICES ASSUME NEW k \in Instances, lease'[k] # NoLease
               PROVE  (lease[k].owner = k /\ KnownLease(k, lease[k]))'
    BY DEF HeldLeases
  <2>1. CASE lease'[k] = lease[k]
    BY <2>1 DEF HeldLeases, KnownLease, Clock
  <2>2. CASE k = i /\ call[i].outcome = "won" /\ lease'[i] = call[i].next
    BY <2>2 DEF WonLeases, CallsJustified, NoCall, KnownLease, Clock
  <2> QED
    BY <2>1, <2>2
<1>9. WonLeases'
  BY DEF WonLeases, NoCall, KnownLease, Clock
<1> QED
  BY <1>5, <1>6, <1>7, <1>8, <1>9

(***************************************************************************)
(* A step in which the database runs a statement that is justified.        *)
(***************************************************************************)
LEMMA StatementStep ==
  ASSUME LeaseInv, TypeOK', UNCHANGED <<now, lease, seen>>,
         NEW request \in Request, Justified(request), PastStamp(request.next),
         Swap(request), orphans' \subseteq orphans,
         \A k \in Instances :
           \/ call'[k] = call[k]
           \/ /\ call[k] # NoCall
              /\ call'[k].expected = call[k].expected
              /\ call'[k].next = call[k].next
              /\ call'[k].outcome = "won" => stored' = call[k].next
  PROVE  LeaseInv'
<1> USE LeaseConstants DEF LeaseInv, TypeOK
<1>1. ASSUME NEW k \in Instances, NEW known \in Lease, KnownLease(k, known)
      PROVE  KnownLease(k, known)'
  BY <1>1, SwapKeepsKnown
<1>2. StampsInThePast'
  BY DEF StampsInThePast, PastStamp, Clock, Swap
<1>3. CallsJustified'
  BY DEF CallsJustified, Justified, IsFresh, Clock
<1>4. OrphansJustified'
  BY DEF OrphansJustified, Justified, IsFresh, Clock
<1>5. HeldLeases'
  BY <1>1 DEF HeldLeases, Row
<1>6. WonLeases'
  <2> SUFFICES ASSUME NEW k \in Instances, call'[k].outcome = "won"
               PROVE  KnownLease(k, call[k].next)'
    BY DEF WonLeases
  <2>1. call'[k] # NoCall /\ call[k] # NoCall
    BY DEF NoCall
  <2>2. call[k].next \in Lease /\ call[k].next.owner = k
    BY <2>1 DEF Call, CallsJustified
  <2>3. CASE call'[k] = call[k]
    <3>1. KnownLease(k, call[k].next)
      BY <2>3 DEF WonLeases
    <3> QED
      BY <1>1, <2>2, <2>3, <3>1
  <2>4. CASE call'[k] # call[k]
    BY <2>2, <2>4 DEF KnownLease, Lease
  <2> QED
    BY <2>3, <2>4
<1> QED
  BY <1>2, <1>3, <1>4, <1>5, <1>6

(***************************************************************************)
(* Every step keeps the invariant.                                         *)
(***************************************************************************)
LEMMA InvStep == LeaseInv /\ [Next]_vars => LeaseInv'
<1> SUFFICES ASSUME LeaseInv, [Next]_vars PROVE LeaseInv'
  OBVIOUS
<1>1. TypeOK /\ TypeOK'
  BY TypeStep DEF LeaseInv
<1>2. CASE Tick
  <2>1. now' \in Nat /\ now' >= now
    BY <1>1, <1>2 DEF Tick, TypeOK
  <2>2. StampsInThePast'
    BY <1>1, <1>2, <2>1, LeaseConstants
      DEF Tick, LeaseInv, StampsInThePast, PastStamp, Clock, TypeOK, Row, Lease, NoLease,
          Call, NoCall, Request
  <2>3. CallsJustified'
    BY <1>1, <1>2, <2>1, LeaseConstants
      DEF Tick, LeaseInv, CallsJustified, Justified, IsFresh, Clock, TypeOK, Row, Lease,
          NoLease, Call, NoCall
  <2>4. OrphansJustified'
    <3> SUFFICES ASSUME NEW request \in orphans PROVE Justified(request)'
      BY <1>2 DEF Tick, OrphansJustified
    <3> QED
      BY <1>1, <2>1, WaitKeepsJustified DEF LeaseInv, OrphansJustified, TypeOK
  <2>5. HeldLeases'
    <3> SUFFICES ASSUME NEW i \in Instances, lease[i] # NoLease
                 PROVE  lease[i].owner = i /\ KnownLease(i, lease[i])'
      BY <1>2 DEF Tick, HeldLeases, KnownLease, Clock
    <3>1. lease[i] \in Lease /\ lease[i].owner = i /\ KnownLease(i, lease[i])
      BY <1>1 DEF LeaseInv, HeldLeases, TypeOK, Row
    <3>2. KnownLease(i, lease[i])'
      BY <1>1, <1>2, <2>1, <3>1, WaitKeepsKnown DEF Tick
    <3> QED
      BY <3>1, <3>2
  <2>6. WonLeases'
    BY <1>1, <1>2, <2>1, LeaseConstants
      DEF Tick, LeaseInv, WonLeases, KnownLease, Clock, TypeOK, Row, Lease, NoLease,
          Call, NoCall
  <2> QED
    BY <1>1, <2>2, <2>3, <2>4, <2>5, <2>6 DEF LeaseInv
<1>3. ASSUME NEW i \in Instances, Start(i) PROVE LeaseInv'
  BY <1>1, <1>3, LocalStep DEF Start
<1>4. ASSUME NEW i \in Instances, LoopStep(i) PROVE LeaseInv'
  <2>1. CASE SkipRoundTrip(i) \/ WorkEnds(i)
    BY <1>1, <2>1, LocalStep DEF SkipRoundTrip, WorkEnds
  <2>2. CASE ReadLease(i)
    BY <1>1, <2>2, LocalStep DEF ReadLease, TypeOK
  <2>3. CASE StandBy(i)
    BY <1>1, <2>3, LocalStep DEF StandBy, TypeOK
  <2>4. CASE Claim(i)
    <3>1. PastStamp(NewLease(i))
      BY LeaseConstants, <1>1 DEF PastStamp, NewLease, Clock, TypeOK
    <3>2. Justified([expected |-> seen[i], next |-> NewLease(i), outcome |-> "sent"])
      BY LeaseConstants, <1>1, <2>4
        DEF Claim, Justified, NewLease, IsFresh, Clock, TypeOK, Row, Lease, NoLease
    <3> QED
      BY <1>1, <2>4, <3>1, <3>2, LocalStep DEF Claim, Send, TypeOK, NewLease
  <2>5. CASE RenewOwn(i)
    <3>1. PastStamp(NewLease(i))
      BY LeaseConstants, <1>1 DEF PastStamp, NewLease, Clock, TypeOK
    <3>2. Justified([expected |-> seen[i], next |-> NewLease(i), outcome |-> "sent"])
      BY LeaseConstants, <1>1, <2>5
        DEF RenewOwn, Justified, NewLease, LeaseInv, StampsInThePast, PastStamp
    <3> QED
      BY <1>1, <2>5, <3>1, <3>2, LocalStep DEF RenewOwn, Send, TypeOK, NewLease
  <2>6. CASE LeaseWon(i) \/ LeaseLost(i)
    BY <1>1, <2>6, LocalStep DEF LeaseWon, LeaseLost, Adopt, TypeOK
  <2> QED
    BY <1>4, <2>1, <2>2, <2>3, <2>4, <2>5, <2>6 DEF LoopStep
<1>5. ASSUME NEW i \in Instances, HeartbeatStep(i) PROVE LeaseInv'
  <2>1. CASE HeartbeatFires(i)
    <3>1. PastStamp(NewLease(i))
      BY LeaseConstants, <1>1 DEF PastStamp, NewLease, Clock, TypeOK
    <3>2. lease[i].owner = i
      BY <2>1 DEF HeartbeatFires, LeaseInv, HeldLeases
    <3>3. Justified([expected |-> lease[i], next |-> NewLease(i), outcome |-> "sent"])
      BY LeaseConstants, <1>1, <3>2
        DEF Justified, NewLease, LeaseInv, StampsInThePast, PastStamp
    <3> QED
      BY <1>1, <2>1, <3>1, <3>3, LocalStep DEF HeartbeatFires, Send, TypeOK, NewLease
  <2>2. CASE HeartbeatAnswered(i)
    BY <1>1, <2>2, LocalStep DEF HeartbeatAnswered, Adopt, TypeOK
  <2> QED
    BY <1>5, <2>1, <2>2 DEF HeartbeatStep
<1>6. ASSUME NEW i \in Instances, ExecuteCall(i) PROVE LeaseInv'
  <2> DEFINE request == [expected |-> call[i].expected, next |-> call[i].next]
  <2>1. call[i] # NoCall /\ call[i] \in Call
    BY <1>1, <1>6 DEF ExecuteCall, NoCall, TypeOK
  <2>2. request \in Request /\ Justified(request) /\ PastStamp(request.next)
    BY <1>6, <2>1
      DEF LeaseInv, CallsJustified, StampsInThePast, Call, Request, Justified
  <2>3. Swap(request)
    BY <1>6 DEF ExecuteCall, Swap
  <2>4. \A k \in Instances :
          \/ call'[k] = call[k]
          \/ /\ call[k] # NoCall
             /\ call'[k].expected = call[k].expected
             /\ call'[k].next = call[k].next
             /\ call'[k].outcome = "won" => stored' = call[k].next
    BY <1>1, <1>6, <2>1 DEF ExecuteCall, Swap, TypeOK, Call
  <2> QED
    BY <1>1, <1>6, <2>2, <2>3, <2>4, StatementStep DEF ExecuteCall
<1>7. ASSUME NEW i \in Instances, FaultStep(i) PROVE LeaseInv'
  <2>1. ASSUME Abandon(i) PROVE \A request \in orphans' :
          request \in orphans \/ (/\ call[i] # NoCall
                                  /\ request.expected = call[i].expected
                                  /\ request.next = call[i].next)
    BY <2>1 DEF Abandon, NoCall
  <2>2. CASE ClaimFails(i)
    BY <1>1, <2>1, <2>2, LocalStep DEF ClaimFails, Abandon, TypeOK
  <2>3. CASE RenewFails(i)
    BY <1>1, <2>1, <2>3, LocalStep DEF RenewFails, Abandon, TypeOK
  <2>4. CASE Die(i)
    BY <1>1, <2>1, <2>4, LocalStep DEF Die, Abandon, TypeOK
  <2> QED
    BY <1>7, <2>2, <2>3, <2>4 DEF FaultStep
<1>8. ASSUME NEW request \in orphans, ExecuteOrphan(request) PROVE LeaseInv'
  <2>1. request \in Request /\ Justified(request) /\ PastStamp(request.next)
    BY <1>1 DEF LeaseInv, TypeOK, OrphansJustified, StampsInThePast
  <2> QED
    BY <1>1, <1>8, <2>1, StatementStep DEF ExecuteOrphan
<1>9. CASE UNCHANGED vars
  BY <1>9 DEF vars, LeaseInv, TypeOK, StampsInThePast, PastStamp, CallsJustified,
              OrphansJustified, Justified, IsFresh, HeldLeases, WonLeases, KnownLease, Clock
<1> QED
  BY <1>2, <1>3, <1>4, <1>5, <1>6, <1>7, <1>8, <1>9 DEF Next

(***************************************************************************)
(* A fresh lease in memory is still in the row: what leaseLeadership       *)
(* relies on when it skips the round trip.                                 *)
(***************************************************************************)
LEMMA InvImpliesFresh == LeaseInv => FreshLeaseIsCurrent
BY LeaseConstants
  DEF LeaseInv, TypeOK, HeldLeases, FreshLeaseIsCurrent, HasFreshLease, KnownLease,
      Clock, Row, Lease, NoLease

(***************************************************************************)
(* hasFreshPrimaryLease never answers for a lease that has been replaced:  *)
(* skipping the round trip in leaseLeadership is sound for every number of *)
(* instances, any delay of answers and statements, and clocks up to two    *)
(* heartbeats apart.                                                       *)
(***************************************************************************)
THEOREM FreshLease == Spec => []FreshLeaseIsCurrent
BY InvInit, InvStep, InvImpliesFresh, PTL DEF Spec

(***************************************************************************)
(* The row passes from one instance to another only when the replaced      *)
(* lease has missed three heartbeats: no orphaned statement and no answer, *)
(* however late, takes the lease from an owner that renews it.             *)
(***************************************************************************)
LEMMA StepTakesOnlyStale ==
  ASSUME LeaseInv, [Next]_vars, NEW i \in Instances, NEW j \in Instances,
         i # j, stored.owner = i, stored'.owner = j
  PROVE  ~IsFresh(j, stored)
<1>1. ASSUME NEW request, Justified(request), Swap(request)
      PROVE  ~IsFresh(j, stored)
  BY <1>1 DEF Swap, Justified
<1>2. PICK request : Justified(request) /\ Swap(request)
  <2>1. stored' # stored
    OBVIOUS
  <2>2. CASE \E k \in Instances : ExecuteCall(k)
    BY <2>2 DEF ExecuteCall, LeaseInv, CallsJustified, NoCall
  <2>3. CASE \E request \in orphans : ExecuteOrphan(request)
    BY <2>3 DEF ExecuteOrphan, LeaseInv, OrphansJustified
  <2> QED
    BY <2>1, <2>2, <2>3
      DEF Next, vars, Tick, Start, LoopStep, SkipRoundTrip, ReadLease, StandBy, Claim,
          RenewOwn, LeaseWon, LeaseLost, WorkEnds, HeartbeatStep, HeartbeatFires,
          HeartbeatAnswered, FaultStep, ClaimFails, RenewFails, Die
<1> QED
  BY <1>1, <1>2

(***************************************************************************)
(* compareAndSwapJsonValue hands the row to another instance only if the   *)
(* lease it replaces is stale on that instance's clock.                    *)
(***************************************************************************)
THEOREM OnlyStaleLeasesAreTaken == Spec => TakeoverIsOfAStaleLease
<1>1. LeaseInv /\ [Next]_vars =>
        [\A i, j \in Instances :
           i # j /\ stored.owner = i /\ stored'.owner = j => ~IsFresh(j, stored)]_vars
  BY StepTakesOnlyStale
<1> QED
  BY <1>1, InvInit, InvStep, PTL DEF Spec, TakeoverIsOfAStaleLease
=============================================================================
