---------------------------- MODULE PrimaryLease ----------------------------
(***************************************************************************)
(* Leader election of the indexer: a lease in the metadata row 'primary'  *)
(* that CoreDogecoinIndexerService claims, renews and replaces with       *)
(* compare-and-swap statements.                                           *)
(*                                                                         *)
(* An instance is one process: its id is a fresh UUID, so a process that  *)
(* is restarted is another instance.  Every step of a process is one       *)
(* stretch of code between two awaits; the statement it awaits runs in     *)
(* the database by a step of its own, and an awaited call may fail while   *)
(* its statement is still travelling: the statement is then an orphan that *)
(* may run at any later moment.                                            *)
(***************************************************************************)
EXTENDS Integers

CONSTANTS
  Instances,    \* the indexer processes that ever run
  Nobody,       \* owner field of the absent row
  Heartbeat,    \* settings.leaseHeartbeatIntervalMs, in clock units
  Skew,         \* offset of each instance's wall clock
  Horizon,      \* bound: the clock stops here
  FaultsUntil,  \* bound: no call fails and no process dies after this moment
  MaxFaults     \* bound: number of failed calls and deaths

ASSUME LeaseConstants ==
  /\ Nobody \notin Instances
  /\ Heartbeat \in Nat \ {0}
  /\ Horizon \in Nat
  /\ FaultsUntil \in Nat
  /\ MaxFaults \in Nat
  /\ Skew \in [Instances -> Nat]

\* The clocks of two instances differ by no more than two heartbeats.
ASSUME BoundedSkew ==
  \A i, j \in Instances : Skew[i] - Skew[j] <= 2 * Heartbeat

VARIABLES
  now,     \* real time
  stored,  \* the row app_config['primary'], NoLease when it is absent
  lease,   \* lease[i]: this.primaryLease of instance i
  pc,      \* pc[i]: where the loop of instance i is
  seen,    \* seen[i]: the row its last read returned
  call,    \* call[i]: the compare-and-swap instance i awaits
  timer,   \* timer[i]: local time the heartbeat timer is due, -1 if unset
  orphans, \* statements whose caller has given up
  faults   \* failed calls and deaths so far

vars == <<now, stored, lease, pc, seen, call, timer, orphans, faults>>

NoLease  == [owner |-> Nobody, at |-> -1]
Lease    == [owner : Instances, at : Nat]
Row      == Lease \cup {NoLease}

Request  == [expected : Row, next : Lease]
NoCall   == [expected |-> NoLease, next |-> NoLease, outcome |-> "none"]
Call     == [expected : Row, next : Lease, outcome : {"sent", "won", "lost"}]

\* Date.now() of instance i.
Clock(i) == now + Skew[i]

\* createLease
NewLease(i) == [owner |-> i, at |-> Clock(i)]

\* Variant: the age of the lease is not looked at.
HasLease(i) == lease[i] # NoLease

\* hasFreshPrimaryLease
HasFreshLease(i) ==
  /\ lease[i] # NoLease
  /\ Clock(i) - lease[i].at < Heartbeat

\* Variant: a lease never becomes stale.
NeverStale(i, row) == TRUE

\* isFreshPrimaryLease, asked by instance i
IsFresh(i, row) == Clock(i) - row.at <= 3 * Heartbeat

Up(i) == pc[i] \notin {"off", "dead"}

Init ==
  /\ now = 0
  /\ stored = NoLease
  /\ lease = [i \in Instances |-> NoLease]
  /\ pc = [i \in Instances |-> "off"]
  /\ seen = [i \in Instances |-> NoLease]
  /\ call = [i \in Instances |-> NoCall]
  /\ timer = [i \in Instances |-> -1]
  /\ orphans = {}
  /\ faults = 0

-----------------------------------------------------------------------------
(* The loop: leaseLeadership                                               *)

\* start()
Start(i) ==
  /\ pc[i] = "off"
  /\ pc' = [pc EXCEPT ![i] = "loop"]
  /\ UNCHANGED <<now, stored, lease, seen, call, timer, orphans, faults>>

\* Entering runWithPrimaryLeaseHeartbeat: the timer is set, the work begins.
StartWork(i) ==
  /\ pc' = [pc EXCEPT ![i] = "work"]
  /\ timer' = [timer EXCEPT ![i] = Clock(i) + Heartbeat]

\* A lease renewed less than a heartbeat ago needs no round trip.
SkipRoundTrip(i) ==
  /\ pc[i] = "loop"
  /\ HasFreshLease(i)
  /\ StartWork(i)
  /\ UNCHANGED <<now, stored, lease, seen, call, orphans, faults>>

\* getJsonValue(configKeyPrimary()).  A read that fails is retried by the
\* loop and changes nothing.
ReadLease(i) ==
  /\ pc[i] = "loop"
  /\ ~HasFreshLease(i)
  /\ seen' = [seen EXCEPT ![i] = stored]
  /\ pc' = [pc EXCEPT ![i] = "read"]
  /\ UNCHANGED <<now, stored, lease, call, timer, orphans, faults>>

\* Sends compareAndSwapJsonValue(expected, createLease(instanceId)).
Send(i, expected) ==
  call' = [call EXCEPT ![i] =
             [expected |-> expected, next |-> NewLease(i), outcome |-> "sent"]]

\* The competitor's lease is fresh: leaseCompetingPrimary returns false.
StandBy(i) ==
  /\ pc[i] = "read"
  /\ seen[i] # NoLease
  /\ seen[i].owner # i
  /\ IsFresh(i, seen[i])
  /\ lease' = [lease EXCEPT ![i] = NoLease]
  /\ pc' = [pc EXCEPT ![i] = "loop"]
  /\ UNCHANGED <<now, stored, seen, call, timer, orphans, faults>>

\* No lease, or a competitor's that is three heartbeats old: claimPrimaryLease.
Claim(i) ==
  /\ pc[i] = "read"
  /\ \/ seen[i] = NoLease
     \/ seen[i].owner # i /\ ~IsFresh(i, seen[i])
  /\ Send(i, seen[i])
  /\ pc' = [pc EXCEPT ![i] = "claim"]
  /\ UNCHANGED <<now, stored, lease, seen, timer, orphans, faults>>

\* The row is this instance's own: renewPrimaryLease of the lease just read.
RenewOwn(i) ==
  /\ pc[i] = "read"
  /\ seen[i].owner = i
  /\ Send(i, seen[i])
  /\ pc' = [pc EXCEPT ![i] = "renew"]
  /\ UNCHANGED <<now, stored, lease, seen, timer, orphans, faults>>

\* What both claimPrimaryLease and renewPrimaryLease do with the answer.
Adopt(i) ==
  /\ call[i].outcome \in {"won", "lost"}
  /\ lease' = [lease EXCEPT ![i] =
                 IF call[i].outcome = "won" THEN call[i].next ELSE NoLease]
  /\ call' = [call EXCEPT ![i] = NoCall]

LeaseWon(i) ==
  /\ pc[i] \in {"claim", "renew"}
  /\ call[i].outcome = "won"
  /\ Adopt(i)
  /\ StartWork(i)
  /\ UNCHANGED <<now, stored, seen, orphans, faults>>

LeaseLost(i) ==
  /\ pc[i] \in {"claim", "renew"}
  /\ call[i].outcome = "lost"
  /\ Adopt(i)
  /\ pc' = [pc EXCEPT ![i] = "loop"]
  /\ UNCHANGED <<now, stored, seen, timer, orphans, faults>>

-----------------------------------------------------------------------------
(* The heartbeat: runWithPrimaryLeaseHeartbeat                             *)

HeartbeatFires(i) ==
  /\ pc[i] = "work"
  /\ timer[i] # -1
  /\ Clock(i) >= timer[i]
  /\ lease[i] # NoLease
  /\ Send(i, lease[i])
  /\ timer' = [timer EXCEPT ![i] = -1]
  /\ UNCHANGED <<now, stored, lease, pc, seen, orphans, faults>>

\* The renewal is answered; the next one is scheduled unless it was lost or
\* the work has stopped, and a work that waits for it is over.
HeartbeatAnswered(i) ==
  /\ pc[i] \in {"work", "drain"}
  /\ Adopt(i)
  /\ timer' = [timer EXCEPT ![i] =
                 IF call[i].outcome = "won" /\ pc[i] = "work"
                   THEN Clock(i) + Heartbeat ELSE -1]
  /\ pc' = [pc EXCEPT ![i] = IF @ = "drain" THEN "loop" ELSE @]
  /\ UNCHANGED <<now, stored, seen, orphans, faults>>

\* The work returns or throws; a renewal under way is awaited.
WorkEnds(i) ==
  /\ pc[i] = "work"
  /\ pc' = [pc EXCEPT ![i] = IF call[i] = NoCall THEN "loop" ELSE "drain"]
  /\ timer' = [timer EXCEPT ![i] = -1]
  /\ UNCHANGED <<now, stored, lease, seen, call, orphans, faults>>

-----------------------------------------------------------------------------
(* The metadata store: compareAndSwapJsonValue                             *)

\* Variant: the expected value is not compared.
BlindSwap(request) == stored' = request.next

Swap(request) ==
  stored' = IF stored = request.expected THEN request.next ELSE stored

ExecuteCall(i) ==
  /\ call[i].outcome = "sent"
  /\ Swap(call[i])
  /\ call' = [call EXCEPT ![i].outcome =
                IF stored = call[i].expected THEN "won" ELSE "lost"]
  /\ UNCHANGED <<now, lease, pc, seen, timer, orphans, faults>>

ExecuteOrphan(request) ==
  /\ request \in orphans
  /\ Swap(request)
  /\ orphans' = orphans \ {request}
  /\ UNCHANGED <<now, lease, pc, seen, call, timer, faults>>

-----------------------------------------------------------------------------
(* Faults                                                                  *)

CanFault ==
  /\ faults < MaxFaults
  /\ now <= FaultsUntil

\* Variant: whatever the call slot holds is left travelling.
AbandonSlot(i) ==
  /\ orphans' = orphans \cup {[expected |-> call[i].expected, next |-> call[i].next]}
  /\ call' = [call EXCEPT ![i] = NoCall]
  /\ faults' = faults + 1

\* Instance i no longer waits for its call; the statement may still run.
Abandon(i) ==
  /\ orphans' =
       IF call[i].outcome = "sent"
         THEN orphans \cup {[expected |-> call[i].expected, next |-> call[i].next]}
         ELSE orphans
  /\ call' = [call EXCEPT ![i] = NoCall]
  /\ faults' = faults + 1

\* The claim throws: this.primaryLease keeps its value.
ClaimFails(i) ==
  /\ CanFault
  /\ pc[i] = "claim"
  /\ Abandon(i)
  /\ pc' = [pc EXCEPT ![i] = "loop"]
  /\ UNCHANGED <<now, stored, lease, seen, timer>>

\* The renewal throws, in the loop or in the timer: the lease is given up.
RenewFails(i) ==
  /\ CanFault
  /\ \/ pc[i] = "renew"
     \/ pc[i] \in {"work", "drain"} /\ call[i] # NoCall
  /\ Abandon(i)
  /\ lease' = [lease EXCEPT ![i] = NoLease]
  /\ pc' = [pc EXCEPT ![i] = IF @ = "work" THEN @ ELSE "loop"]
  /\ UNCHANGED <<now, stored, seen, timer>>

Die(i) ==
  /\ CanFault
  /\ Up(i)
  /\ Abandon(i)
  /\ lease' = [lease EXCEPT ![i] = NoLease]
  /\ pc' = [pc EXCEPT ![i] = "dead"]
  /\ timer' = [timer EXCEPT ![i] = -1]
  /\ UNCHANGED <<now, stored, seen>>

-----------------------------------------------------------------------------
Tick ==
  /\ now < Horizon
  /\ now' = now + 1
  /\ UNCHANGED <<stored, lease, pc, seen, call, timer, orphans, faults>>

LoopStep(i) ==
  \/ SkipRoundTrip(i) \/ ReadLease(i) \/ StandBy(i) \/ Claim(i) \/ RenewOwn(i)
  \/ LeaseWon(i) \/ LeaseLost(i) \/ WorkEnds(i)

HeartbeatStep(i) == HeartbeatFires(i) \/ HeartbeatAnswered(i)

FaultStep(i) == ClaimFails(i) \/ RenewFails(i) \/ Die(i)

Next ==
  \/ Tick
  \/ \E i \in Instances :
       Start(i) \/ LoopStep(i) \/ HeartbeatStep(i) \/ ExecuteCall(i) \/ FaultStep(i)
  \/ \E request \in orphans : ExecuteOrphan(request)

Spec == Init /\ [][Next]_vars

(***************************************************************************)
(* Time passes, the loop of a live process runs, its work ends (every step *)
(* of it has a timeout) and the database answers.                          *)
(***************************************************************************)
Fairness ==
  /\ WF_vars(Tick)
  /\ \A i \in Instances :
       WF_vars(LoopStep(i)) /\ WF_vars(HeartbeatStep(i)) /\ WF_vars(ExecuteCall(i))

FairSpec == Spec /\ Fairness

-----------------------------------------------------------------------------
TypeOK ==
  /\ now \in Nat
  /\ stored \in Row
  /\ lease \in [Instances -> Row]
  /\ pc \in [Instances -> {"off", "loop", "read", "claim", "renew", "work", "drain", "dead"}]
  /\ seen \in [Instances -> Row]
  /\ call \in [Instances -> Call \cup {NoCall}]
  /\ timer \in [Instances -> Nat \cup {-1}]
  /\ orphans \subseteq Request
  /\ faults \in Nat

(***************************************************************************)
(* leaseLeadership skips the database when its own lease is less than one  *)
(* heartbeat old, because such a lease "cannot have been replaced".  Slow  *)
(* answers, orphaned statements and clocks two heartbeats apart included.  *)
(***************************************************************************)
FreshLeaseIsCurrent ==
  \A i \in Instances : HasFreshLease(i) => stored.owner = i

(***************************************************************************)
(* Leadership changes hands only when the lease it replaces has missed     *)
(* three heartbeats on the clock of the instance that replaces it, however *)
(* long ago that instance read the row; a replaced owner cannot renew      *)
(* itself back.                                                            *)
(***************************************************************************)
TakeoverIsOfAStaleLease ==
  [][\A i, j \in Instances :
       i # j /\ stored.owner = i /\ stored'.owner = j => ~IsFresh(j, stored)]_vars

(***************************************************************************)
(* Whatever calls fail and whichever processes die, a live process comes   *)
(* to lead: a dead owner's lease, or a claim whose answer was lost, does   *)
(* not block the others.                                                   *)
(***************************************************************************)
SomeoneLeads ==
  (\E i \in Instances : Up(i)) ~>
    \/ \E i \in Instances : stored.owner = i /\ lease[i] # NoLease
    \/ \A i \in Instances : ~Up(i)

(***************************************************************************)
(* A process whose lease was replaced while it worked finds out: it does   *)
(* not go on believing for ever.                                           *)
(***************************************************************************)
ReplacedLeaderNotices ==
  \A i \in Instances :
    (lease[i] # NoLease /\ stored.owner # i) ~> (lease[i] = NoLease \/ stored.owner = i)
=============================================================================
