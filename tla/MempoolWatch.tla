---------------------------- MODULE MempoolWatch ----------------------------
(***************************************************************************)
(* Mempool watches, with the API and the indexer in processes of their own *)
(* over one Postgres database: sessions of the API that wait for a payment *)
(* to an address, the registry of watches, the detector of the indexer,    *)
(* and the NOTIFY bus between them.                                        *)
(*                                                                         *)
(* Every session watches one address; a transaction is the number of units *)
(* it pays to it; the other traffic of the node shows in the mempool       *)
(* outgrowing the cache.  One detector runs.  Five minutes outlast every   *)
(* step that is pending, and the answer to an INSERT outruns a detection,  *)
(* which takes several calls to the node.                                  *)
(***************************************************************************)
EXTENDS Integers, FiniteSets

CONSTANTS
  SessionCount,    \* bound: sessions, numbered in the order they are opened
  Demanding,       \* sessions with a minValueBase, of two units
  MaxWatches,      \* MEMPOOL_WATCH_MAX_CONCURRENT
  Txs,             \* transactions: units paid to the address
  MaxWatchFaults   \* bound: bus errors, failed calls, overflows, deaths of the API
                   \* (fetches of transactions that are gone are not counted)

ASSUME WatchConstants ==
  /\ SessionCount \in Nat /\ Demanding \subseteq 1 .. SessionCount
  /\ MaxWatches \in Nat /\ Txs \subseteq Nat /\ MaxWatchFaults \in Nat

VARIABLES
  session,     \* where each session stands
  listening,   \* sessions subscribed to appear events
  got,         \* sessions that have received an event
  createLock,  \* session that holds the advisory lock of the API key, or NoLock
  registry,    \* rows of active_mempool_watches
  old,         \* sessions whose five minutes are over
  changed,     \* a watch_changed notification is on its way to the detector
  appears,     \* appear events on their way to the API
  mempool,     \* transactions the node holds
  came,        \* transactions that have ever come
  rawTxs,      \* raw transactions on their way to the detector
  silent,      \* history: transactions whose raw transaction was lost or not decoded
  offline,     \* the API has lost its connection to the bus
  deaf,        \* the detector has lost its subscription
  refreshes,   \* a refresh waits for its turn
  work,        \* what the detector does
  known,       \* watchesByAddress
  fresh,       \* watches the running refresh has found new
  snapshot,    \* mempool the running synchronisation has read
  cache,       \* cachedTransactions
  degraded,    \* the status other processes read
  lost,        \* history: events lost with the bus or with a failed call
  swallowed,   \* history: events not sent as a refresh for another watch cached them
  watchFaults

watchVars == <<session, listening, got, createLock, registry, old, changed, appears,
               mempool, came, rawTxs, silent, offline, deaf, refreshes, work, known, fresh,
               snapshot, cache, degraded, lost, swallowed, watchFaults>>
apiVars == <<session, listening, got, createLock, registry, old, offline>>
nodeVars == <<mempool, came, rawTxs, silent>>
detectorVars == <<deaf, refreshes, work, known, fresh, snapshot, cache, degraded, lost,
                  swallowed>>

Sessions == 1 .. SessionCount
NoLock == 0

WatchInit ==
  /\ session = [s \in Sessions |-> "idle"]
  /\ listening = {} /\ got = {} /\ createLock = NoLock /\ registry = {} /\ old = {}
  /\ changed = FALSE /\ appears = {} /\ mempool = {} /\ came = {} /\ rawTxs = {}
  /\ silent = {} /\ offline = FALSE /\ deaf = FALSE /\ refreshes = FALSE /\ work = "idle"
  /\ known = {} /\ fresh = {} /\ snapshot = {} /\ cache = {}
  /\ degraded = FALSE /\ lost = {} /\ swallowed = {} /\ watchFaults = 0

\* matchingOutputsForAddress: the outputs to the address, if their sum suffices.
Matches(s, t) == t > 0 /\ (s \in Demanding => t >= 2)

\* matchTransaction: the appear events of these transactions for these watches.
Matched(watches, txs) ==
  UNION {{[session |-> s, tx |-> t] : s \in {s \in watches : Matches(s, t)}} : t \in txs}

\* A call fails.
Fault == watchFaults < MaxWatchFaults /\ watchFaults' = watchFaults + 1

-----------------------------------------------------------------------------
\* The sessions.

\* openSession, up to assertDetectorAvailable.
OpenSession(s) ==
  /\ session[s] = "idle" /\ \A o \in 1 .. s - 1 : session[o] # "idle"
  /\ IF degraded
     THEN session' = [session EXCEPT ![s] = "refused"] /\ UNCHANGED listening
     ELSE /\ session' = [session EXCEPT ![s] = "checked"]
          /\ listening' = listening \cup {s}
  /\ UNCHANGED <<got, createLock, registry, old, offline, changed, appears, nodeVars,
                 detectorVars, watchFaults>>

\* Variant: nothing is locked, as with databases other than Postgres.
CreateLockIgnored == TRUE

\* withMempoolWatchCreateLock
CreateLockFree == createLock = NoLock

\* createActiveMempoolWatch, countActiveMempoolWatchesByApiKeyId: the lock, the
\* expired rows, and the count, which refuses the session at the limit.
CountWatches(s) ==
  /\ session[s] = "checked" /\ CreateLockFree
  /\ registry' = registry \ old
  /\ IF Cardinality(registry \ old) >= MaxWatches
     THEN /\ session' = [session EXCEPT ![s] = "refused"]
          /\ listening' = listening \ {s}
          /\ UNCHANGED createLock
     ELSE /\ session' = [session EXCEPT ![s] = "counted"]
          /\ createLock' = s
          /\ UNCHANGED listening
  /\ UNCHANGED <<got, old, offline, changed, appears, nodeVars, detectorVars, watchFaults>>

\* createActiveMempoolWatch: the INSERT, visible before the session knows.
InsertWatch(s) ==
  /\ session[s] = "counted"
  /\ registry' = registry \cup {s}
  /\ createLock' = IF createLock = s THEN NoLock ELSE createLock
  /\ session' = [session EXCEPT ![s] = "inserted"]
  /\ UNCHANGED <<listening, got, old, offline, changed, appears, nodeVars, detectorVars,
                 watchFaults>>

\* openSession: the watch is known to its handler, publishWatchChanged, which connects
\* a bus that has lost its connection.
AnnounceWatch(s) ==
  /\ session[s] = "inserted"
  /\ session' = [session EXCEPT ![s] = "open"]
  /\ changed' = TRUE /\ offline' = FALSE
  /\ UNCHANGED <<listening, got, createLock, registry, old, appears, nodeVars,
                 detectorVars, watchFaults>>

\* handleNotification, subscribeAppears: an event reaches its session.
DeliverAppear(e) ==
  /\ session[e.session] # "inserted"
  /\ appears' = appears \ {e}
  /\ got' = IF session[e.session] = "open" /\ e.session \in listening
            THEN got \cup {e.session} ELSE got
  /\ UNCHANGED <<session, listening, createLock, registry, old, offline, changed, nodeVars,
                 detectorVars, watchFaults>>

\* openSession: the loop ends with an event, or when the time is over, or because the
\* client went, which it may do at any time; the watch is deleted and the detector
\* told.  The events that were not read and the timer go with the session.
EndSession(s) ==
  /\ session[s] = "open"
  /\ session' = [session EXCEPT ![s] = "ended"]
  /\ got' = got \ {s} /\ old' = old \ {s}
  /\ listening' = listening \ {s}
  /\ registry' = registry \ {s}
  /\ changed' = TRUE /\ offline' = FALSE
  /\ UNCHANGED <<createLock, appears, nodeVars, detectorVars, watchFaults>>

-----------------------------------------------------------------------------
\* The detector.

\* MempoolAppearDetectorService.start: a notification asks for a refresh, which
\* serializeWork puts behind the work that runs.
DeliverChanged ==
  /\ changed
  /\ changed' = FALSE
  /\ refreshes' = (refreshes \/ ~deaf)
  /\ UNCHANGED <<apiVars, appears, nodeVars, deaf, work, known, fresh, snapshot, cache,
                 degraded, lost, swallowed, watchFaults>>

\* refreshWatches: the watches that were not known before.
NewWatches(listed) == listed \ known

\* refreshWatches: list the watches, drop the expired ones, and, if there are any,
\* read the mempool.
StartRefresh ==
  /\ work = "idle" /\ refreshes
  /\ refreshes' = FALSE
  /\ registry' = registry \ old
  /\ known' = registry \ old
  /\ fresh' = NewWatches(registry \ old)
  /\ work' = IF registry \ old = {} THEN "idle" ELSE "refresh"
  /\ snapshot' = IF registry \ old = {} THEN {} ELSE mempool
  /\ UNCHANGED <<session, listening, got, createLock, old, offline, changed, appears,
                 nodeVars, deaf, cache, degraded, lost, swallowed, watchFaults>>

\* refreshWatches: the watches cannot be listed, and the notification is used up.
RefreshFails ==
  /\ work = "idle" /\ refreshes /\ Fault
  /\ refreshes' = FALSE
  /\ lost' = lost \cup Matched(registry \ known, Txs)
  /\ UNCHANGED <<apiVars, changed, appears, nodeVars, deaf, work, known, fresh, snapshot,
                 cache, degraded, swallowed>>

\* pollLoop, while there are watches: read the mempool.
StartPoll ==
  /\ work = "idle" /\ known # {}
  /\ work' = "poll" /\ snapshot' = mempool
  /\ UNCHANGED <<apiVars, changed, appears, nodeVars, deaf, refreshes, known, fresh, cache,
                 degraded, lost, swallowed, watchFaults>>

\* matchCachedTransactions, publishAppear: nobody hears the events while the API is
\* offline, and a call that fails ends the loop over the events.
Publish(events) ==
  \/ /\ appears' = IF offline THEN appears ELSE appears \cup events
     /\ lost' = IF offline THEN lost \cup events ELSE lost
     /\ UNCHANGED watchFaults
  \/ \E sent \in SUBSET events :
       /\ sent # events /\ ~offline /\ Fault
       /\ appears' = appears \cup sent
       /\ lost' = lost \cup (events \ sent)

\* persistDetectorStatus: the only detector owns the marker.
PersistStatus(isDegraded) == degraded' = isDegraded

\* The end of a synchronisation.
EndWork == work' = "idle" /\ fresh' = {} /\ snapshot' = {}

\* A synchronisation that ends early: a refresh has replaced the list of watches by
\* then, so its new watches are not new to the next one.
AbandonSynchronize ==
  /\ work \in {"refresh", "poll"} /\ EndWork
  /\ lost' = lost \cup Matched(fresh, snapshot)
  /\ UNCHANGED <<apiVars, changed, appears, nodeVars, deaf, refreshes, known, swallowed>>

\* synchronizeMempool, of a mempool larger than MEMPOOL_WATCH_CACHE_MAX_TXIDS.
Overflow ==
  /\ AbandonSynchronize /\ Fault
  /\ cache' = {} /\ PersistStatus(TRUE)

\* A call to the node fails, or the status cannot be persisted.
SynchronizeFails == AbandonSynchronize /\ Fault /\ UNCHANGED <<cache, degraded>>

\* hydrateDogecoinTransactions: a transaction that is not cached left the mempool after
\* the snapshot and is not in the index of the node: the batch is given up.
HydrationFails ==
  /\ AbandonSynchronize /\ ~(snapshot \ cache \subseteq mempool)
  /\ UNCHANGED <<cache, degraded, watchFaults>>

\* Variant: a poll matches the watches with what it has fetched before the cache is
\* swapped, a refresh as well.
PublishedRefreshNew(hydrated, next) == Matched(fresh, hydrated)

\* synchronizeMempool, refreshWatches: a poll matches the transactions it has fetched
\* with every watch, a refresh its new watches with the whole cache.
Published(hydrated, next) ==
  IF work = "poll" THEN Matched(known, hydrated) ELSE Matched(fresh, next)

\* synchronizeMempool after the snapshot: the transactions not cached are fetched (one
\* that left the mempool meanwhile, from the index of the node).
FinishSynchronize ==
  /\ work \in {"refresh", "poll"} /\ EndWork
  /\ LET hydrated == snapshot \ cache
         next == (snapshot \cap cache) \cup hydrated
     IN  /\ cache' = next
         /\ Publish(Published(hydrated, next))
         /\ swallowed' = IF work = "poll" THEN swallowed
                         ELSE swallowed \cup Matched(known \ fresh, hydrated)
  /\ PersistStatus(FALSE)
  /\ UNCHANGED <<apiVars, changed, nodeVars, deaf, refreshes, known>>

\* handleRawTxHex, handleDecodedTransaction: nobody watches, or the transaction is
\* cached while there is room and matched with every watch.
HandleRawTx(t) ==
  /\ t \in rawTxs /\ work = "idle"
  /\ rawTxs' = rawTxs \ {t}
  /\ cache' \in IF known = {} THEN {cache} ELSE {cache, cache \cup {t}}
  /\ Publish(Matched(known, {t}))
  /\ UNCHANGED <<apiVars, changed, mempool, came, silent, deaf, refreshes, work, known,
                 fresh, snapshot, degraded, swallowed>>

\* handleRawTxHex: the raw transaction cannot be decoded, or the bridge loses it.
RawTxFails(t) ==
  /\ t \in rawTxs
  /\ rawTxs' = rawTxs \ {t} /\ silent' = silent \cup {t}
  /\ UNCHANGED <<apiVars, changed, appears, mempool, came, detectorVars, watchFaults>>

\* The marker of a detector that has stopped polling expires after three polls.
StatusExpires ==
  /\ degraded /\ known = {} /\ work = "idle"
  /\ degraded' = FALSE
  /\ UNCHANGED <<apiVars, changed, appears, nodeVars, deaf, refreshes, work, known, fresh,
                 snapshot, cache, lost, swallowed, watchFaults>>

-----------------------------------------------------------------------------
\* The world.

\* A transaction enters the mempool, and is sent by ZMQ.
TxArrives(t) ==
  /\ t \notin came
  /\ came' = came \cup {t} /\ mempool' = mempool \cup {t}
  /\ rawTxs' = rawTxs \cup {t}
  /\ UNCHANGED <<apiVars, changed, appears, silent, detectorVars, watchFaults>>

TxLeaves(t) ==
  /\ t \in mempool
  /\ mempool' = mempool \ {t}
  /\ UNCHANGED <<apiVars, changed, appears, came, rawTxs, silent, detectorVars, watchFaults>>

\* Nothing is on its way, and the last poll saw the mempool as it is.
Quiet ==
  /\ ~changed /\ ~refreshes /\ appears = {} /\ rawTxs = {} /\ work = "idle"
  /\ \A s \in Sessions : session[s] \in {"idle", "open", "ended", "refused", "dead"}
  /\ mempool \subseteq cache \/ known = {}

\* The five minutes of a session.
Elapse(s) ==
  /\ session[s] \in {"open", "dead"} /\ s \notin old /\ Quiet
  /\ old' = old \cup {s}
  /\ UNCHANGED <<session, listening, got, createLock, registry, offline, changed, appears,
                 nodeVars, detectorVars, watchFaults>>

\* PostgresMempoolWatchBus.stop after an error of a connection: every subscription of
\* the process is removed and what was on its way to it is lost.  The process connects
\* again to publish, which the detector does before its next event.
BusFails(process) ==
  /\ Fault
  /\ IF process = "api"
     THEN /\ listening' = {} /\ appears' = {} /\ lost' = lost \cup appears
          /\ offline' = TRUE /\ UNCHANGED <<deaf, changed>>
     ELSE /\ deaf' = TRUE /\ changed' = FALSE
          /\ UNCHANGED <<listening, appears, lost, offline>>
  /\ UNCHANGED <<session, got, createLock, registry, old, nodeVars, refreshes, work, known,
                 fresh, snapshot, cache, degraded, swallowed>>

\* The API dies and starts again: the rows of its sessions stay until they expire.
ApiDies ==
  /\ Fault
  /\ session' = [s \in Sessions |-> IF session[s] \in {"checked", "counted", "inserted", "open"}
                                    THEN "dead" ELSE session[s]]
  /\ listening' = {} /\ appears' = {} /\ createLock' = NoLock /\ offline' = FALSE
  /\ UNCHANGED <<got, registry, old, changed, nodeVars, detectorVars>>

SessionNext ==
  \E s \in Sessions : OpenSession(s) \/ CountWatches(s) \/ InsertWatch(s)
                      \/ AnnounceWatch(s) \/ EndSession(s) \/ Elapse(s)
DetectorNext ==
  \/ DeliverChanged \/ StartRefresh \/ RefreshFails \/ StartPoll \/ FinishSynchronize
  \/ Overflow \/ SynchronizeFails \/ HydrationFails \/ StatusExpires
  \/ \E t \in Txs : HandleRawTx(t) \/ RawTxFails(t)
WatchNext ==
  \/ SessionNext \/ DetectorNext
  \/ \E e \in appears : DeliverAppear(e)
  \/ \E t \in Txs : TxArrives(t) \/ TxLeaves(t)
  \/ \E p \in {"api", "indexer"} : BusFails(p)
  \/ ApiDies

WatchSpec == WatchInit /\ [][WatchNext]_watchVars

-----------------------------------------------------------------------------

\* An API key has at most MEMPOOL_WATCH_MAX_CONCURRENT watches, however many
\* sessions are opened at once: the count and the INSERT are under one lock.
WatchLimitHolds == Cardinality(registry) <= MaxWatches

\* The session waits for an event, and a qualifying transaction is in the mempool
\* although everything on its way has arrived and the detector has seen the mempool.
Misses(s, t) ==
  /\ Quiet /\ session[s] = "open" /\ s \in listening /\ s \notin got \cup old
  /\ t \in mempool /\ Matches(s, t)

\* Between the catch-up of a new watch and the detection for known ones a transaction
\* is missed for two reasons only: its event went with the bus or with a call that
\* failed (the catch-up of the watch among them), or its raw transaction was lost and a
\* refresh for another watch was the first to fetch it.  Sessions whose bus failed no
\* longer listen; a detector that lost its subscription knows no new watches.
NothingIsMissed ==
  \A s \in Sessions, t \in Txs :
    LET event == [session |-> s, tx |-> t]
    IN  Misses(s, t) /\ (s \in known \/ ~deaf) =>
          event \in lost \/ (t \in silent /\ event \in swallowed)

\* docs/dogecoin-explorer-api.md: "on connect, the indexer rematches its shared
\* current-mempool cache and may emit immediately".  While every call is answered and
\* every raw transaction decoded, a new watch is told of what is in the mempool already.
\* The code does not keep this: a fetch of a transaction that is gone ends the catch-up.
CatchUpIsKept ==
  \A s \in Sessions, t \in Txs : ~(Misses(s, t) /\ watchFaults = 0 /\ silent = {})

\* docs/dogecoin-explorer-api.md: "Live detection runs in the indexer (ZMQ `rawtx` ...
\* when available, plus RPC polling while watches are active)".  While every call is
\* answered, a poll finds for a known watch what ZMQ did not bring.  The code does not
\* keep this: a refresh for another watch may have cached the transaction.
PollingDetects ==
  \A s \in Sessions, t \in Txs :
    ~(Misses(s, t) /\ watchFaults = 0 /\ [session |-> s, tx |-> t] \notin lost)
=============================================================================
