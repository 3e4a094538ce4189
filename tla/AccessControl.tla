---------------------------- MODULE AccessControl ----------------------------
(***************************************************************************)
(* The API keys and the requests that use and change them: authentication, *)
(* the handlers of /v1/keys with their reads and writes of api_keys as     *)
(* steps of their own, and the audit trail.  Requests run concurrently, in *)
(* one API process or in several.                                          *)
(*                                                                         *)
(* A secret is named after the request that made it (or, for the first     *)
(* keys, after the key), and so is the token a request presents.  What the *)
(* other handlers read is outside: they answer or find nothing.            *)
(***************************************************************************)
EXTENDS Integers, Sequences, FiniteSets

CONSTANTS
  Requests,        \* bound: the requests
  Keys,            \* external ids of API keys
  Members,         \* those of the first keys that are not admins
  MaxStoreFaults,  \* bound: calls to the database that fail
  Absent,          \* null: no row, no token, a field a body leaves out
  NoActor          \* no request, no key

ASSUME AccessConstants ==
  /\ IsFiniteSet(Requests) /\ IsFiniteSet(Keys) /\ Members \subseteq Keys
  /\ MaxStoreFaults \in Nat /\ NoActor \notin Requests

Roles == {"admin", "member"}
Tokens == Keys \cup Requests

VARIABLES
  keys,           \* api_keys
  bootstrapLock,  \* request that holds the bootstrap lock, or NoActor
  pc,             \* where each request stands
  call,           \* what it asks for
  actor,          \* requestAuth: the key it authenticated as, as read then
  seen,           \* what its handler has read
  status,         \* status of its response, 0 before there is one
  audited,        \* auditedRequests
  trail,          \* audit_events of each request: their outcomes
  overlapped,     \* history: key changes among whose steps another change was written
  storeFaults

accessVars == <<keys, bootstrapLock, pc, call, actor, seen, status, audited, trail,
                overlapped, storeFaults>>

Present(table) == {k \in Keys : table[k] # Absent}

\* isActiveAdminApiKey.
IsActiveAdmin(record) == record # Absent /\ record.active /\ record.role = "admin"

\* countActiveAdminApiKeys, of the store and of the service.
ActiveAdmins(table) == {k \in DOMAIN table : IsActiveAdmin(table[k])}

\* Requests the routes accept: public ones, reads for every key, and those of /v1/keys.
Calls ==
  [op : {"public", "read", "list"}]
    \cup [op : {"create"}, key : Keys, role : Roles]
    \cup [op : {"get"}, key : Keys]
    \cup [op : {"update"}, key : Keys,
          patch : [role : Roles \cup {Absent}, active : BOOLEAN \cup {Absent}]]
    \cup [op : {"delete"}, ids : SUBSET Keys \ {{}}]

NoCall == [op |-> "none"]

\* api_keys of a new installation, and of one in use.
FirstKeys ==
  {[k \in Keys |-> Absent],
   [k \in Keys |-> [role |-> IF k \in Members THEN "member" ELSE "admin",
                    active |-> TRUE, secret |-> k]]}

AccessInit ==
  /\ keys \in FirstKeys /\ bootstrapLock = NoActor
  /\ pc = [r \in Requests |-> "idle"]
  /\ call = [r \in Requests |-> NoCall]
  /\ actor = [r \in Requests |-> NoActor]
  /\ seen = [r \in Requests |-> << >>]
  /\ status = [r \in Requests |-> 0]
  /\ audited = {} /\ trail = [r \in Requests |-> << >>]
  /\ overlapped = {} /\ storeFaults = 0

Goto(r, label) == pc' = [pc EXCEPT ![r] = label]

\* The handler returns (onAfterHandle follows) or throws (onError follows).
Answer(r, code) ==
  /\ status' = [status EXCEPT ![r] = code]
  /\ Goto(r, IF code < 400 THEN "after" ELSE "error")

storeVars == <<keys, bootstrapLock, overlapped, storeFaults>>
auditVars == <<audited, trail>>

-----------------------------------------------------------------------------
\* Authentication.

\* A request arrives; handleBeforeHandle begins.
Receive(r) ==
  /\ pc[r] = "idle"
  /\ \E c \in Calls :
       /\ call' = [call EXCEPT ![r] = c]
       /\ Goto(r, IF c.op = "public" THEN "read" ELSE "configured")
  /\ UNCHANGED <<storeVars, actor, seen, status, auditVars>>

\* hasConfiguredKeys of enforceProtectedApiTokenAuth, isBootstrapKeyRoute,
\* assertHasConfiguredApiKeys.
CheckConfigured(r) ==
  /\ pc[r] = "configured"
  /\ IF Present(keys) # {} THEN Goto(r, "authenticate") /\ UNCHANGED status
     ELSE IF call[r].op = "create" THEN Goto(r, "available") /\ UNCHANGED status
     ELSE Answer(r, 401)
  /\ UNCHANGED <<storeVars, call, actor, seen, auditVars>>

\* isAuthenticatingApiKey.
Authenticating(token) == {k \in Present(keys) : keys[k].secret = token /\ keys[k].active}

Handler(op) ==
  CASE op = "create" -> "count" [] op \in {"read", "list"} -> "read" [] OTHER -> "load"

\* authenticate, consumeRateLimit (which may refuse) and requireAdminApiKey of the
\* handlers that begin with it.
Authenticate(r) ==
  /\ pc[r] = "authenticate"
  /\ \E token \in Tokens \cup {Absent} :
       IF Authenticating(token) = {}
       THEN Answer(r, 401) /\ UNCHANGED actor
       ELSE \E k \in Authenticating(token) :
              /\ actor' = [actor EXCEPT ![r] = [id |-> k, role |-> keys[k].role]]
              /\ \/ /\ Goto(r, "limited")
                    /\ status' = [status EXCEPT ![r] = 429]
                 \/ IF call[r].op \in {"update", "delete", "list", "get"} /\ keys[k].role # "admin"
                    THEN Answer(r, 403)
                    ELSE Goto(r, Handler(call[r].op)) /\ UNCHANGED status
  /\ UNCHANGED <<storeVars, call, seen, auditVars>>

-----------------------------------------------------------------------------
\* The handlers.

\* Routes that change nothing here.
ReadRoute(r) ==
  /\ pc[r] = "read"
  /\ \E code \in {200, 404} : Answer(r, code)
  /\ UNCHANGED <<storeVars, call, actor, seen, auditVars>>

\* hasConfiguredKeys, assertCanCreateKey and createApiKeyRole.
CountForCreate(r) ==
  /\ pc[r] = "count"
  /\ LET configured == Present(keys) # {}
     IN  IF configured /\ actor[r].role # "admin"
         THEN Answer(r, 403) /\ UNCHANGED seen
         ELSE /\ seen' = [seen EXCEPT ![r] = IF configured THEN call[r].role ELSE "admin"]
              /\ Goto(r, "available") /\ UNCHANGED status
  /\ UNCHANGED <<storeVars, call, actor, auditVars>>

\* assertApiKeyIdAvailable; a request without an actor goes on to createBootstrapApiKey.
CheckAvailable(r) ==
  /\ pc[r] = "available"
  /\ IF keys[call[r].key] # Absent THEN Answer(r, 400)
     ELSE Goto(r, IF actor[r] = NoActor THEN "lock" ELSE "insert") /\ UNCHANGED status
  /\ UNCHANGED <<storeVars, call, actor, seen, auditVars>>

\* Key changes whose checks are over or under way when another change is written.
Pending(r) ==
  {o \in Requests \ {r} : /\ call[o].op \in {"update", "delete"}
                          /\ pc[o] \in {"load", "admins", "write"}}

WriteKeys(r, table) ==
  /\ keys' = table
  /\ overlapped' = IF table # keys THEN overlapped \cup Pending(r) ELSE overlapped

\* insertApiKey; the id is unique.
InsertKey(r) ==
  /\ pc[r] = "insert"
  /\ IF keys[call[r].key] # Absent
     THEN Answer(r, 500) /\ UNCHANGED <<keys, overlapped>>
     ELSE /\ WriteKeys(r, [keys EXCEPT ![call[r].key] =
                             [role |-> seen[r], active |-> TRUE, secret |-> r]])
          /\ Goto(r, "found") /\ UNCHANGED status
  /\ UNCHANGED <<bootstrapLock, storeFaults, call, actor, seen, auditVars>>

\* createApiKey reads the row back.
ReadBack(r) ==
  /\ pc[r] = "found"
  /\ Answer(r, IF keys[call[r].key] = Absent THEN 500 ELSE 200)
  /\ UNCHANGED <<storeVars, call, actor, seen, auditVars>>

\* A mutant of BootstrapLockFree: the count and the insert are not serialised.
BootstrapLockIgnored == TRUE

\* The lock under which a first key is made: a transaction-wide advisory lock, a named
\* lock, or the queue and the write transaction of SQLite.
BootstrapLockFree == bootstrapLock = NoActor

LockBootstrap(r) ==
  /\ pc[r] = "lock" /\ BootstrapLockFree
  /\ bootstrapLock' = r /\ Goto(r, "bootstrap")
  /\ UNCHANGED <<keys, overlapped, storeFaults, call, actor, seen, status, auditVars>>

\* createBootstrapApiKeyInTransaction, up to its count.
CountBootstrap(r) ==
  /\ pc[r] = "bootstrap"
  /\ IF Present(keys) # {}
     THEN Answer(r, 401) /\ bootstrapLock' = NoActor
     ELSE Goto(r, "first") /\ UNCHANGED <<status, bootstrapLock>>
  /\ UNCHANGED <<keys, overlapped, storeFaults, call, actor, seen, auditVars>>

\* Its insert, the commit and the release of the lock.
InsertFirstKey(r) ==
  /\ pc[r] = "first"
  /\ bootstrapLock' = NoActor
  /\ IF keys[call[r].key] # Absent
     THEN Answer(r, 500) /\ UNCHANGED <<keys, overlapped>>
     ELSE /\ WriteKeys(r, [keys EXCEPT ![call[r].key] =
                             [role |-> "admin", active |-> TRUE, secret |-> r]])
          /\ Answer(r, 200)
  /\ UNCHANGED <<storeFaults, call, actor, seen, auditVars>>

\* applyApiKeyUpdate.
Patched(record, patch) ==
  [record EXCEPT !.role = IF patch.role = Absent THEN @ ELSE patch.role,
                 !.active = IF patch.active = Absent THEN @ ELSE patch.active]

\* getApiKeyById of getKey and updateKey, and what follows from it alone.
LoadKey(r) ==
  /\ pc[r] = "load" /\ call[r].op \in {"get", "update"}
  /\ LET current == keys[call[r].key]
         patch == call[r].patch
     IN  \/ /\ current = Absent
            /\ Answer(r, 404) /\ UNCHANGED seen
         \/ /\ current # Absent
            /\ IF call[r].op = "get" \/ (patch.role = Absent /\ patch.active = Absent)
               THEN Answer(r, 200) /\ UNCHANGED seen
               ELSE /\ seen' = [seen EXCEPT ![r] = Patched(current, patch)]
                    /\ Goto(r, IF IsActiveAdmin(current) /\ ~IsActiveAdmin(Patched(current, patch))
                               THEN "admins" ELSE "write")
                    /\ UNCHANGED status
  /\ UNCHANGED <<storeVars, call, actor, auditVars>>

\* assertCanDeleteKeys reads each of the keys, all at once.
LoadKeyToDelete(r) ==
  /\ pc[r] = "load" /\ call[r].op = "delete"
  /\ \E k \in call[r].ids \ DOMAIN seen[r] :
       LET loaded == [i \in DOMAIN seen[r] \cup {k} |-> IF i = k THEN keys[k] ELSE seen[r][i]]
       IN  IF DOMAIN loaded # call[r].ids
           THEN seen' = [seen EXCEPT ![r] = loaded] /\ UNCHANGED <<pc, status>>
           ELSE IF \E i \in DOMAIN loaded : loaded[i] = Absent
           THEN Answer(r, 404) /\ UNCHANGED seen
           ELSE /\ seen' = [seen EXCEPT ![r] = loaded]
                /\ Goto(r, "admins") /\ UNCHANGED status
  /\ UNCHANGED <<storeVars, call, actor, auditVars>>

\* A mutant of KeepsAnAdmin: deleteKeys is checked as if it removed one key.
KeepsAnAdminEarly(r) == Cardinality(ActiveAdmins(keys)) > 1

\* assertHasAnotherActiveAdminApiKey and removesLastActiveAdminApiKey.
KeepsAnAdmin(r) ==
  LET active == Cardinality(ActiveAdmins(keys))
      deleting == Cardinality(ActiveAdmins(seen[r]))
  IN  IF call[r].op = "update" THEN active > 1 ELSE deleting = 0 \/ active - deleting > 0

CountAdmins(r) ==
  /\ pc[r] = "admins"
  /\ IF KeepsAnAdmin(r) THEN Goto(r, "write") /\ UNCHANGED status ELSE Answer(r, 400)
  /\ UNCHANGED <<storeVars, call, actor, seen, auditVars>>

\* updateApiKey writes the whole row, if it is still there; deleteApiKeys.
ChangeKeys(r) ==
  /\ pc[r] = "write"
  /\ WriteKeys(r, IF call[r].op = "delete"
                  THEN [k \in Keys |-> IF k \in call[r].ids THEN Absent ELSE keys[k]]
                  ELSE [keys EXCEPT ![call[r].key] = IF @ = Absent THEN @ ELSE seen[r]])
  /\ Answer(r, 204)
  /\ UNCHANGED <<bootstrapLock, storeFaults, call, actor, seen, auditVars>>

\* A call to the database fails: the transaction is rolled back, the lock released, and
\* the request answered with 500.
StoreFails(r) ==
  /\ pc[r] \notin {"idle", "read", "limited", "after", "error", "done"}
  /\ storeFaults < MaxStoreFaults
  /\ storeFaults' = storeFaults + 1
  /\ bootstrapLock' = IF bootstrapLock = r THEN NoActor ELSE bootstrapLock
  /\ Answer(r, 500)
  /\ UNCHANGED <<keys, overlapped, call, actor, seen, auditVars>>

-----------------------------------------------------------------------------
\* The audit trail.

\* auditOutcome.
Outcome(code) ==
  CASE code \in {401, 403} -> "denied"
    [] code = 429 -> "rate_limited"
    [] code >= 400 /\ code # 429 /\ code \notin {401, 403} -> "failure"
    [] OTHER -> "success"

\* A mutant of Auditable that forgets that a refused request is audited already.
AuditableAgain(r) == actor[r] # NoActor

\* unauditedRequestActor.
Auditable(r) == actor[r] # NoActor /\ r \notin audited

\* recordAudit: of the limiter's refusal, then of handleAfterHandle for what it returned;
\* of handleAfterHandle; of onError.  A failed write is logged, and not tried again.
RecordAudit(r) ==
  /\ pc[r] \in {"limited", "after", "error"}
  /\ Goto(r, IF pc[r] = "limited" THEN "after" ELSE "done")
  /\ IF Auditable(r)
     THEN /\ audited' = audited \cup {r}
          /\ \/ /\ trail' = [trail EXCEPT ![r] = Append(@, Outcome(status[r]))]
                /\ UNCHANGED storeFaults
             \/ /\ storeFaults < MaxStoreFaults
                /\ storeFaults' = storeFaults + 1
                /\ UNCHANGED trail
     ELSE UNCHANGED <<audited, trail, storeFaults>>
  /\ UNCHANGED <<keys, bootstrapLock, overlapped, call, actor, seen, status>>

-----------------------------------------------------------------------------
AccessNext ==
  \E r \in Requests :
    \/ Receive(r) \/ CheckConfigured(r) \/ Authenticate(r) \/ ReadRoute(r)
    \/ CountForCreate(r) \/ CheckAvailable(r) \/ InsertKey(r) \/ ReadBack(r)
    \/ LockBootstrap(r) \/ CountBootstrap(r) \/ InsertFirstKey(r)
    \/ LoadKey(r) \/ LoadKeyToDelete(r) \/ CountAdmins(r) \/ ChangeKeys(r)
    \/ StoreFails(r) \/ RecordAudit(r)

AccessSpec == AccessInit /\ [][AccessNext]_accessVars

-----------------------------------------------------------------------------
\* A request with a token has made a key.
MadeWithToken(r) ==
  /\ call[r].op = "create" /\ actor[r] # NoActor
  /\ \/ pc[r] = "found"
     \/ pc[r] \in {"after", "error", "done"} /\ status[r] \in {200, 500}

\* The first key is made once: while a request without a token is about to insert it no
\* other one is, and the table is empty still, but for keys that requests with a token
\* (which the lock does not hold up) make beside it when all keys have been deleted.
BootstrapIsExclusive ==
  [][\A r \in Requests :
       pc[r] = "first" /\ pc'[r] = "after" =>
         /\ \A o \in Requests \ {r} : pc[o] # "first"
         /\ Present(keys) = {} \/ \E o \in Requests : MadeWithToken(o)]_accessVars

\* A request that authenticated leaves one event in the audit trail, with the outcome
\* its client saw: also a refused one, which passes recordAudit twice, and one that
\* failed half way.  (A failed write of the event itself is only logged.)
AuditedOnce ==
  \A r \in Requests :
    pc[r] = "done" /\ actor[r] # NoActor /\ storeFaults = 0 =>
      trail[r] = <<Outcome(status[r])>>

\* The checks of updateKey and deleteKeys keep an active admin whatever the bodies ask
\* for (several keys, the actor's own key, a role and a state at once): the last one
\* goes only by a change among whose steps another one was written.
LastAdminNeedsARace ==
  [][ActiveAdmins(keys) # {} /\ ActiveAdmins(keys') = {} =>
       \E r \in overlapped : pc[r] = "write" /\ pc'[r] # "write"]_accessVars

\* updateKey and deleteKeys refuse to remove the last active admin API key, so that a
\* table with one never loses it.
AnAdminRemains ==
  [][ActiveAdmins(keys) # {} => ActiveAdmins(keys') # {}]_accessVars
=============================================================================
