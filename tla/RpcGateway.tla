----------------------------- MODULE RpcGateway -----------------------------
(***************************************************************************)
(* HttpBlockchainRpcGateway: the calls to the Dogecoin node.               *)
(*                                                                         *)
(* Callers of one endpoint queue for a rate-limit slot (a chain of         *)
(* promises: each link reserves its slot only when the link before it was  *)
(* released), send a batch, and match the entries of the response to the   *)
(* calls of the batch.  A call refused because the node's work queue is    *)
(* full is repeated after a growing delay, through the rate limit again.   *)
(* Block snapshots take two batches, the hashes of the heights and the     *)
(* raw blocks of these hashes; transactions take one, in which the node    *)
(* may not know some of them.                                              *)
(***************************************************************************)
EXTENDS Integers, Sequences

CONSTANTS
  Callers,        \* calls to the gateway that may be in flight
  BatchSize,      \* the calls of a batch
  IntervalTicks,  \* 1000 / rps
  BaseDelayTicks, \* RPC_RETRY_BASE_DELAY_MS
  RetryAttempts,  \* RPC_RETRY_ATTEMPTS
  MaxOverloads,   \* bound on the answers "work queue depth exceeded"
  MaxRpcClock     \* bound on the clock

ASSUME RpcAssumption ==
  /\ {BatchSize, IntervalTicks, BaseDelayTicks, RetryAttempts,
      MaxRpcClock} \subseteq Nat \ {0}
  /\ MaxOverloads \in Nat

VARIABLES
  rpcClock,
  nextSlotAt,  \* rateLimitState: when the next slot is available
  waiting,     \* rateLimitQueues: the callers in the chain, the first one sleeping
  slotAt,      \* the slot of the first one, or -1 before it is reserved
  rpcCall,     \* what each caller is doing
  branch,      \* the branch of the node's chain
  overloads,
  sent         \* the number of batches sent since the start

Positions == 1 .. BatchSize

rpcVars == <<rpcClock, nextSlotAt, waiting, slotAt, rpcCall, branch, overloads, sent>>

\* "asked" is the method of the batch, "hashes" the answer of the first one,
\* "seen" the branch when the batch was sent, "result" what is returned.
NoRpc == [at |-> "idle", asked |-> "none", attempt |-> 0, until |-> 0,
           hashes |-> <<>>, seen |-> 0, result |-> <<>>]

RpcInit ==
  /\ rpcClock = 0 /\ nextSlotAt = 0
  /\ waiting = <<>> /\ slotAt = -1
  /\ rpcCall = [c \in Callers |-> NoRpc]
  /\ branch = 0 /\ overloads = 0 /\ sent = 0

-----------------------------------------------------------------------------
(* The rate limit.                                                         *)

\* getBlockSnapshots asks for hashes first, getRawTransactions for
\* transactions; calls of one result, getblockcount among them, share the
\* queue with the batches.
Ask(c) ==
  /\ rpcCall[c].at = "idle"
  /\ \E method \in {"getblockhash", "getrawtransaction", "getblockcount"} :
       rpcCall' = [rpcCall EXCEPT ![c] = [NoRpc EXCEPT !.at = "queued", !.asked = method]]
  /\ waiting' = Append(waiting, c)
  /\ UNCHANGED <<rpcClock, nextSlotAt, slotAt, branch, overloads, sent>>

Later(a, b) == IF a > b THEN a ELSE b

NextSlotFromNow(scheduled) == rpcClock + IntervalTicks
NextSlot(scheduled) == scheduled + IntervalTicks

ReserveSlot ==
  /\ waiting # <<>> /\ slotAt = -1
  /\ slotAt' = Later(rpcClock, nextSlotAt)
  /\ nextSlotAt' = NextSlot(Later(rpcClock, nextSlotAt))
  /\ UNCHANGED <<rpcClock, waiting, rpcCall, branch, overloads, sent>>

\* The timer fires at the slot or later; the batch is sent and the next link
\* of the chain may reserve.
Send ==
  /\ slotAt # -1 /\ rpcClock >= slotAt
  /\ rpcCall' = [rpcCall EXCEPT ![Head(waiting)].at = "sent", ![Head(waiting)].seen = branch]
  /\ waiting' = Tail(waiting) /\ slotAt' = -1
  /\ sent' = sent + 1
  /\ UNCHANGED <<rpcClock, nextSlotAt, branch, overloads>>

-----------------------------------------------------------------------------
(* Answers.                                                                *)

End(c, result) == rpcCall' = [rpcCall EXCEPT ![c] = [NoRpc EXCEPT !.at = "ended", !.result = result]]

\* withRpcRetry: only a full work queue is worth another attempt.
Overloaded(c) ==
  /\ rpcCall[c].at = "sent" /\ overloads < MaxOverloads
  /\ overloads' = overloads + 1
  /\ IF rpcCall[c].attempt >= RetryAttempts - 1
       THEN End(c, <<>>)
       ELSE rpcCall' = [rpcCall EXCEPT ![c].at = "backoff", ![c].attempt = @ + 1,
                       ![c].until = rpcClock + BaseDelayTicks * 2 ^ rpcCall[c].attempt]
  /\ UNCHANGED <<rpcClock, nextSlotAt, waiting, slotAt, branch, sent>>

Retry(c) ==
  /\ rpcCall[c].at = "backoff" /\ rpcClock >= rpcCall[c].until
  /\ rpcCall' = [rpcCall EXCEPT ![c].at = "queued"]
  /\ waiting' = Append(waiting, c)
  /\ UNCHANGED <<rpcClock, nextSlotAt, slotAt, branch, overloads, sent>>

\* No answer in time, an error of the node, or a response that is no batch.
RpcFails(c) ==
  /\ rpcCall[c].at = "sent"
  /\ End(c, <<>>)
  /\ UNCHANGED <<rpcClock, nextSlotAt, waiting, slotAt, branch, overloads, sent>>

\* The entries of a response come in any order, and an id may be repeated.
Responses(answers) == {[i \in Positions |-> [id |-> ids[i], result |-> answers[ids[i]]]] :
                         ids \in [Positions -> Positions]}

\* Every call of the batch has an entry.
Complete(entries) == {entries[i].id : i \in Positions} = Positions

ReadInOrder(entries) == [k \in Positions |-> entries[k].result]

\* readRpcBatchResults: entries are matched with calls by their id.
ReadBatch(entries) ==
  [k \in Positions |-> entries[CHOOSE i \in Positions : entries[i].id = k].result]

\* The node walks the batch call by call: a reorganisation meanwhile leaves
\* hashes of either branch in one answer.
AnswerHashes(c) ==
  /\ rpcCall[c].at = "sent" /\ rpcCall[c].asked = "getblockhash"
  /\ \E of \in [Positions -> {rpcCall[c].seen, branch}] :
       LET answers == [k \in Positions |-> [height |-> k, branch |-> of[k]]]
       IN  \E entries \in Responses(answers) :
             IF Complete(entries)
               THEN /\ rpcCall' = [rpcCall EXCEPT ![c] = [NoRpc EXCEPT
                        !.at = "queued", !.asked = "getblock", !.hashes = ReadBatch(entries)]]
                    /\ waiting' = Append(waiting, c)
               ELSE End(c, <<>>) /\ UNCHANGED waiting
  /\ UNCHANGED <<rpcClock, nextSlotAt, slotAt, branch, overloads, sent>>

\* A raw block carries no height: it gets that of its place in the request,
\* and its hash is compared with the one asked for.
DecodeSnapshots(blocks, hashes) ==
  IF \A k \in Positions : blocks[k] = hashes[k]
    THEN [k \in Positions |-> [height |-> k, block |-> blocks[k]]]
    ELSE <<>>

AnswerBlocks(c) ==
  /\ rpcCall[c].at = "sent" /\ rpcCall[c].asked = "getblock"
  /\ \E entries \in Responses(rpcCall[c].hashes) :
       End(c, IF Complete(entries)
                THEN DecodeSnapshots(ReadBatch(entries), rpcCall[c].hashes)
                ELSE <<>>)
  /\ UNCHANGED <<rpcClock, nextSlotAt, waiting, slotAt, branch, overloads, sent>>

\* A transaction the node does not know is answered with a null, which fails
\* the whole call.
AnswerTransactions(c) ==
  /\ rpcCall[c].at = "sent" /\ rpcCall[c].asked = "getrawtransaction"
  /\ \E known \in SUBSET Positions :
       LET answers == [k \in Positions |-> [height |-> k, branch |-> 0]]
       IN  \E entries \in Responses(answers) :
             End(c, IF Complete(entries) /\ known = Positions
                      THEN [k \in Positions |-> [height |-> k, block |-> ReadBatch(entries)[k]]]
                      ELSE <<>>)
  /\ UNCHANGED <<rpcClock, nextSlotAt, waiting, slotAt, branch, overloads, sent>>

\* callJsonRpc: the one result of the call.
AnswerSingle(c) ==
  /\ rpcCall[c].at = "sent" /\ rpcCall[c].asked = "getblockcount"
  /\ End(c, <<>>)
  /\ UNCHANGED <<rpcClock, nextSlotAt, waiting, slotAt, branch, overloads, sent>>

-----------------------------------------------------------------------------
NodeReorganises ==
  /\ branch = 0
  /\ branch' = 1
  /\ UNCHANGED <<rpcClock, nextSlotAt, waiting, slotAt, rpcCall, overloads, sent>>

RpcTick ==
  /\ rpcClock < MaxRpcClock
  /\ rpcClock' = rpcClock + 1
  /\ UNCHANGED <<nextSlotAt, waiting, slotAt, rpcCall, branch, overloads, sent>>

RpcNext ==
  \/ ReserveSlot \/ Send \/ NodeReorganises \/ RpcTick
  \/ \E c \in Callers :
       \/ Ask(c) \/ Overloaded(c) \/ Retry(c) \/ RpcFails(c)
       \/ AnswerHashes(c) \/ AnswerBlocks(c) \/ AnswerTransactions(c)
       \/ AnswerSingle(c)

RpcSpec == RpcInit /\ [][RpcNext]_rpcVars

-----------------------------------------------------------------------------
(* Properties.                                                             *)

\* Whatever the order of the entries and however the chain moves between the
\* two batches, what the gateway returns for a height is a block of that
\* height, and for a transaction id that transaction.  The comparison of the
\* hashes alone would not show a swap: both batches could be swapped alike.
ResultsAreOfTheirCalls ==
  \A c \in Callers : \A k \in DOMAIN rpcCall[c].result :
    rpcCall[c].result[k].block.height = rpcCall[c].result[k].height

\* Counted from the start the batches sent, retries and those of late timers
\* included, never get ahead of one per interval (waitForRateLimit).
RateIsKept == sent <= 1 + rpcClock \div IntervalTicks
=============================================================================
