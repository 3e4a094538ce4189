----------------------------- MODULE MCPipeline -----------------------------
(***************************************************************************)
(* The stages, raw sync, the read-ahead, the boot and the decoding of      *)
(* blocks, checked side by side: they share no state beyond what each      *)
(* module abstracts of the others, so a behaviour is one of one of them.   *)
(***************************************************************************)
EXTENDS CorePipeline, RawBlockSync, BlockPrefetcher, SchemaMigrations, BlockDecoding

VARIABLE part  \* the component the behaviour is about

allVars == <<part, pipeVars, syncVars, prefetchVars, migrationVars, decodingVars>>

\* A coinbase and a spend whose inputs name the zero hash and another one, with
\* scripts whose lengths take one byte and three; proofs with and without
\* witnesses and chain branches.
Spread(n) == [i \in 1 .. n |-> i % 5]
Input(hash, index, n) == [hash |-> hash, index |-> index, script |-> Spread(n)]
Output(n) == [value |-> Spread(8), script |-> Spread(n)]
CoinbaseTx == [vin |-> <<Input(NoHash, MaxIndex, 4)>>, vout |-> <<Output(25)>>]
SpendTx == [vin  |-> <<Input(Spread(32), Spread(4), 0), Input(NoHash, Spread(4), 253)>>,
            vout |-> <<Output(252), Output(0)>>]
MCTxs == {CoinbaseTx, SpendTx}
Proof(witness, chain) ==
  [coinbase |-> CoinbaseTx, witness |-> witness, branch |-> 1, chain |-> chain]
MCProofs == {Proof(<<>>, 0), Proof(<< <<Spread(32)>> >>, 2)}

\* Bound: a second death only where a death undoes the least and nothing is refused.
FewBootDeaths == bootDeaths > 1 => database = "mysql" /\ meta.filled = {}

Init ==
  /\ part \in {"stages", "sync", "prefetch", "boot", "decode"}
  /\ PipeInit /\ SyncInit /\ PrefetchInit /\ MigrationInit
  /\ part # "stages" => config.syncTail = NoTail
  /\ part # "boot" => database = "sqlite" /\ meta.keys = "none" /\ source = {}
  /\ IF part = "decode" THEN DecodingInit
     ELSE given = [kind |-> "amount", value |-> 0] /\ decoded = <<>>

Next ==
  \/ /\ part = "stages" /\ PipeNext
     /\ UNCHANGED <<part, syncVars, prefetchVars, migrationVars, decodingVars>>
  \/ /\ part = "sync" /\ SyncNext
     /\ UNCHANGED <<part, pipeVars, prefetchVars, migrationVars, decodingVars>>
  \/ /\ part = "prefetch" /\ PrefetchNext
     /\ UNCHANGED <<part, pipeVars, syncVars, migrationVars, decodingVars>>
  \/ /\ part = "boot" /\ MigrationNext /\ FewBootDeaths'
     /\ UNCHANGED <<part, pipeVars, syncVars, prefetchVars, decodingVars>>
  \/ /\ part = "decode" /\ DecodingNext
     /\ UNCHANGED <<part, pipeVars, syncVars, prefetchVars, migrationVars>>

\* The loop of the indexer runs, every batch of raw sync goes on, every process
\* that boots takes its next step, and views insert their rows.
Spec ==
  /\ Init /\ [][Next]_allVars
  /\ WF_pipeVars(part = "stages" /\ PipeStep)
  /\ WF_syncVars(part = "sync" /\ SyncStep)
  /\ \A p \in Booters : WF_migrationVars(part = "boot" /\ BootStep(p))
  /\ WF_migrationVars(part = "boot" /\ FeedView)

\* The stages reach the tip of the node (ReachesTheTip).
StagesReachTheTip == part = "stages" => ReachesTheTip

\* Raw sync stores its window once failures end (SyncCompletes).
RawSyncCompletes == part = "sync" => SyncCompletes

\* Every boot of a current release gets to serve, unless there are rows a migration
\* refuses to lose (EveryBootCompletes).
BootsComplete == part = "boot" => EveryBootCompletes
=============================================================================
