---------------------------- MODULE BlockDecoding ----------------------------
(***************************************************************************)
(* From the bytes of a raw block to the values the indexer works with: the *)
(* parser of blocks with merge-mining proofs, the classification of output *)
(* scripts, and the way of an amount from koinu through a decimal string   *)
(* back to koinu.  Each is checked against the format it has to invert.    *)
(*                                                                         *)
(* Field widths are those of the wire.  Hashes, numbers other than counts, *)
(* and what a script pushes stay the bytes they are; a digest is a record  *)
(* of its argument, and Base58 is left out.  A reader is an offset into    *)
(* the bytes, or Bad after an error.                                       *)
(***************************************************************************)
EXTENDS Integers, Sequences

LOCAL INSTANCE SequencesExt

CONSTANTS
  SampleTxs,     \* transactions of blocks: vin and vout, see Encoded
  SampleProofs,  \* merge-mining proofs, see EncodedProof
  Decimals,      \* digits after the point, 8 in the code
  MaxKoinu       \* bound: largest amount

ASSUME DecodingConstants == Decimals \in Nat \ {0} /\ MaxKoinu \in Nat

VARIABLES
  given,    \* the input: what it stands for, and how much of it arrived
  decoded   \* the answer, as a sequence of at most one

decodingVars == <<given, decoded>>

Bad == -1
Invalid == <<>>   \* beside <<x>>, which says that x was read

-----------------------------------------------------------------------------
(* ByteReader                                                              *)

\* assertAvailable, skip
Skip(s, at, n) == IF at = Bad \/ at + n > Len(s) THEN Bad ELSE at + n
\* peek
Taken(s, at, n) == IF Skip(s, at, n) = Bad THEN <<>> ELSE SubSeq(s, at + 1, at + n)

\* The number in little-endian bytes.
LittleEndian(bytes) == FoldRight(LAMBDA b, n : b + 256 * n, bytes, 0)

\* A count and the offset behind it; lengths above 32 bits are refused.
SizeBehind(s, first, at) ==
  CASE first < 253 -> [n |-> first, at |-> at]
    [] first = 253 -> [n |-> LittleEndian(Taken(s, at, 2)), at |-> Skip(s, at, 2)]
    [] first = 254 -> [n |-> LittleEndian(Taken(s, at, 4)), at |-> Skip(s, at, 4)]
    [] OTHER       -> [n |-> 0, at |-> Bad]
ReadCompactSize(s, at) ==
  IF Skip(s, at, 1) = Bad THEN [n |-> 0, at |-> Bad] ELSE SizeBehind(s, s[at + 1], at + 1)

\* The loops: a step from offset to offset, n times; none after an error.
Repeat(Step(_), at, n) ==
  LET after[i \in 0 .. n] ==
        IF i = 0 THEN at ELSE IF after[i - 1] = Bad THEN Bad ELSE Step(after[i - 1])
  IN  after[n]

SkipItems(s, count, width) == Skip(s, count.at, width * count.n)
SkipSized(s, at) == SkipItems(s, ReadCompactSize(s, at), 1)

-----------------------------------------------------------------------------
(* Blocks.                                                                 *)

SkipHashVector(s, at) == SkipItems(s, ReadCompactSize(s, at), 32)

SkipWitness(s, items) == Repeat(LAMBDA a : SkipSized(s, a), items.at, items.n)
SkipWitnesses(s, at, inputs) ==
  Repeat(LAMBDA a : SkipWitness(s, ReadCompactSize(s, a)), at, inputs)

\* Variant: witnesses are unknown.
NeverWitness(s, count) == FALSE

\* The marker of a transaction with witnesses: no inputs, and a byte 1.
HasWitness(s, count) == count.n = 0 /\ Taken(s, count.at, 1) = <<1>>

SkipInputs(s, count) ==
  Repeat(LAMBDA a : Skip(s, SkipSized(s, Skip(s, a, 36)), 4), count.at, count.n)
SkipOutputs(s, count) == Repeat(LAMBDA a : SkipSized(s, Skip(s, a, 8)), count.at, count.n)
SkipBody(s, inputs) == SkipOutputs(s, ReadCompactSize(s, SkipInputs(s, inputs)))
SkipBodyAndWitnesses(s, inputs) == SkipWitnesses(s, SkipBody(s, inputs), inputs.n)
SkipBehindVersion(s, count) ==
  IF HasWitness(s, count)
  THEN SkipBodyAndWitnesses(s, ReadCompactSize(s, Skip(s, count.at, 1)))
  ELSE SkipBody(s, count)
SkipTransaction(s, at) ==
  Skip(s, SkipBehindVersion(s, ReadCompactSize(s, Skip(s, at, 4))), 4)

\* The coinbase of the parent block, its branches, the header of the parent.
SkipBranch(s, at) == Skip(s, SkipHashVector(s, at), 4)
ParentHeader(s, at) == [header |-> Taken(s, at, 80), at |-> Skip(s, at, 80)]
ReadAuxPow(s, at) ==
  ParentHeader(s, SkipBranch(s, SkipBranch(s, Skip(s, SkipTransaction(s, at), 32))))

NoHash == [i \in 1 .. 32 |-> 0]
MaxIndex == <<255, 255, 255, 255>>
IsCoinbaseOutpoint(txid, vout) == txid = NoHash /\ vout = MaxIndex

\* A list of items read one after the other: Item gives a value and an offset.
Appended(list, next) == [items |-> Append(list.items, next.item), at |-> next.at]
ReadNext(Item(_), list) == IF list.at = Bad THEN list ELSE Appended(list, Item(list.at))
ReadList(Item(_), count) ==
  LET after[i \in 0 .. count.n] ==
        IF i = 0 THEN [items |-> <<>>, at |-> count.at] ELSE ReadNext(Item, after[i - 1])
  IN  after[count.n]

InputOf(s, txid, vout, size) ==
  [item |-> [coinbase |-> IsCoinbaseOutpoint(txid, vout), script |-> Taken(s, size.at, size.n),
             spends |-> IF IsCoinbaseOutpoint(txid, vout) THEN <<>> ELSE <<txid, vout>>],
   at   |-> Skip(s, SkipItems(s, size, 1), 4)]
ReadInput(s, at) ==
  InputOf(s, Taken(s, at, 32), Taken(s, at + 32, 4), ReadCompactSize(s, Skip(s, at, 36)))

OutputOf(s, value, size) ==
  [item |-> [value |-> value, script |-> Taken(s, size.at, size.n)],
   at   |-> SkipItems(s, size, 1)]
ReadOutput(s, at) == OutputOf(s, Taken(s, at, 8), ReadCompactSize(s, Skip(s, at, 8)))

\* The txid is the digest of the bytes the transaction was read from.
ReadInputs(s, at) == ReadList(LAMBDA a : ReadInput(s, a), ReadCompactSize(s, at))
ReadOutputs(s, at) == ReadList(LAMBDA a : ReadOutput(s, a), ReadCompactSize(s, at))
TransactionOf(s, at, inputs, outputs) ==
  [item |-> [vin |-> inputs.items, vout |-> outputs.items,
             digestOf |-> Taken(s, at, Skip(s, outputs.at, 4) - at)],
   at   |-> Skip(s, outputs.at, 4)]
BehindVersion(s, at, inputs) == TransactionOf(s, at, inputs, ReadOutputs(s, inputs.at))
ReadTransaction(s, at) == BehindVersion(s, at, ReadInputs(s, Skip(s, at, 4)))

\* VERSION_AUXPOW_BIT is the lowest bit of the second byte of the version.
IsAuxPowVersion(s) == s[2] % 2 = 1

\* The block hash is the digest of the header; a genesis block has no parent.
ReadBlockHeader(s) ==
  LET previous == Taken(s, 4, 32)
  IN  [digestOf |-> Taken(s, 0, 80), previous |-> IF previous = NoHash THEN <<>> ELSE previous]

\* What follows the proof: assertConsumed refuses bytes behind the transactions.
BlockOf(s, proof, txs) ==
  IF txs.at # Len(s) THEN Invalid
  ELSE <<[header |-> ReadBlockHeader(s), parent |-> proof.header, tx |-> txs.items]>>
ReadTransactions(s, proof) ==
  BlockOf(s, proof, ReadList(LAMBDA a : ReadTransaction(s, a), ReadCompactSize(s, proof.at)))
DecodeRawBlock(s) ==
  ReadTransactions(s,
    IF Len(s) >= 80 /\ IsAuxPowVersion(s) THEN ReadAuxPow(s, 80)
    ELSE [header |-> <<>>, at |-> Skip(s, 0, 80)])

-----------------------------------------------------------------------------
(* Output scripts, as the bytes of their opcodes.                          *)

At(s, i) == IF i \in DOMAIN s THEN s[i] ELSE Bad
IsPlausiblePubkey(k) ==
  \/ Len(k) = 33 /\ k[1] \in {2, 3}
  \/ Len(k) = 65 /\ k[1] \in {4, 6, 7}
SmallInteger(op) == IF op = 0 THEN 0 ELSE IF op \in 81 .. 96 THEN op - 80 ELSE Bad

\* readPush: the data behind an opcode, or an error behind anything else.
NoPush(at) == [item |-> <<>>, at |-> at]
PushOf(s, at, size) ==
  IF size > 10000 THEN NoPush(Bad) ELSE [item |-> Taken(s, at, size), at |-> Skip(s, at, size)]
SizedPush(s, at, width) == PushOf(s, Skip(s, at, width), LittleEndian(Taken(s, at, width)))
ReadPush(s, op, at) ==
  CASE op \in 1 .. 75            -> PushOf(s, at, op)
    [] op = 76                   -> SizedPush(s, at, 1)
    [] op = 77                   -> SizedPush(s, at, 2)
    [] op = 78                   -> SizedPush(s, at, 4)
    [] op \in {0} \cup (81 .. 96) -> NoPush(at)
    [] OTHER                     -> NoPush(Bad)

\* readPushes
PushedBefore(item, rest) == [items |-> <<item>> \o rest.items, ok |-> rest.ok]
ReadPushes(s) ==
  LET from[at \in 0 .. Len(s)] ==
        IF at = Len(s) THEN [items |-> <<>>, ok |-> TRUE]
        ELSE LET push == ReadPush(s, s[at + 1], at + 1)
             IN  IF push.at = Bad THEN [items |-> <<>>, ok |-> FALSE]
                 ELSE PushedBefore(push.item, from[push.at])
  IN  from[0]

Address(kind, of) == [kind |-> kind, of |-> of]
KeyAddress(k) == Address("pubkeyHash", [hash160 |-> k])
Matched(type, addresses, reqSigs) == [type |-> type, addresses |-> addresses, reqSigs |-> reqSigs]
Nonstandard == Matched("nonstandard", <<>>, 0)

IsPubkeyHash(s) ==
  Len(s) = 25 /\ SubSeq(s, 1, 3) = <<118, 169, 20>> /\ SubSeq(s, 24, 25) = <<136, 172>>
IsScriptHash(s) == Len(s) = 23 /\ SubSeq(s, 1, 2) = <<169, 20>> /\ s[23] = 135
IsPubkey(s) ==
  /\ s # <<>> /\ Len(s) = s[1] + 2 /\ s[Len(s)] = 172
  /\ IsPlausiblePubkey(SubSeq(s, 2, Len(s) - 1))
IsNullData(s) == At(s, 1) = 106 /\ ReadPushes(Tail(s)).ok
\* parseMultisig: required and total are its first opcode and its last but one.
MultisigKeys(s) == ReadPushes(SubSeq(s, 2, Len(s) - 2))
AreKeys(pushes, total) ==
  /\ pushes.ok /\ Len(pushes.items) = total
  /\ \A i \in DOMAIN pushes.items : IsPlausiblePubkey(pushes.items[i])
IsMultisig(s) ==
  /\ Len(s) >= 3 /\ s[Len(s)] = 174
  /\ SmallInteger(s[Len(s) - 1]) # Bad
  /\ SmallInteger(s[1]) \in 1 .. SmallInteger(s[Len(s) - 1])
  /\ AreKeys(MultisigKeys(s), SmallInteger(s[Len(s) - 1]))
Multisig(required, keys) ==
  Matched("multisig", [i \in DOMAIN keys |-> KeyAddress(keys[i])], required)

ClassifyScriptPubKey(s) ==
  CASE IsPubkeyHash(s) -> Matched("pubkeyhash", <<Address("pubkeyHash", SubSeq(s, 4, 23))>>, 1)
    [] IsScriptHash(s) -> Matched("scripthash", <<Address("scriptHash", SubSeq(s, 3, 22))>>, 1)
    [] OTHER ->
       IF IsPubkey(s) THEN Matched("pubkey", <<KeyAddress(SubSeq(s, 2, Len(s) - 1))>>, 1)
       ELSE IF IsNullData(s) THEN Matched("nulldata", <<>>, 0)
       ELSE IF IsMultisig(s) THEN Multisig(SmallInteger(s[1]), MultisigKeys(s).items)
       ELSE Nonstandard

-----------------------------------------------------------------------------
(* Amounts.                                                                *)

Digits(n) ==
  LET from[m \in 0 .. n] == IF m < 10 THEN <<m>> ELSE Append(from[m \div 10], m % 10)
  IN  from[n]
Number(digits) == FoldLeft(LAMBDA n, d : 10 * n + d, 0, digits)
Zeros(n) == [i \in 1 .. n |-> 0]

\* formatKoinu
Padded(digits) == Zeros(Decimals - Len(digits)) \o digits
DecimalOf(negative, magnitude) ==
  [negative |-> negative, whole |-> Digits(magnitude \div 10^Decimals),
   fraction |-> Padded(Digits(magnitude % 10^Decimals))]
FormatKoinu(v) == DecimalOf(v < 0, IF v < 0 THEN -v ELSE v)

\* fromDecimalUnits, parseAmountBase: more digits than there are units are
\* refused unless they are zeros.
Scaled(whole, fraction) ==
  Number(SubSeq(whole \o fraction \o Zeros(Decimals), 1, Len(whole) + Decimals))
FromDecimalUnits(d) ==
  IF \E i \in DOMAIN d.fraction : i > Decimals /\ d.fraction[i] # 0 THEN Invalid
  ELSE <<IF d.negative THEN -Scaled(d.whole, d.fraction) ELSE Scaled(d.whole, d.fraction)>>

-----------------------------------------------------------------------------
(* The formats to be inverted: Dogecoin Core's serialization of a block,   *)
(* the standard output scripts, decimal strings.                           *)

CompactSize(n) == IF n < 253 THEN <<n>> ELSE <<253, n % 256, n \div 256>>
Sized(bytes) == CompactSize(Len(bytes)) \o bytes
Filled(n) == [i \in 1 .. n |-> 7]
Concat(parts) == FoldLeft(LAMBDA s, t : s \o t, <<>>, parts)
Each(F(_), list) == Concat([i \in DOMAIN list |-> F(list[i])])

Encoded(t) ==
  LET input(i)  == i.hash \o i.index \o Sized(i.script) \o Filled(4)
      output(o) == o.value \o Sized(o.script)
  IN  Filled(4) \o CompactSize(Len(t.vin)) \o Each(input, t.vin)
      \o CompactSize(Len(t.vout)) \o Each(output, t.vout) \o Filled(4)

\* The coinbase of the parent block may carry a witness, its items for each input.
EncodedProof(p) ==
  LET plain  == Encoded(p.coinbase)
      body   == SubSeq(plain, 5, Len(plain) - 4)
      witness == Each(LAMBDA items : CompactSize(Len(items)) \o Each(Sized, items), p.witness)
      branch(n) == CompactSize(n) \o Filled(32 * n) \o Filled(4)
  IN  (IF p.witness = <<>> THEN plain ELSE Filled(4) \o <<0, 1>> \o body \o witness \o Filled(4))
      \o Filled(32) \o branch(p.branch) \o branch(p.chain) \o Filled(80)

SampleBlocks == [proofs : {{}} \cup {{p} : p \in SampleProofs},
                 tx : {<<t>> : t \in SampleTxs} \cup (SampleTxs \X SampleTxs)]
Previous(b) == IF Len(b.tx) = 1 THEN NoHash ELSE Filled(32)
Header(b) == <<2, IF b.proofs = {} THEN 0 ELSE 1, 0, 0>> \o Previous(b) \o Filled(44)
Wires ==
  [b \in SampleBlocks |->
     Header(b) \o (IF b.proofs = {} THEN <<>> ELSE EncodedProof(CHOOSE p \in b.proofs : TRUE))
     \o CompactSize(Len(b.tx)) \o Each(Encoded, b.tx)]

BlockMeant(b) ==
  LET spent(i) == i.hash = NoHash /\ i.index = MaxIndex
      input(i) == [coinbase |-> spent(i), script |-> i.script,
                   spends |-> IF spent(i) THEN <<>> ELSE <<i.hash, i.index>>]
  IN  <<[header |-> [digestOf |-> Header(b),
                     previous |-> IF Len(b.tx) = 1 THEN <<>> ELSE Previous(b)],
         parent |-> IF b.proofs = {} THEN <<>> ELSE Filled(80),
         tx |-> [n \in DOMAIN b.tx |->
                   [vin  |-> [i \in DOMAIN b.tx[n].vin |-> input(b.tx[n].vin[i])],
                    vout |-> b.tx[n].vout, digestOf |-> Encoded(b.tx[n])]]]>>

Hash == Filled(20)
Keys33 == {<<p>> \o Filled(32) : p \in {2, 3}}
SampleKeys == Keys33 \cup {<<p>> \o Filled(64) : p \in {4, 6, 7}}
Push(data) == IF Len(data) < 76 THEN <<Len(data)>> \o data ELSE <<76, Len(data)>> \o data
SamplePushes == {<<0>>, <<81>>, <<96>>, Push(Filled(1)), Push(Filled(75)), Push(Filled(76))}

\* A script beside what it stands for.
Means(script, type, addresses, reqSigs) ==
  [kind |-> "script", script |-> script, meant |-> Matched(type, addresses, reqSigs)]
StandardScripts ==
  {Means(<<118, 169, 20>> \o Hash \o <<136, 172>>, "pubkeyhash", <<Address("pubkeyHash", Hash)>>, 1),
   Means(<<169, 20>> \o Hash \o <<135>>, "scripthash", <<Address("scriptHash", Hash)>>, 1)}
  \cup {Means(Push(k) \o <<172>>, "pubkey", <<KeyAddress(k)>>, 1) : k \in SampleKeys}
  \cup {Means(<<106>> \o p \o q, "nulldata", <<>>, 0) : p, q \in SamplePushes}
  \cup UNION {{Means(<<80 + m>> \o Each(Push, ks) \o <<80 + Len(ks), 174>>, "multisig",
                     [i \in DOMAIN ks |-> KeyAddress(ks[i])], m) : m \in 1 .. Len(ks)} :
               ks \in (SampleKeys \X SampleKeys) \cup {<<k, l, k>> : k, l \in SampleKeys}}
\* One opcode more, or more signatures than keys, and a script is none of these.
OtherScripts ==
  {Means(s.script \o <<172>>, "nonstandard", <<>>, 0) : s \in StandardScripts}
  \cup {Means(<<83>> \o Push(k) \o Push(l) \o <<82, 174>>, "nonstandard", <<>>, 0) :
           k, l \in SampleKeys}

-----------------------------------------------------------------------------
\* Blocks arrive whole, cut off anywhere, or with bytes behind them.
DecodingInit ==
  /\ given \in
       {[kind |-> "block", block |-> b, length |-> n] :
          <<b, n>> \in UNION {{b} \X (0 .. Len(Wires[b]) + 1) : b \in SampleBlocks}}
       \cup StandardScripts \cup OtherScripts
       \cup {[kind |-> "amount", value |-> v] : v \in -MaxKoinu .. MaxKoinu}
  /\ decoded = <<>>

Arrived == LET w == Wires[given.block] \o <<0>> IN SubSeq(w, 1, given.length)

Answer(kind, value) ==
  given.kind = kind /\ decoded = <<>> /\ decoded' = <<value>> /\ UNCHANGED given
DecodeBlock == Answer("block", DecodeRawBlock(Arrived))
ClassifyScript == Answer("script", ClassifyScriptPubKey(given.script))
ConvertAmount == Answer("amount", FromDecimalUnits(FormatKoinu(given.value)))

DecodingNext == DecodeBlock \/ ClassifyScript \/ ConvertAmount

DecodingSpec == DecodingInit /\ [][DecodingNext]_decodingVars

\* What the input stands for.
Meaning ==
  CASE given.kind = "script" -> given.meant
    [] given.kind = "amount" -> <<given.value>>
    [] OTHER -> IF given.length = Len(Wires[given.block]) THEN BlockMeant(given.block) ELSE Invalid

\* Decoding inverts the formats: a whole block gives back its transactions,
\* inputs, outputs and the bytes their ids are digests of, whatever proof of a
\* parent chain precedes them, with and without witnesses; a block that is cut
\* off or followed by anything is refused, not read short (decodeDogecoinRawBlock);
\* an output script is given the type, the addresses and the signatures of the
\* one template it follows (classifyScriptPubKey); an amount comes back from its
\* decimal form (formatKoinu, fromDecimalUnits).
DecodingIsExact == decoded # <<>> => decoded[1] = Meaning
=============================================================================
