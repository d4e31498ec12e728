----------------------------- MODULE Algorithms -----------------------------
(***************************************************************************)
(* The pure algorithms against reference definitions: the counting of core *)
(* signatures, transactions as bytes, and the choice of the nearest node.  *)
(* A behaviour picks an input: a list of transactions of a block, the list *)
(* of auto signed numbers, a transaction, or the probes of the addresses a *)
(* name stands for.                                                        *)
(***************************************************************************)
EXTENDS CoreVerification, CompactInts, NodeChoice, FiniteSets

CONSTANTS
  MaxTxs, MaxRanges, MaxNumber,   \* length of the lists, block numbers
  Txs,           \* transactions that may be in a block
  prevHash,      \* hash of the previous block
  Transactions,  \* transactions that may be sent
  Probed,        \* what may be known about the addresses: functions to probes
  old            \* address used so far

Byte == 0..(Base - 1)

\* A transaction of gen_sign: the amounts are of type uint64_t, the length of
\* the data is written as uint32_t.
IsTransaction(t) ==
  /\ t \in [to: Seq(Byte), value: Nat, fee: Nat, nonce: Nat, data: Seq(Byte)]
  /\ t.value < Values[Bytes64] /\ t.fee < Values[Bytes64] /\ t.nonce < Values[Bytes64]
  /\ Len(t.data) < Values[Bytes32]

IsProbed(p) ==
  /\ IsFiniteSet(DOMAIN p)
  /\ p \in [DOMAIN p -> [timeout: Nat, blocks: Nat]]

ASSUME InputsAssumption ==
  /\ MaxTxs \in Nat /\ MaxRanges \in Nat /\ MaxNumber \in Nat
  /\ \A t \in Transactions : IsTransaction(t)
  /\ \A p \in Probed : IsProbed(p)

VARIABLES
  txs, ranges,   \* inputs of CoreVerification
  tx,            \* a transaction to write and to read back
  probes         \* addresses a name stands for

vars == <<txs, ranges, tx, probes>>

NoTx == [to |-> <<>>, value |-> 0, fee |-> 0, nonce |-> 0, data |-> <<>>]

NoInput == txs = <<>> /\ ranges = <<>> /\ tx = NoTx /\ probes = <<>>
Init == NoInput

Next ==
  \/ /\ Len(txs) < MaxTxs /\ UNCHANGED <<ranges, tx, probes>>
     /\ ranges = <<>> /\ tx = NoTx /\ probes = <<>>
     /\ \E t \in Txs : txs' = Append(txs, t)
  \/ /\ Len(ranges) < MaxRanges /\ UNCHANGED <<txs, tx, probes>>
     /\ txs = <<>> /\ tx = NoTx /\ probes = <<>>
     /\ \E v \in (0..MaxNumber) \X (0..MaxNumber) : ranges' = Append(ranges, v)
  \/ /\ NoInput /\ UNCHANGED <<txs, ranges, probes>>
     /\ tx' \in Transactions
  \/ /\ NoInput /\ UNCHANGED <<txs, ranges, tx>>
     /\ probes' \in Probed

Spec == Init /\ [][Next]_vars

Looked == {i \in 1..Len(txs) : i <= SignTxLimit}
Signs == {i \in Looked : txs[i].isSignBlockTx}

\* Every sign transaction that is looked at comes from a core, from a different
\* one each, and is about the previous block.
AllSignsGood ==
  \A i \in Signs : /\ txs[i].fromAddress = txs[i].toAddress
                   /\ txs[i].fromAddress \in ToSet(Cores)
                   /\ txs[i].data = prevHash
                   /\ \A j \in Signs : j < i => txs[j].fromAddress # txs[i].fromAddress

AllCoresDistinct ==
  \A i \in Looked : /\ txs[i].fromAddress \in ToSet(Cores)
                    /\ \A j \in Looked : j < i => txs[j].fromAddress # txs[i].fromAddress

\* core_addr_verification returns the number of distinct cores that signed the
\* previous block, -1 as soon as one sign transaction looked at is not in order
\* or there is no transaction at all: a core signing twice is never counted
\* twice, and one forged signature spoils the block.  A sign block passes
\* exactly when all of its addresses looked at are distinct cores.
\* auto_signed_block accepts exactly the numbers of the listed closed ranges, a
\* range whose end is not above its start being the start alone.
CountsDistinctCores ==
  /\ BlockVerification(txs, prevHash) =
       IF txs # <<>> /\ AllSignsGood
       THEN Cardinality({txs[i].fromAddress : i \in Signs})
       ELSE -1
  /\ SignBlockVerification(txs) =
       IF txs # <<>> /\ AllCoresDistinct
       THEN Cardinality({txs[i].fromAddress : i \in Looked})
       ELSE -1
  /\ \A n \in 0..MaxNumber :
       AutoSignedBlock(ranges, n) <=>
         \E i \in 1..Len(ranges) : n \in {ranges[i][1]} \cup (ranges[i][1]..ranges[i][2])

\* A transaction that was built by gen_sign is read back with the same receiver,
\* amounts, nonce and data, whatever bytes these begin with, by send-tx with the
\* field "transaction" - exactly when it carries data.  Without data its last
\* byte is the length 0, and read_compact_int refuses an integer of one byte at
\* the end of the text.
TransactionIsReadBack ==
  tx # NoTx =>
    LET parsed == parse_tansaction(gen_sign(tx), Len(tx.to))
    IN  /\ parsed.ok <=> tx.data # <<>>
        /\ parsed.ok => parsed = [ok |-> TRUE, to |-> tx.to, value |-> tx.value, fee |-> tx.fee,
                                  nonce |-> tx.nonce, data_size |-> Len(tx.data), data |-> tx.data]

\* Torrents that answered the question for their number of blocks, fewer than
\* Slack behind the longest chain seen.
UpToDate ==
  {a \in DOMAIN probes : /\ probes[a].timeout < Slow
                         /\ \A b \in DOMAIN probes :
                              probes[b].timeout < Slow => probes[a].blocks > probes[b].blocks - Slack
                         /\ probes[a].blocks > 0}

LongEnough == \E a \in DOMAIN probes : probes[a].timeout < Slow /\ probes[a].blocks >= Slack

\* The torrent that is chosen is the fastest of those up to date, so a fast one
\* that lags does not win; while all chains are shorter than Slack none is
\* chosen.  The proxy is a reachable one, if any is.
NearestUpToDate ==
  \A sorted \in Sorted(probes) :
    LET tor == BestTor(sorted, probes, old)
        proxy == BestProxy(sorted, old)
    IN  /\ IF LongEnough
           THEN tor \in UpToDate /\ \A a \in UpToDate : probes[tor].timeout <= probes[a].timeout
           ELSE tor = old
        /\ (\E a \in DOMAIN probes : probes[a].timeout < Unreachable) => probes[proxy].timeout < Unreachable

=============================================================================
