------------------------- MODULE CoreVerification -------------------------
(***************************************************************************)
(* core_addr_verification of cache/blocks_cache.cpp as an operator: how    *)
(* many cores have put a sign transaction for the previous block into a    *)
(* block, or into a sign block; and the list of auto signed numbers.       *)
(***************************************************************************)
EXTENDS Integers, Sequences, SequencesExt

CONSTANTS
  Cores,          \* settings::system::cores, a sequence of addresses
  SignTxLimit     \* transactions that are looked at

ASSUME CoresAssumption == Cores \in Seq(ToSet(Cores)) /\ SignTxLimit \in Nat \ {0}

\* How many of the transactions are looked at.
LookedAt(txs) == IF Len(txs) < SignTxLimit THEN Len(txs) ELSE SignTxLimit

\* State of the loop: the result of the last transaction, the cores that have
\* not signed yet, and whether the loop was left.
Fail(acc) == [acc EXCEPT !.succ = FALSE, !.left = TRUE]
Take(acc, core) == [acc EXCEPT !.succ = TRUE, !.cores = RemoveFirst(acc.cores, core)]

\* Mutant: which block is signed does not matter.
TxStepAnyHash(acc, tx, prev) ==
  IF acc.left THEN acc
  ELSE IF ~tx.isSignBlockTx THEN [acc EXCEPT !.succ = TRUE]
  ELSE IF tx.toAddress # tx.fromAddress THEN Fail(acc)
  ELSE IF ~Contains(acc.cores, tx.fromAddress) THEN Fail(acc)
  ELSE Take(acc, tx.fromAddress)

\* One transaction of a block: other transactions are passed over; a sign
\* transaction must be sent by a core to itself, at most one per core, and
\* carry the hash of the previous block.
TxStep(acc, tx, prev) ==
  IF acc.left THEN acc
  ELSE IF ~tx.isSignBlockTx THEN [acc EXCEPT !.succ = TRUE]
  ELSE IF tx.toAddress # tx.fromAddress THEN Fail(acc)
  ELSE IF ~Contains(acc.cores, tx.fromAddress) THEN Fail(acc)
  ELSE IF tx.data # prev THEN Fail(Take(acc, tx.fromAddress))
  ELSE Take(acc, tx.fromAddress)

\* One transaction of a sign block: only the address is looked at.
SignTxStep(acc, tx) ==
  IF acc.left THEN acc
  ELSE IF Contains(acc.cores, tx.fromAddress) THEN Take(acc, tx.fromAddress)
  ELSE Fail(acc)

Start == [succ |-> FALSE, cores |-> Cores, left |-> FALSE]
Result(acc) == IF acc.succ THEN Len(Cores) - Len(acc.cores) ELSE -1

\* core_addr_verification(BlockInfo, prev_hash) of a block that is neither a
\* state block, nor a forging block, nor auto signed.
BlockVerification(txs, prev) ==
  LET loop[i \in 0..LookedAt(txs)] == IF i = 0 THEN Start ELSE TxStep(loop[i - 1], txs[i], prev)
  IN  Result(loop[LookedAt(txs)])

\* core_addr_verification(SignBlockInfo)
SignBlockVerification(txs) ==
  LET loop[i \in 0..LookedAt(txs)] == IF i = 0 THEN Start ELSE SignTxStep(loop[i - 1], txs[i])
  IN  Result(loop[LookedAt(txs)])

\* auto_signed_block over a list of <<first, last>> pairs.
AutoSignedBlock(ranges, n) ==
  \E i \in 1..Len(ranges) :
    LET v == ranges[i]
    IN  v[1] = n \/ (v[1] < v[2] /\ v[1] < n /\ n <= v[2])

=============================================================================
