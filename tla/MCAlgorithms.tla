---------------------------- MODULE MCAlgorithms ----------------------------
(***************************************************************************)
(* All inputs within bounds: every list of up to MaxTxs transactions with  *)
(* two cores, every two ranges, transactions around the limits of the      *)
(* encoding, and up to three nodes.                                        *)
(***************************************************************************)
EXTENDS Algorithms

CONSTANTS a1, a2, other, otherHash, n1, n2, n3

Addresses == {a1, a2, other}
TwoCores == <<a1, a2>>

Tx(s, f, t, d) == [isSignBlockTx |-> s, fromAddress |-> f, toAddress |-> t, data |-> d]

MCTxs == {Tx(TRUE, f, f, d) : f \in Addresses, d \in {prevHash, otherHash}}
           \cup {Tx(TRUE, a1, a2, prevHash), Tx(FALSE, other, a1, otherHash)}

\* Zero and both sides of every limit of the encoding.
Edges ==
  {0, 1, Limit, Limit + 1, Values[Bytes16] - 1, Values[Bytes16],
   Values[Bytes32] - 1, Values[Bytes32], Values[Bytes64] - 1}

\* Data of up to one byte more than one byte can count.
MCTransactions ==
  {[to |-> <<Mark16>>, value |-> v, fee |-> f, nonce |-> n, data |-> [i \in 1..d |-> b]] :
     v \in Edges, f \in Edges, n \in Edges, d \in 0..(Limit + 1), b \in {0, Mark64}}

Probes == [timeout: {1, 2, Slow, Unreachable}, blocks: {0, 1, Slack - 1, Slack, Slack + 1, 2 * Slack}]

MCProbed == UNION {[nodes -> Probes] : nodes \in SUBSET {n1, n2, n3}}
=============================================================================
