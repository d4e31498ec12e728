---------------------------- MODULE CachedChain ----------------------------
(***************************************************************************)
(* What the block cache promises its users: a segment of one block chain   *)
(* that starts at some number, only ever grows at its end, and whose       *)
(* blocks are linked by their hashes.  How the segment is fetched, how     *)
(* many database writes a block takes and how often the process dies is of *)
(* no concern here.                                                        *)
(***************************************************************************)
EXTENDS Integers

CONSTANTS
  Numbers,     \* block numbers
  NoBlock,     \* a number that is not cached
  PrevHash,    \* hash of the previous block
  Linked       \* are the links of the blocks checked

VARIABLES
  base,        \* number of the first block
  next,        \* number behind the last block, 0 when nothing is cached
  chain        \* the blocks

ChainInit ==
  /\ base = 0 /\ next = 0
  /\ chain = [n \in Numbers |-> NoBlock]

\* One or more blocks become visible at the end of the segment.
Extend ==
  /\ next' > next
  /\ next # 0 => base' = base
  /\ \A n \in Numbers :
       /\ n < next => chain'[n] = chain[n]
       /\ (base' <= n /\ n < next') <=> chain'[n] # NoBlock
       /\ Linked /\ base' < n /\ n < next' => PrevHash[chain'[n]] = chain'[n - 1]

ChainSpec == ChainInit /\ [][Extend]_<<base, next, chain>>

=============================================================================
