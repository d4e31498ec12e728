------------------------- MODULE BlocksCache_proofs -------------------------
(***************************************************************************)
(* Proofs about the block cache and the handlers that read it.             *)
(*                                                                         *)
(* The worker: its type invariant, and that whatever the torrents answer,  *)
(* whichever Put fails and wherever the process dies, the blocks below the *)
(* stored next_block are complete, linked and signed only when vouched     *)
(* for.                                                                    *)
(*                                                                         *)
(* The handlers: what they answer stays right, and what was cached and     *)
(* signed when they were asked is not refused.                             *)
(***************************************************************************)
EXTENDS CacheReaders, SequenceTheorems, TLAPS

(***************************************************************************)
(* The inductive invariant.                                                *)
(***************************************************************************)

\* The worker is in the middle of a batch of block dumps.
InBatch ==
  \/ pc \in {"block"} \cup PutStates
  \/ pc \in MarkStates /\ marks[1].extra = NoBlock

\* Number of the block at hand; after the last Put of save_block the counter has
\* already moved on.
Current == IF pc = "put_next" THEN m_nextblock - 1 ELSE m_nextblock

OnChain(b, n) == \E c \in Chains : n \in 1..Len(c) /\ c[n] = b

\* Blocks the worker (or, without one, the database) relies on.
Upto == IF db_open THEN m_nextblock ELSE db_next

NextInv ==
  /\ db_open => m_nextblock >= db_next
  /\ Version = 2 /\ pc \notin {"off", "spawned", "stopped"} => m_nextblock >= 1
  /\ db_next # 0 => first >= 1
  /\ db_open /\ m_nextblock # 0 => first >= 1
  /\ pc = "off" => ~db_open
  /\ pc = "v1" => Version = 1

MarksInv ==
  pc \in MarkStates =>
    /\ marks # <<>>
    /\ \A i \in 1..Len(marks) : (marks[i].extra = NoBlock) <=> (marks[1].extra = NoBlock)

BatchInv ==
  InBatch =>
    /\ iter <= Len(hashes) + 1
    /\ \A i \in 1..Len(hashes) : /\ hashes[i].number = Current + (i - iter)
                                 /\ OnChain(hashes[i].hash, hashes[i].number)

PutInv ==
  pc \in PutStates =>
    /\ iter <= Len(hashes) /\ iter <= Len(dumps)
    /\ Version = 2 /\ CheckedBlock =>
         bi_prev # NoBlock /\ dumps[iter] \in Blocks /\ PrevHash[dumps[iter]] = bi_prev
    /\ pc # "put_dump" => dump[Current] = dumps[iter]
    /\ pc \in {"put_data", "put_next"} => index[hashes[iter].hash] = Current

PrevInv ==
  Version = 2 /\ InBatch /\ bi_prev # NoBlock =>
    /\ Verification /\ Current > 1
    /\ db_open /\ Current > first => bi_prev = dump[Current - 1]

IndexInv == \A b \in Blocks : index[b] # 0 => OnChain(b, index[b])

Complete(n) ==
  dump[n] # NoBlock /\ data[n] # "none" /\ \E b \in Blocks : index[b] = n

StoreInv ==
  \A n \in Numbers : first <= n /\ n < Upto =>
    /\ Complete(n)
    /\ Version = 2 /\ Verification /\ n > first =>
         dump[n] \in Blocks /\ PrevHash[dump[n]] = dump[n - 1]

IInv ==
  /\ TypeOK /\ NextInv /\ MarksInv /\ BatchInv
  /\ PutInv /\ PrevInv /\ IndexInv /\ StoreInv

(***************************************************************************)
(* Operators.                                                              *)
(***************************************************************************)

\* What a torrent returns for a number is a block of a chain at that number.
LEMMA TorrentBlocksOnChain ==
  ASSUME NEW n \in Int, NEW b \in TorrentBlocks(n), b # NoBlock
  PROVE  b \in Blocks /\ OnChain(b, n) /\ n \in 1..MaxBlock
<1>1. PICK c \in Chains : n \in 1..Len(c) /\ b = c[n]
  BY DEF TorrentBlocks
<1>2. c \in Seq(Blocks) /\ Len(c) \in 1..MaxBlock /\ MaxBlock \in Nat
  BY ChainsAssumption
<1>. QED BY <1>1, <1>2 DEF OnChain

\* get_block returns a cached or a torrent's block, or none.
LEMMA GetBlockType ==
  ASSUME TypeOK, NEW n \in Numbers, NEW b \in GetBlock(n)
  PROVE  b \in Blocks \cup {Junk, NoBlock}
<1>1. CASE dump[n] # NoBlock
  BY <1>1 DEF GetBlock, TypeOK, StoreType
<1>2. CASE dump[n] = NoBlock
  <2>1. b \in TorrentBlocks(n)
    BY <1>2 DEF GetBlock
  <2>2. n \in Int
    BY ChainsAssumption DEF Numbers
  <2>. QED BY <2>1, <2>2, TorrentBlocksOnChain
<1>. QED BY <1>1, <1>2

\* The record of a header has its type.
LEMMA EntryType ==
  ASSUME NEW n \in Numbers, NEW b \in Blocks \cup {NoBlock}, NEW x \in Seq(Extras)
  PROVE  [number |-> n, hash |-> b, extra |-> x] \in Entry
BY DEF Entry

\* A reply to get-blocks lists blocks of a chain under their numbers.
LEMMA HeadersType ==
  ASSUME NEW c \in Chains, NEW n \in Nat \ {0}, NEW k \in Nat \ {0}, n + k - 1 <= Len(c)
  PROVE  /\ Headers(c, n, k) \in Seq(Entry)
         /\ Len(Headers(c, n, k)) = k
         /\ \A i \in 1..k : /\ Headers(c, n, k)[i].number = n + i - 1
                            /\ OnChain(Headers(c, n, k)[i].hash, Headers(c, n, k)[i].number)
<1>1. c \in Seq(Blocks) /\ Len(c) \in 1..MaxBlock /\ MaxBlock \in Nat
  BY ChainsAssumption
<1>2. ASSUME NEW i \in 1..k
      PROVE  /\ n + i - 1 \in 1..Len(c)
             /\ n + i - 1 \in Numbers
             /\ c[n + i - 1] \in Blocks
             /\ PrevExtras[c[n + i - 1]] \in Seq(Extras)
             /\ Headers(c, n, k)[i] = [number |-> n + i - 1, hash |-> c[n + i - 1],
                                       extra |-> PrevExtras[c[n + i - 1]]]
  <2>1. n + i - 1 \in 1..Len(c) /\ n + i - 1 \in Numbers
    BY <1>1 DEF Numbers
  <2>2. c[n + i - 1] \in Blocks
    BY <1>1, <2>1
  <2>3. PrevExtras[c[n + i - 1]] \in Seq(Extras)
    BY <2>2, BlocksAssumption
  <2>. QED BY <2>1, <2>2, <2>3 DEF Headers
<1>3. ASSUME NEW i \in 1..k PROVE Headers(c, n, k)[i] \in Entry
  <2>1. c[n + i - 1] \in Blocks \cup {NoBlock}
    BY <1>2
  <2>2. [number |-> n + i - 1, hash |-> c[n + i - 1],
         extra |-> PrevExtras[c[n + i - 1]]] \in Entry
    BY <2>1, <1>2 DEF Entry
  <2>. QED BY <1>2, <2>2
<1>4. Headers(c, n, k) \in [1..k -> Entry]
  BY <1>3 DEF Headers
<1>5. Headers(c, n, k) \in Seq(Entry) /\ Len(Headers(c, n, k)) = k
  BY <1>4
<1>6. ASSUME NEW i \in 1..k
      PROVE  /\ Headers(c, n, k)[i].number = n + i - 1
             /\ OnChain(Headers(c, n, k)[i].hash, Headers(c, n, k)[i].number)
  <2>1. /\ Headers(c, n, k)[i].number = n + i - 1
        /\ Headers(c, n, k)[i].hash = c[n + i - 1]
    BY DEF Headers
  <2>2. OnChain(c[n + i - 1], n + i - 1)
    BY <1>2 DEF OnChain
  <2>. QED BY <2>1, <2>2
<1>. QED BY <1>5, <1>6

\* The dumps of a reply.
LEMMA DumpRepliesType ==
  ASSUME NEW hs, NEW k \in Nat, NEW d \in DumpReplies(hs, k)
  PROVE  d \in Seq(Blocks \cup {Junk}) /\ Len(d) = k
BY DEF DumpReplies

\* The first block is never number 0.
LEMMA FirstBlocksType == FirstBlocks \subseteq Nat \ {0}
<1>. SUFFICES ASSUME NEW n \in FirstBlocks, n # 1 PROVE n \in Nat \ {0}
  OBVIOUS
<1>1. PICK c \in Chains : \E h \in 1..Len(c) :
        n = IF InitCount = 0 THEN 1 ELSE IF h > InitCount THEN h - InitCount ELSE h
  BY DEF FirstBlocks
<1>2. Len(c) \in Nat /\ InitCount \in Nat
  BY ChainsAssumption, SettingsAssumption
<1>. QED BY <1>1, <1>2

(***************************************************************************)
(* Every step preserves the invariant.                                     *)
(***************************************************************************)

\* The process ends: only the database is left.
LEMMA ProcessEndsStep ==
  ASSUME IInv, ProcessEnds, crashes' \in Nat
  PROVE  IInv'
<1>1. TypeOK'
  <2>1. StoreType'
    BY DEF IInv, TypeOK, StoreType, ProcessEnds, store
  <2>2. MemoryType'
    <3>1. 0 \in Numbers
      BY ChainsAssumption DEF Numbers
    <3>. QED BY <3>1 DEF MemoryType, ProcessEnds
  <2>3. BatchType'
    BY DEF BatchType, ProcessEnds
  <2>4. GhostType'
    BY DEF IInv, TypeOK, GhostType, ProcessEnds
  <2>5. pc' \in Pcs /\ count_blocks' \in Nat /\ marks' \in Seq(Mark)
    BY DEF ProcessEnds, Pcs
  <2>. QED BY <2>1, <2>2, <2>3, <2>4, <2>5 DEF TypeOK
<1>2. NextInv'
  BY DEF IInv, TypeOK, StoreType, MemoryType, NextInv, ProcessEnds, store
<1>3. MarksInv' /\ BatchInv' /\ PutInv' /\ PrevInv'
  BY DEF MarksInv, BatchInv, PutInv, PrevInv, InBatch, MarkStates, PutStates, ProcessEnds
<1>4. IndexInv'
  BY DEF IInv, IndexInv, ProcessEnds, store
<1>5. StoreInv'
  BY ChainsAssumption DEF IInv, TypeOK, StoreType, MemoryType, NextInv, StoreInv, Complete, Upto, ProcessEnds, store, Numbers
<1>. QED BY <1>1, <1>2, <1>3, <1>4, <1>5 DEF IInv

\* The worker ends; what it has stored stays.
LEMMA WorkerEndsStep ==
  ASSUME IInv, WorkerEnds
  PROVE  IInv'
<1>1. TypeOK'
  <2>1. StoreType' /\ GhostType'
    BY DEF IInv, TypeOK, StoreType, GhostType, WorkerEnds, store, ghosts
  <2>2. MemoryType'
    BY DEF IInv, TypeOK, MemoryType, WorkerEnds
  <2>3. BatchType'
    BY DEF BatchType, WorkerEnds
  <2>4. pc' \in Pcs /\ count_blocks' \in Nat /\ marks' \in Seq(Mark)
    BY DEF WorkerEnds, Pcs
  <2>. QED BY <2>1, <2>2, <2>3, <2>4 DEF TypeOK
<1>2. NextInv'
  BY DEF IInv, NextInv, WorkerEnds, store, ghosts
<1>3. MarksInv' /\ BatchInv' /\ PutInv' /\ PrevInv'
  BY DEF MarksInv, BatchInv, PutInv, PrevInv, InBatch, MarkStates, PutStates, WorkerEnds
<1>4. IndexInv'
  BY DEF IInv, IndexInv, WorkerEnds, store
<1>5. StoreInv'
  BY DEF IInv, StoreInv, Complete, Upto, WorkerEnds, store, ghosts
<1>. QED BY <1>1, <1>2, <1>3, <1>4, <1>5 DEF IInv

\* The batch is left; the counters and the database are as they were.
LEMMA LeaveBatchStep ==
  ASSUME IInv, InBatch, LeaveBatch,
         UNCHANGED <<store, memory, count_blocks, marks, first, seen, crashes>>,
         prev_ext_data' \in Status \cup {"none"}, fails' \in Nat
  PROVE  IInv'
<1>1. TypeOK'
  <2>1. StoreType' /\ MemoryType'
    BY DEF IInv, TypeOK, StoreType, MemoryType, store, memory
  <2>2. hashes' \in Seq(Entry)
    <3>1. hashes \in Seq(Entry) /\ iter - 1 \in Int /\ iter - 1 <= Len(hashes)
      BY DEF IInv, TypeOK, BatchType, BatchInv
    <3>2. \A i \in 1..(iter - 1) : hashes[i] \in Entry
      BY <3>1
    <3>. QED BY <3>1, <3>2, SubSeqProperties DEF LeaveBatch
  <2>3. BatchType'
    BY <2>2 DEF BatchType, LeaveBatch
  <2>4. GhostType' /\ pc' \in Pcs /\ count_blocks' \in Nat /\ marks' \in Seq(Mark)
    BY DEF IInv, TypeOK, GhostType, LeaveBatch, Pcs
  <2>. QED BY <2>1, <2>3, <2>4 DEF TypeOK
<1>2. NextInv'
  BY DEF IInv, NextInv, InBatch, PutStates, MarkStates, LeaveBatch, store, memory
<1>3. MarksInv' /\ BatchInv' /\ PutInv' /\ PrevInv'
  BY DEF MarksInv, BatchInv, PutInv, PrevInv, InBatch, MarkStates, PutStates, LeaveBatch
<1>4. IndexInv'
  BY DEF IInv, IndexInv, store
<1>5. StoreInv'
  BY DEF IInv, StoreInv, Complete, Upto, store, memory
<1>. QED BY <1>1, <1>2, <1>3, <1>4, <1>5 DEF IInv

\* Start and stop.
LEMMA StartStep ==
  ASSUME IInv, Start
  PROVE  IInv'
<1>1. TypeOK'
  <2>1. StoreType' /\ BatchType' /\ GhostType'
    BY DEF IInv, TypeOK, StoreType, BatchType, GhostType, Start, store, batch, ghosts
  <2>2. MemoryType'
    BY DEF IInv, TypeOK, StoreType, MemoryType, Start
  <2>3. pc' \in Pcs /\ count_blocks' \in Nat /\ marks' \in Seq(Mark)
    BY DEF IInv, TypeOK, Start, Pcs
  <2>. QED BY <2>1, <2>2, <2>3 DEF TypeOK
<1>2. NextInv'
  BY DEF IInv, TypeOK, StoreType, NextInv, Start, store, ghosts
<1>3. MarksInv' /\ BatchInv' /\ PutInv' /\ PrevInv'
  BY DEF MarksInv, BatchInv, PutInv, PrevInv, InBatch, MarkStates, PutStates, Start
<1>4. IndexInv'
  BY DEF IInv, IndexInv, Start, store
<1>5. StoreInv'
  BY DEF IInv, NextInv, StoreInv, Complete, Upto, Start, store, ghosts
<1>. QED BY <1>1, <1>2, <1>3, <1>4, <1>5 DEF IInv

\* stop() clears a flag; the worker and the database stay as they are.
LEMMA StopStep ==
  ASSUME IInv, Stop
  PROVE  IInv'
<1>1. TypeOK'
  <2>1. StoreType' /\ BatchType' /\ GhostType'
    BY DEF IInv, TypeOK, StoreType, BatchType, GhostType, Stop, store, batch, ghosts
  <2>2. MemoryType'
    BY DEF IInv, TypeOK, MemoryType, Stop
  <2>3. pc' \in Pcs /\ count_blocks' \in Nat /\ marks' \in Seq(Mark)
    BY DEF IInv, TypeOK, Stop
  <2>. QED BY <2>1, <2>2, <2>3 DEF TypeOK
<1>2. NextInv' /\ MarksInv'
  BY DEF IInv, NextInv, MarksInv, Stop, store, ghosts
<1>3. BatchInv'
  BY DEF IInv, BatchInv, InBatch, Current, Stop, batch
<1>4. PutInv'
  BY DEF IInv, PutInv, CheckedBlock, BlockNumber, Current, Stop, store, batch
<1>5. PrevInv'
  BY DEF IInv, PrevInv, InBatch, Current, Stop, store, batch, ghosts
<1>6. IndexInv' /\ StoreInv'
  BY DEF IInv, IndexInv, StoreInv, Complete, Upto, Stop, store, ghosts
<1>. QED BY <1>1, <1>2, <1>3, <1>4, <1>5, <1>6 DEF IInv

\* The first block is chosen: nothing is cached below it.
LEMMA WorkerProcStep ==
  ASSUME IInv, WorkerProc
  PROVE  IInv'
<1>1. m_nextblock' \in Nat /\ first' \in Nat
  BY FirstBlocksType DEF IInv, TypeOK, MemoryType, GhostType, WorkerProc
<1>2. TypeOK'
  <2>1. StoreType' /\ BatchType' /\ GhostType'
    BY <1>1 DEF IInv, TypeOK, StoreType, BatchType, GhostType, WorkerProc, store, batch
  <2>2. MemoryType'
    BY <1>1 DEF IInv, TypeOK, MemoryType, WorkerProc
  <2>3. pc' \in Pcs /\ count_blocks' \in Nat /\ marks' \in Seq(Mark)
    BY DEF IInv, TypeOK, WorkerProc, Pcs
  <2>. QED BY <2>1, <2>2, <2>3 DEF TypeOK
<1>3. NextInv' /\ StoreInv'
  <2>1. CASE Version = 2 /\ m_nextblock = 0
    <3>1. m_nextblock' \in Nat \ {0}
      BY <2>1, FirstBlocksType DEF WorkerProc
    <3>2. db_open => db_next = 0 /\ first' = m_nextblock'
      BY <2>1 DEF IInv, TypeOK, StoreType, NextInv, WorkerProc
    <3>3. NextInv'
      BY <3>1, <3>2 DEF IInv, NextInv, WorkerProc, store
    <3>4. CASE db_open
      <4>1. db_open' /\ first' = m_nextblock'
        BY <3>2, <3>4 DEF WorkerProc
      <4>2. ASSUME NEW n \in Numbers PROVE ~(first' <= n /\ n < Upto')
        BY <4>1, <3>1, ChainsAssumption DEF Upto, Numbers
      <4>. QED BY <4>2, <3>3 DEF StoreInv
    <3>5. CASE ~db_open
      BY <3>3, <3>5 DEF IInv, StoreInv, Complete, Upto, WorkerProc, store
    <3>. QED BY <3>4, <3>5, <3>3
  <2>2. CASE ~(Version = 2 /\ m_nextblock = 0)
    <3>1. UNCHANGED <<m_nextblock, first, db_open, store>> /\ pc' = "loop"
      BY <2>2 DEF WorkerProc
    <3>. QED BY <2>2, <3>1 DEF IInv, TypeOK, MemoryType, NextInv, StoreInv, Complete, Upto, store
  <2>. QED BY <2>1, <2>2
<1>4. MarksInv' /\ BatchInv' /\ PutInv' /\ PrevInv'
  BY DEF MarksInv, BatchInv, PutInv, PrevInv, InBatch, MarkStates, PutStates, WorkerProc
<1>5. IndexInv'
  BY DEF IInv, IndexInv, WorkerProc, store
<1>. QED BY <1>2, <1>3, <1>4, <1>5 DEF IInv

\* Steps of the loop head change neither the database nor the counters.
LEMMA OutsideBatchStep ==
  ASSUME IInv, TypeOK', UNCHANGED <<store, memory, first>>,
         pc \notin {"off", "spawned", "stopped"}, pc' \in {"loop", "extras"}
  PROVE  IInv'
<1>1. NextInv'
  BY DEF IInv, NextInv, store, memory
<1>2. MarksInv' /\ BatchInv' /\ PutInv' /\ PrevInv'
  BY DEF MarksInv, BatchInv, PutInv, PrevInv, InBatch, MarkStates, PutStates
<1>3. IndexInv' /\ StoreInv'
  BY DEF IInv, IndexInv, StoreInv, Complete, Upto, store, memory
<1>. QED BY <1>1, <1>2, <1>3 DEF IInv

\* The tip and its sign blocks are asked for between two batches.
LEMMA FetchTipStep ==
  ASSUME IInv, FetchTip
  PROVE  IInv'
<1>1. PICK c \in Chains : \E h \in 1..Len(c) :
        hashes' = <<[number |-> h, hash |-> NoBlock, extra |-> NextExtras[c[h]]]>>
  BY DEF FetchTip
<1>2. PICK h \in 1..Len(c) :
        hashes' = <<[number |-> h, hash |-> NoBlock, extra |-> NextExtras[c[h]]]>>
  BY <1>1
<1>3. h \in Numbers /\ c[h] \in Blocks /\ NextExtras[c[h]] \in Seq(Extras)
  <2>1. c \in Seq(Blocks) /\ Len(c) \in 1..MaxBlock /\ MaxBlock \in Nat
    BY ChainsAssumption
  <2>2. h \in Numbers /\ c[h] \in Blocks
    BY <2>1 DEF Numbers
  <2>. QED BY <2>2, BlocksAssumption
<1>4. [number |-> h, hash |-> NoBlock, extra |-> NextExtras[c[h]]] \in Entry
  BY <1>3 DEF Entry
<1>5. TypeOK'
  <2>1. hashes' \in Seq(Entry)
    BY <1>2, <1>4
  <2>2. BatchType'
    BY <2>1 DEF IInv, TypeOK, BatchType, FetchTip
  <2>3. StoreType' /\ MemoryType' /\ GhostType'
    BY DEF IInv, TypeOK, StoreType, MemoryType, GhostType, FetchTip, store, memory, ghosts
  <2>. QED BY <2>2, <2>3 DEF IInv, TypeOK, FetchTip, Pcs
<1>. QED BY <1>5, OutsideBatchStep DEF FetchTip, ghosts

\* Without sign blocks to load the worker returns to the head of its loop.
LEMMA NoExtrasStep ==
  ASSUME IInv, NoExtras
  PROVE  IInv'
<1>1. TypeOK'
  <2>1. BatchType'
    BY DEF IInv, TypeOK, BatchType, NoExtras
  <2>2. StoreType' /\ MemoryType' /\ GhostType'
    BY DEF IInv, TypeOK, StoreType, MemoryType, GhostType, NoExtras, store, memory, ghosts
  <2>. QED BY <2>1, <2>2 DEF IInv, TypeOK, NoExtras, Pcs
<1>. QED BY <1>1, OutsideBatchStep DEF NoExtras, ghosts

\* The version 1 routine has reached the counted tip.
LEMMA V1DoneStep ==
  ASSUME IInv, V1Done
  PROVE  IInv'
<1>1. TypeOK'
  <2>1. StoreType' /\ MemoryType' /\ BatchType' /\ GhostType'
    BY DEF IInv, TypeOK, StoreType, MemoryType, BatchType, GhostType, V1Done,
           store, memory, batch, ghosts
  <2>. QED BY <2>1 DEF IInv, TypeOK, V1Done, Pcs
<1>. QED BY <1>1, OutsideBatchStep DEF V1Done, ghosts

\* A batch of dumps: entry i of the list is block m_nextblock + i - 1.
LEMMA FetchBlocksStep ==
  ASSUME IInv, FetchBlocks
  PROVE  IInv'
<1>1. m_nextblock \in Nat \ {0} /\ RecvCount \in Nat
  BY SettingsAssumption DEF IInv, TypeOK, MemoryType, NextInv, FetchBlocks
<1>2. PICK c \in Chains, k \in 1..RecvCount :
        /\ m_nextblock + k - 1 <= Len(c)
        /\ hashes' = Headers(c, m_nextblock, k)
        /\ \E j \in 1..k : dumps' \in DumpReplies(Headers(c, m_nextblock, k), j)
  BY DEF FetchBlocks
<1>3. k \in Nat \ {0}
  BY <1>1
<1>4. /\ hashes' \in Seq(Entry) /\ Len(hashes') = k
      /\ \A i \in 1..k : /\ hashes'[i].number = m_nextblock + i - 1
                         /\ OnChain(hashes'[i].hash, hashes'[i].number)
  BY <1>1, <1>2, <1>3, HeadersType
<1>5. dumps' \in Seq(Blocks \cup {Junk})
  BY <1>2, DumpRepliesType
<1>6. TypeOK'
  <2>1. BatchType'
    BY <1>4, <1>5 DEF IInv, TypeOK, BatchType, FetchBlocks
  <2>2. StoreType' /\ MemoryType' /\ GhostType'
    BY DEF IInv, TypeOK, StoreType, MemoryType, GhostType, FetchBlocks, store, memory, ghosts
  <2>. QED BY <2>1, <2>2 DEF IInv, TypeOK, FetchBlocks, Pcs
<1>7. NextInv'
  BY DEF IInv, NextInv, FetchBlocks, store, memory, ghosts
<1>8. BatchInv'
  BY <1>1, <1>3, <1>4 DEF BatchInv, Current, FetchBlocks, memory
<1>9. MarksInv' /\ PutInv' /\ PrevInv'
  BY DEF MarksInv, PutInv, PrevInv, MarkStates, PutStates, FetchBlocks
<1>10. IndexInv' /\ StoreInv'
  BY DEF IInv, IndexInv, StoreInv, Complete, Upto, FetchBlocks, store, memory, ghosts
<1>. QED BY <1>6, <1>7, <1>8, <1>9, <1>10 DEF IInv

\* Inside a batch, the block at hand is the next one.
LEMMA BlockAtHand ==
  ASSUME IInv, InBatch, iter <= Len(hashes)
  PROVE  /\ BlockNumber = Current /\ BlockNumber \in Numbers /\ BlockNumber >= 1
         /\ hashes[iter].hash \in Blocks /\ OnChain(hashes[iter].hash, BlockNumber)
<1>1. iter \in 1..Len(hashes) /\ hashes[iter] \in Entry /\ Current \in Int
  BY DEF IInv, TypeOK, BatchType, MemoryType, Current
<1>2. BlockNumber = Current + (iter - iter) /\ OnChain(hashes[iter].hash, BlockNumber)
  BY <1>1 DEF IInv, BatchInv, BlockNumber
<1>3. PICK c \in Chains : BlockNumber \in 1..Len(c) /\ c[BlockNumber] = hashes[iter].hash
  BY <1>2 DEF OnChain
<1>4. c \in Seq(Blocks)
  BY ChainsAssumption
<1>5. BlockNumber \in Numbers
  BY <1>1 DEF Entry, BlockNumber
<1>. QED BY <1>1, <1>2, <1>3, <1>4, <1>5

\* Behind the last dump of a batch.
LEMMA BatchDoneStep ==
  ASSUME IInv, BatchDone
  PROVE  IInv'
<1>1. InBatch
  BY DEF BatchDone, InBatch
<1>2. prev_ext_data' \in Status \cup {"none"} /\ fails' \in Nat
  BY DEF IInv, TypeOK, BatchType, GhostType, BatchDone, ghosts
<1>. QED BY <1>1, <1>2, LeaveBatchStep DEF BatchDone, ghosts

\* The predecessor the worker compares with is the cached block, if there is one.
LEMMA LoadPrevStep ==
  ASSUME IInv, LoadPrev
  PROVE  IInv'
<1>1. /\ InBatch /\ iter <= Len(hashes) /\ Current = m_nextblock
      /\ BlockNumber > 1 /\ Verification /\ db_open
  BY DEF LoadPrev, InBatch, MoreBlocks, CheckedBlock, Current
<1>2. BlockNumber = m_nextblock /\ BlockNumber - 1 \in Numbers
  BY <1>1, BlockAtHand, ChainsAssumption DEF Numbers
<1>3. PICK b \in GetBlock(BlockNumber - 1) :
        \/ /\ b = NoBlock /\ LeaveBatch
           /\ prev_ext_data' = ExtData(BlockNumber - 1, prev_ext_data)
           /\ UNCHANGED <<store, memory, count_blocks, marks, ghosts>>
        \/ b = Junk /\ WorkerEnds
        \/ /\ b \in Blocks
           /\ bi_prev' = b
           /\ prev_ext_data' = ExtData(BlockNumber - 1, prev_ext_data)
           /\ UNCHANGED <<store, memory, pc, hashes, dumps, iter, count_blocks, marks, ghosts>>
  BY DEF LoadPrev
<1>4. ExtData(BlockNumber - 1, prev_ext_data) \in Status \cup {"none"}
  BY <1>2 DEF IInv, TypeOK, StoreType, BatchType, ExtData
<1>5. CASE b = NoBlock /\ LeaveBatch
           /\ prev_ext_data' = ExtData(BlockNumber - 1, prev_ext_data)
           /\ UNCHANGED <<store, memory, count_blocks, marks, ghosts>>
  <2>1. fails' \in Nat
    BY <1>5 DEF IInv, TypeOK, GhostType, ghosts
  <2>. QED BY <1>1, <1>4, <1>5, <2>1, LeaveBatchStep DEF ghosts
<1>6. CASE b = Junk /\ WorkerEnds
  BY <1>6, WorkerEndsStep
<1>7. CASE /\ b \in Blocks
           /\ bi_prev' = b
           /\ prev_ext_data' = ExtData(BlockNumber - 1, prev_ext_data)
           /\ UNCHANGED <<store, memory, pc, hashes, dumps, iter, count_blocks, marks, ghosts>>
  <2>1. TypeOK'
    <3>1. BatchType'
      BY <1>4, <1>7 DEF IInv, TypeOK, BatchType
    <3>2. StoreType' /\ MemoryType' /\ GhostType'
      BY <1>7 DEF IInv, TypeOK, StoreType, MemoryType, GhostType, store, memory, ghosts
    <3>. QED BY <1>7, <3>1, <3>2 DEF IInv, TypeOK
  <2>2. NextInv' /\ MarksInv'
    BY <1>7 DEF IInv, NextInv, MarksInv, store, memory, ghosts
  <2>3. BatchInv'
    BY <1>7 DEF IInv, BatchInv, InBatch, Current, memory
  <2>4. PutInv'
    BY <1>7 DEF LoadPrev, PutInv, PutStates
  <2>5. PrevInv'
    <3>1. ASSUME m_nextblock > first PROVE b = dump[m_nextblock - 1]
      <4>1. m_nextblock - 1 >= first /\ m_nextblock - 1 < Upto
        BY <1>1, <3>1 DEF IInv, TypeOK, MemoryType, GhostType, Upto
      <4>2. dump[m_nextblock - 1] # NoBlock
        BY <1>2, <4>1 DEF IInv, StoreInv, Complete
      <4>. QED BY <1>2, <4>2 DEF GetBlock
    <3>2. Current' = m_nextblock /\ first' = first /\ dump' = dump
      BY <1>7 DEF LoadPrev, Current, memory, store, ghosts
    <3>. QED BY <1>1, <1>2, <1>7, <3>1, <3>2 DEF PrevInv
  <2>6. IndexInv' /\ StoreInv'
    BY <1>7 DEF IInv, IndexInv, StoreInv, Complete, Upto, store, memory, ghosts
  <2>. QED BY <2>1, <2>2, <2>3, <2>4, <2>5, <2>6 DEF IInv
<1>. QED BY <1>3, <1>5, <1>6, <1>7

\* The dump at hand is about to be stored.
LEMMA TakenStep ==
  ASSUME IInv, pc = "block", MoreBlocks, pc' = "put_dump",
         UNCHANGED <<store, memory, batch, count_blocks, marks, ghosts>>,
         Version = 2 /\ CheckedBlock =>
           bi_prev # NoBlock /\ dumps[iter] \in Blocks /\ PrevHash[dumps[iter]] = bi_prev
  PROVE  IInv'
<1>1. TypeOK'
  <2>1. StoreType' /\ MemoryType' /\ BatchType' /\ GhostType'
    BY DEF IInv, TypeOK, StoreType, MemoryType, BatchType, GhostType,
           store, memory, batch, ghosts
  <2>. QED BY <2>1 DEF IInv, TypeOK, Pcs, PutStates
<1>2. NextInv'
  BY DEF IInv, NextInv, store, memory, ghosts
<1>3. MarksInv'
  BY DEF MarksInv, MarkStates
<1>4. BatchInv'
  BY DEF IInv, BatchInv, InBatch, Current, batch, memory
<1>5. PutInv'
  BY DEF PutInv, MoreBlocks, CheckedBlock, BlockNumber, batch
<1>6. PrevInv'
  BY DEF IInv, PrevInv, InBatch, Current, batch, memory, store, ghosts
<1>7. IndexInv' /\ StoreInv'
  BY DEF IInv, IndexInv, StoreInv, Complete, Upto, store, memory, ghosts
<1>. QED BY <1>1, <1>2, <1>3, <1>4, <1>5, <1>6, <1>7 DEF IInv

\* A block that is not verified is saved as it comes.
LEMMA TakeBlockStep ==
  ASSUME IInv, TakeBlock
  PROVE  IInv'
BY TakenStep DEF TakeBlock

\* A verified block: the dump at hand is the requested one, links to bi_prev and
\* so to the block cached below it.
LEMMA CheckBlockStep ==
  ASSUME IInv, CheckBlock
  PROVE  IInv'
<1>1. InBatch /\ iter \in 1..Len(dumps)
  BY DEF IInv, TypeOK, BatchType, CheckBlock, InBatch, MoreBlocks
<1>2. CASE dumps[iter] = Junk /\ WorkerEnds
  BY <1>2, WorkerEndsStep
<1>3. CASE LeaveBatch /\ UNCHANGED <<store, memory, prev_ext_data, count_blocks, marks, ghosts>>
  <2>1. prev_ext_data' \in Status \cup {"none"} /\ fails' \in Nat
    BY <1>3 DEF IInv, TypeOK, BatchType, GhostType, ghosts
  <2>. QED BY <1>1, <1>3, <2>1, LeaveBatchStep DEF ghosts
<1>4. CASE /\ dumps[iter] # Junk /\ BlockPasses(dumps[iter])
           /\ pc' = "put_dump"
           /\ UNCHANGED <<store, memory, batch, count_blocks, marks, ghosts>>
  <2>1. dumps[iter] \in Blocks
    BY <1>1, <1>4 DEF IInv, TypeOK, BatchType
  <2>2. PrevHash[dumps[iter]] = bi_prev
    BY <1>4 DEF BlockPasses
  <2>. QED BY <1>4, <2>1, <2>2, TakenStep DEF CheckBlock
<1>. QED BY <1>2, <1>3, <1>4 DEF CheckBlock

\* Version 1: the counter starts somewhere at or above 1.
LEMMA V1CountStep ==
  ASSUME IInv, V1Count
  PROVE  IInv'
<1>1. PICK c \in Chains, h \in Nat :
        /\ count_blocks' = h
        /\ m_nextblock' = IF m_nextblock # 0 THEN m_nextblock
                          ELSE IF (h - InitCount) % Word > 0 THEN (h - InitCount) % Word ELSE 1
        /\ first' = IF m_nextblock = 0 /\ db_open THEN m_nextblock' ELSE first
  <2>1. \A c \in Chains : 1..Len(c) \subseteq Nat
    BY ChainsAssumption
  <2>. QED BY <2>1 DEF V1Count
<1>2. (h - InitCount) % Word \in Nat
  <2>1. h - InitCount \in Int /\ Word \in Nat \ {0}
    BY SettingsAssumption, ChainsAssumption
  <2>. QED BY <2>1
<1>3. m_nextblock' \in Nat \ {0} /\ first' \in Nat
  BY <1>1, <1>2 DEF IInv, TypeOK, MemoryType, GhostType
<1>4. TypeOK'
  <2>1. StoreType' /\ BatchType' /\ GhostType'
    BY <1>3 DEF IInv, TypeOK, StoreType, BatchType, GhostType, V1Count, store, batch
  <2>2. MemoryType'
    BY <1>3 DEF IInv, TypeOK, MemoryType, V1Count
  <2>. QED BY <1>1, <2>1, <2>2 DEF IInv, TypeOK, V1Count, Pcs
<1>5. NextInv' /\ StoreInv'
  <2>1. CASE m_nextblock = 0 /\ db_open
    <3>1. db_next = 0 /\ first' = m_nextblock' /\ db_open' /\ db_next' = 0
      BY <1>1, <2>1 DEF IInv, TypeOK, StoreType, NextInv, V1Count, store
    <3>2. ASSUME NEW n \in Numbers PROVE ~(first' <= n /\ n < Upto')
      BY <1>3, <3>1, ChainsAssumption DEF Upto, Numbers
    <3>. QED BY <1>3, <3>1, <3>2 DEF NextInv, StoreInv, V1Count
  <2>2. CASE ~(m_nextblock = 0 /\ db_open)
    <3>1. first' = first /\ UNCHANGED <<store, db_open>> /\ pc' = "v1" /\ Version = 1
      BY <1>1, <2>2 DEF V1Count
    <3>2. db_open => m_nextblock' = m_nextblock
      BY <1>1, <2>2
    <3>. QED BY <1>3, <3>1, <3>2 DEF IInv, NextInv, StoreInv, Complete, Upto, store
  <2>. QED BY <2>1, <2>2
<1>6. MarksInv' /\ BatchInv' /\ PutInv' /\ PrevInv'
  BY DEF MarksInv, BatchInv, PutInv, PrevInv, InBatch, MarkStates, PutStates, V1Count
<1>7. IndexInv'
  BY DEF IInv, IndexInv, V1Count, store
<1>. QED BY <1>4, <1>5, <1>6, <1>7 DEF IInv

\* The version 1 routine fetches the block m_nextblock.
LEMMA V1FetchStep ==
  ASSUME IInv, V1Fetch
  PROVE  IInv'
<1>1. PICK b \in TorrentBlocks(m_nextblock) :
        \/ /\ b = NoBlock
           /\ pc' = "loop"
           /\ UNCHANGED batch
        \/ /\ b # NoBlock
           /\ hashes' = <<[number |-> m_nextblock, hash |-> b, extra |-> <<>>]>>
           /\ dumps' = <<b>> /\ iter' = 1
           /\ pc' = "put_dump"
           /\ UNCHANGED <<bi_prev, prev_ext_data>>
  BY DEF V1Fetch
<1>2. StoreType' /\ MemoryType' /\ GhostType'
  BY DEF IInv, TypeOK, StoreType, MemoryType, GhostType, V1Fetch, store, memory, ghosts
<1>3. CASE pc' = "loop" /\ UNCHANGED batch
  <2>1. BatchType'
    BY <1>3 DEF IInv, TypeOK, BatchType, batch
  <2>2. TypeOK'
    BY <1>2, <1>3, <2>1 DEF IInv, TypeOK, V1Fetch, Pcs
  <2>. QED BY <1>3, <2>2, OutsideBatchStep DEF V1Fetch, ghosts
<1>4. CASE /\ b # NoBlock
           /\ hashes' = <<[number |-> m_nextblock, hash |-> b, extra |-> <<>>]>>
           /\ dumps' = <<b>> /\ iter' = 1
           /\ pc' = "put_dump"
           /\ UNCHANGED <<bi_prev, prev_ext_data>>
  <2>1. b \in Blocks /\ OnChain(b, m_nextblock) /\ m_nextblock \in Numbers /\ m_nextblock >= 1
    <3>1. m_nextblock \in Int
      BY DEF IInv, TypeOK, MemoryType
    <3>. QED BY <3>1, <1>4, TorrentBlocksOnChain, ChainsAssumption DEF Numbers
  <2>2. /\ hashes' \in Seq(Entry) /\ Len(hashes') = 1
        /\ hashes'[1].number = m_nextblock /\ hashes'[1].hash = b
    <3>1. [number |-> m_nextblock, hash |-> b, extra |-> <<>>] \in Entry
      BY <2>1 DEF Entry
    <3>. QED BY <1>4, <3>1
  <2>3. TypeOK'
    <3>1. BatchType'
      BY <1>4, <2>1, <2>2 DEF IInv, TypeOK, BatchType
    <3>. QED BY <1>2, <1>4, <3>1 DEF IInv, TypeOK, V1Fetch, Pcs, PutStates
  <2>4. NextInv'
    BY <1>4 DEF IInv, NextInv, V1Fetch, store, memory, ghosts
  <2>5. BatchInv'
    <3>1. Current' = m_nextblock
      BY <1>4 DEF Current, V1Fetch, memory
    <3>2. m_nextblock \in Int
      BY DEF IInv, TypeOK, MemoryType
    <3>3. ASSUME NEW i \in 1..Len(hashes')
          PROVE  /\ hashes'[i].number = m_nextblock + (i - 1)
                 /\ OnChain(hashes'[i].hash, hashes'[i].number)
      <4>1. i = 1
        BY <2>2
      <4>. QED BY <2>1, <2>2, <3>2, <4>1
    <3>. QED BY <1>4, <2>2, <3>1, <3>3 DEF BatchInv
  <2>6. MarksInv' /\ PutInv' /\ PrevInv'
    BY <1>4, <2>2 DEF IInv, NextInv, V1Fetch, MarksInv, PutInv, PrevInv, MarkStates
  <2>7. IndexInv' /\ StoreInv'
    BY DEF IInv, IndexInv, StoreInv, Complete, Upto, V1Fetch, store, memory, ghosts
  <2>. QED BY <2>3, <2>4, <2>5, <2>6, <2>7 DEF IInv
<1>. QED BY <1>1, <1>3, <1>4

(***************************************************************************)
(* The Puts of one block.                                                  *)
(***************************************************************************)

\* save_block returns false after a failed Put: nothing below the counters has
\* been touched.
LEMMA SaveFailedStep ==
  ASSUME IInv, pc \in PutStates, SaveFailed, fails' \in Nat,
         UNCHANGED <<store, memory, prev_ext_data, count_blocks, marks, first, seen, crashes>>
  PROVE  IInv'
<1>1. CASE Version = 2 /\ LeaveBatch
  <2>1. InBatch
    BY DEF InBatch
  <2>2. prev_ext_data' \in Status \cup {"none"}
    BY DEF IInv, TypeOK, BatchType
  <2>. QED BY <1>1, <2>1, <2>2, LeaveBatchStep
<1>2. CASE Version = 1 /\ pc' = "v1" /\ UNCHANGED <<hashes, dumps, iter, bi_prev>>
  <2>1. TypeOK'
    <3>1. StoreType' /\ MemoryType' /\ BatchType' /\ GhostType'
      BY <1>2 DEF IInv, TypeOK, StoreType, MemoryType, BatchType, GhostType, store, memory
    <3>. QED BY <1>2, <3>1 DEF IInv, TypeOK, Pcs
  <2>2. NextInv'
    BY <1>2 DEF IInv, NextInv, store, memory
  <2>3. MarksInv' /\ BatchInv' /\ PutInv' /\ PrevInv'
    BY <1>2 DEF MarksInv, BatchInv, PutInv, PrevInv, InBatch, MarkStates, PutStates
  <2>4. IndexInv' /\ StoreInv'
    BY DEF IInv, IndexInv, StoreInv, Complete, Upto, store, memory
  <2>. QED BY <2>1, <2>2, <2>3, <2>4 DEF IInv
<1>. QED BY <1>1, <1>2 DEF SaveFailed

\* What a Put does to the counter of failures.
LEMMA PutType ==
  ASSUME TypeOK, NEW ok \in BOOLEAN, Put(ok)
  PROVE  fails' \in Nat
BY DEF TypeOK, GhostType, Put

\* The dump is written above everything that is claimed.
LEMMA PutDumpStep ==
  ASSUME IInv, PutDump
  PROVE  IInv'
<1>1. fails' \in Nat /\ db_open
  <2>1. \E ok \in BOOLEAN : Put(ok)
    BY DEF PutDump
  <2>. QED BY <2>1, PutType DEF IInv, Put
<1>2. /\ InBatch /\ pc \in PutStates /\ Current = m_nextblock
      /\ iter \in 1..Len(hashes) /\ iter \in 1..Len(dumps)
  BY DEF IInv, TypeOK, BatchType, PutDump, InBatch, PutStates, Current, PutInv
<1>3. BlockNumber = m_nextblock /\ BlockNumber \in Numbers /\ BlockNumber >= 1
  BY <1>2, BlockAtHand
<1>4. CASE SaveFailed /\ UNCHANGED dump
  BY <1>1, <1>2, <1>4, SaveFailedStep DEF PutDump, store
<1>5. CASE /\ dump' = [dump EXCEPT ![BlockNumber] = dumps[iter]]
           /\ pc' = "put_hash"
           /\ UNCHANGED <<hashes, dumps, iter, bi_prev>>
  <2>1. /\ dump' \in [Numbers -> Blocks \cup {Junk, NoBlock}]
        /\ dump'[m_nextblock] = dumps[iter]
        /\ \A n \in Numbers : n # m_nextblock => dump'[n] = dump[n]
    <3>1. dumps[iter] \in Blocks \cup {Junk, NoBlock} /\ dump \in [Numbers -> Blocks \cup {Junk, NoBlock}]
      BY <1>2 DEF IInv, TypeOK, BatchType, StoreType
    <3>. QED BY <1>3, <1>5, <3>1
  <2>2. UNCHANGED <<index, data, extra, db_next, db_last, memory, prev_ext_data,
                    count_blocks, marks, first, seen, crashes, hashes, dumps, iter, bi_prev>>
    BY <1>5 DEF PutDump
  <2>3. TypeOK'
    <3>1. StoreType' /\ MemoryType' /\ BatchType' /\ GhostType'
      BY <1>1, <2>1, <2>2 DEF IInv, TypeOK, StoreType, MemoryType, BatchType, GhostType, memory
    <3>. QED BY <1>5, <2>2, <3>1 DEF IInv, TypeOK, Pcs, PutStates
  <2>4. NextInv'
    BY <1>5, <2>2 DEF IInv, NextInv, PutDump, memory
  <2>5. MarksInv'
    BY <1>5 DEF MarksInv, MarkStates
  <2>6. BatchInv'
    BY <1>2, <1>5, <2>2 DEF IInv, BatchInv, PutDump, InBatch, Current, memory
  <2>7. PutInv'
    BY <1>2, <1>5, <2>1, <2>2 DEF IInv, PutInv, PutDump, CheckedBlock, BlockNumber, Current, memory
  <2>8. PrevInv'
    <3>1. Current' = m_nextblock /\ InBatch
      BY <1>2, <1>5, <2>2 DEF Current, memory
    <3>2. m_nextblock > 1 => m_nextblock - 1 \in Numbers /\ m_nextblock - 1 # m_nextblock
      BY <1>3, ChainsAssumption DEF Numbers
    <3>3. m_nextblock > 1 => dump'[m_nextblock - 1] = dump[m_nextblock - 1]
      BY <3>2, <2>1
    <3>. QED BY <1>2, <2>2, <3>1, <3>3 DEF IInv, PrevInv, memory
  <2>9. IndexInv'
    BY <2>2 DEF IInv, IndexInv
  <2>10. StoreInv'
    <3>1. Upto = m_nextblock /\ Upto' = m_nextblock
      BY <1>1, <2>2 DEF Upto, memory
    <3>2. ASSUME NEW n \in Numbers, first <= n, n < m_nextblock
          PROVE  dump'[n] = dump[n] /\ (n > first => dump'[n - 1] = dump[n - 1])
      <4>1. n # m_nextblock /\ n - 1 # m_nextblock /\ (n > first => n - 1 \in Numbers)
        BY <3>2, <1>3, ChainsAssumption DEF IInv, TypeOK, GhostType, Numbers
      <4>. QED BY <4>1, <2>1
    <3>. QED BY <2>2, <3>1, <3>2 DEF IInv, StoreInv, Complete
  <2>. QED BY <2>3, <2>4, <2>5, <2>6, <2>7, <2>8, <2>9, <2>10 DEF IInv
<1>. QED BY <1>4, <1>5 DEF PutDump

\* The hash of a block fixes its number.
LEMMA OneHeight ==
  ASSUME NEW b, NEW m, NEW n, OnChain(b, m), OnChain(b, n)
  PROVE  m = n
BY ChainsAssumption DEF OnChain

\* A hash entry is only ever written with the one number it can have.
LEMMA PutHashStep ==
  ASSUME IInv, PutHash
  PROVE  IInv'
<1>1. fails' \in Nat /\ db_open
  <2>1. \E ok \in BOOLEAN : Put(ok)
    BY DEF PutHash
  <2>. QED BY <2>1, PutType DEF IInv, Put
<1>2. /\ InBatch /\ pc \in PutStates /\ Current = m_nextblock
      /\ iter \in 1..Len(hashes) /\ iter \in 1..Len(dumps)
  BY DEF IInv, TypeOK, BatchType, PutHash, InBatch, PutStates, Current, PutInv
<1>3. /\ BlockNumber = m_nextblock /\ BlockNumber \in Numbers
      /\ hashes[iter].hash \in Blocks /\ OnChain(hashes[iter].hash, m_nextblock)
  BY <1>2, BlockAtHand
<1>4. CASE SaveFailed /\ UNCHANGED index
  BY <1>1, <1>2, <1>4, SaveFailedStep DEF PutHash, store
<1>5. CASE /\ index' = [index EXCEPT ![hashes[iter].hash] = BlockNumber]
           /\ pc' = "put_data"
           /\ UNCHANGED <<hashes, dumps, iter, bi_prev>>
  <2>1. /\ index' \in [Blocks -> Numbers]
        /\ index'[hashes[iter].hash] = m_nextblock
        /\ \A b \in Blocks : b # hashes[iter].hash => index'[b] = index[b]
    <3>1. index \in [Blocks -> Numbers]
      BY DEF IInv, TypeOK, StoreType
    <3>. QED BY <1>3, <1>5, <3>1
  <2>2. UNCHANGED <<dump, data, extra, db_next, db_last, memory, prev_ext_data,
                    count_blocks, marks, first, seen, crashes, hashes, dumps, iter, bi_prev>>
    BY <1>5 DEF PutHash
  <2>3. TypeOK'
    <3>1. StoreType' /\ MemoryType' /\ BatchType' /\ GhostType'
      BY <1>1, <2>1, <2>2 DEF IInv, TypeOK, StoreType, MemoryType, BatchType, GhostType, memory
    <3>. QED BY <1>5, <2>2, <3>1 DEF IInv, TypeOK, Pcs, PutStates
  <2>4. NextInv'
    BY <1>5, <2>2 DEF IInv, NextInv, PutHash, memory
  <2>5. MarksInv'
    BY <1>5 DEF MarksInv, MarkStates
  <2>6. BatchInv'
    BY <1>2, <1>5, <2>2 DEF IInv, BatchInv, PutHash, InBatch, Current, memory
  <2>7. PutInv'
    BY <1>2, <1>5, <2>1, <2>2 DEF IInv, PutInv, PutHash, CheckedBlock, BlockNumber, Current, memory
  <2>8. PrevInv'
    <3>1. Current' = m_nextblock
      BY <1>5, <2>2 DEF Current, memory
    <3>. QED BY <1>2, <2>2, <3>1 DEF IInv, PrevInv, memory
  <2>9. IndexInv'
    BY <1>3, <2>1 DEF IInv, IndexInv
  <2>10. StoreInv'
    <3>1. Upto = m_nextblock /\ Upto' = m_nextblock
      BY <1>1, <2>2 DEF Upto, memory
    <3>2. ASSUME NEW n \in Numbers, first <= n, n < m_nextblock, NEW b \in Blocks, index[b] = n
          PROVE  index'[b] = n
      <4>1. n # 0 /\ n # m_nextblock
        BY <1>1, <3>2, ChainsAssumption
           DEF IInv, TypeOK, GhostType, MemoryType, NextInv, Numbers
      <4>2. OnChain(b, n)
        BY <3>2, <4>1 DEF IInv, IndexInv
      <4>3. b # hashes[iter].hash
        BY <1>3, <4>1, <4>2, OneHeight
      <4>. QED BY <2>1, <3>2, <4>3
    <3>3. ASSUME NEW n \in Numbers, first <= n, n < m_nextblock PROVE Complete(n)'
      <4>1. Complete(n)
        BY <3>1, <3>3 DEF IInv, StoreInv
      <4>2. PICK b \in Blocks : index[b] = n
        BY <4>1 DEF Complete
      <4>. QED BY <4>1, <4>2, <2>2, <3>2, <3>3 DEF Complete
    <3>. QED BY <2>2, <3>1, <3>3 DEF IInv, StoreInv
  <2>. QED BY <2>3, <2>4, <2>5, <2>6, <2>7, <2>8, <2>9, <2>10 DEF IInv
<1>. QED BY <1>4, <1>5 DEF PutHash

\* With the status record the block is complete, and linked to the one below.
LEMMA PutDataStep ==
  ASSUME IInv, PutData
  PROVE  IInv'
<1>1. fails' \in Nat /\ db_open
  <2>1. \E ok \in BOOLEAN : Put(ok)
    BY DEF PutData
  <2>. QED BY <2>1, PutType DEF IInv, Put
<1>2. /\ InBatch /\ pc \in PutStates /\ Current = m_nextblock
      /\ iter \in 1..Len(hashes) /\ iter \in 1..Len(dumps)
  BY DEF IInv, TypeOK, BatchType, PutData, InBatch, PutStates, Current, PutInv
<1>3. /\ BlockNumber = m_nextblock /\ BlockNumber \in Numbers /\ BlockNumber >= 1
      /\ hashes[iter].hash \in Blocks
  BY <1>2, BlockAtHand
<1>4. CASE SaveFailed /\ UNCHANGED <<data, m_nextblock>>
  BY <1>1, <1>2, <1>4, SaveFailedStep DEF PutData, store, memory
<1>5. CASE /\ data' = [data EXCEPT ![BlockNumber] = SavedStatus]
           /\ m_nextblock' = BlockNumber + 1
           /\ pc' = "put_next"
           /\ UNCHANGED <<hashes, dumps, iter, bi_prev>>
  <2>1. /\ data' \in [Numbers -> Status \cup {"none"}]
        /\ data'[m_nextblock] # "none"
        /\ \A n \in Numbers : n # m_nextblock => data'[n] = data[n]
    <3>1. data \in [Numbers -> Status \cup {"none"}] /\ SavedStatus \in Status /\ SavedStatus # "none"
      BY DEF IInv, TypeOK, StoreType, SavedStatus, Status
    <3>. QED BY <1>3, <1>5, <3>1
  <2>2. /\ UNCHANGED <<dump, index, extra, db_next, db_last, db_open, m_run,
                       m_last_signed_block, stopping, prev_ext_data, count_blocks, marks,
                       first, seen, crashes, hashes, dumps, iter, bi_prev>>
        /\ m_nextblock' = m_nextblock + 1 /\ m_nextblock \in Nat
    BY <1>3, <1>5 DEF IInv, TypeOK, MemoryType, PutData
  <2>3. TypeOK'
    <3>1. StoreType' /\ BatchType' /\ GhostType'
      BY <1>1, <2>1, <2>2 DEF IInv, TypeOK, StoreType, BatchType, GhostType
    <3>2. MemoryType'
      BY <2>2 DEF IInv, TypeOK, MemoryType
    <3>. QED BY <1>5, <2>2, <3>1, <3>2 DEF IInv, TypeOK, Pcs, PutStates
  <2>4. NextInv'
    BY <1>3, <1>5, <2>2 DEF IInv, TypeOK, StoreType, NextInv, PutData
  <2>5. MarksInv'
    BY <1>5 DEF MarksInv, MarkStates
  <2>6. Current' = Current
    BY <1>2, <1>5, <2>2 DEF Current
  <2>7. BatchInv'
    BY <1>2, <2>2, <2>6 DEF IInv, BatchInv
  <2>8. PutInv'
    BY <1>2, <1>5, <2>2, <2>6 DEF IInv, PutInv, PutData, CheckedBlock, BlockNumber
  <2>9. PrevInv'
    BY <1>2, <2>2, <2>6 DEF IInv, PrevInv
  <2>10. IndexInv'
    BY <2>2 DEF IInv, IndexInv
  <2>11. StoreInv'
    <3>1. Upto = m_nextblock /\ Upto' = m_nextblock + 1
      BY <1>1, <2>2 DEF Upto
    <3>2. ASSUME NEW n \in Numbers, first <= n, n < m_nextblock
          PROVE  Complete(n)'
      <4>1. Complete(n) /\ n # m_nextblock
        BY <3>1, <3>2, ChainsAssumption DEF IInv, StoreInv, Numbers
      <4>. QED BY <4>1, <2>1, <2>2 DEF Complete
    <3>3. ASSUME NEW n \in Numbers, n = m_nextblock PROVE Complete(n)'
      <4>1. dump[m_nextblock] # NoBlock
        BY <1>2, BlocksAssumption DEF IInv, TypeOK, BatchType, PutInv, PutData
      <4>2. index[hashes[iter].hash] = m_nextblock
        BY <1>2 DEF IInv, PutInv, PutData
      <4>. QED BY <1>3, <3>3, <4>1, <4>2, <2>1, <2>2 DEF Complete
    <3>4. ASSUME Version = 2, Verification, m_nextblock > first
          PROVE  dump[m_nextblock] \in Blocks /\ PrevHash[dump[m_nextblock]] = dump[m_nextblock - 1]
      <4>1. BlockNumber > 1
        BY <1>1, <1>3, <2>2, <3>4 DEF IInv, TypeOK, GhostType, NextInv
      <4>2. /\ bi_prev # NoBlock /\ dumps[iter] \in Blocks /\ PrevHash[dumps[iter]] = bi_prev
            /\ dump[m_nextblock] = dumps[iter]
        BY <1>2, <3>4, <4>1 DEF IInv, PutInv, PutData, CheckedBlock
      <4>3. bi_prev = dump[m_nextblock - 1]
        BY <1>1, <1>2, <3>4, <4>2 DEF IInv, PrevInv
      <4>. QED BY <4>2, <4>3
    <3>5. ASSUME NEW n \in Numbers, first <= n, n < m_nextblock + 1
          PROVE  n = m_nextblock \/ n < m_nextblock
      BY <2>2, <3>5, ChainsAssumption DEF Numbers
    <3>6. ASSUME NEW n \in Numbers, first <= n, n < m_nextblock + 1
          PROVE  /\ Complete(n)'
                 /\ Version = 2 /\ Verification /\ n > first =>
                      dump[n] \in Blocks /\ PrevHash[dump[n]] = dump[n - 1]
      <4>1. CASE n = m_nextblock
        BY <3>3, <3>4, <4>1
      <4>2. CASE n < m_nextblock
        BY <3>1, <3>2, <3>6, <4>2 DEF IInv, StoreInv
      <4>. QED BY <3>5, <3>6, <4>1, <4>2
    <3>. QED BY <2>2, <3>1, <3>6 DEF StoreInv
  <2>. QED BY <2>3, <2>4, <2>5, <2>7, <2>8, <2>9, <2>10, <2>11 DEF IInv
<1>. QED BY <1>4, <1>5 DEF PutData

\* The status records of a block are about it or the two below it.
LEMMA MarksForType ==
  ASSUME NEW n \in Numbers, n > 1, NEW v, NEW b1, NEW b2,
         n = 2 => b1 = NoBlock
  PROVE  /\ MarksFor(n, v, b1, b2) \in Seq(Mark)
         /\ MarksFor(n, v, b1, b2) # <<>>
         /\ \A i \in 1..Len(MarksFor(n, v, b1, b2)) : MarksFor(n, v, b1, b2)[i].extra = NoBlock
<1>. DEFINE M  == {m \in Mark : m.extra = NoBlock}
            w  == [number |-> n, status |-> "awaiting_signature", extra |-> NoBlock]
            own == IF v = MaxInt THEN <<SignMark(n)>> ELSE <<>>
            prevToo == v # MaxInt \/ prev_ext_data \in {"not_signed", "not_checked"}
            broken == IF prev_ext_data = "awaiting_signature" /\ BrokenBlock(n, b1, b2)
                      THEN <<SignMark(n - 2)>> ELSE <<>>
            rest == IF prevToo THEN broken \o <<SignMark(n - 1)>> ELSE <<>>
<1>1. \A k \in Numbers : SignMark(k) \in M
  BY DEF SignMark, Mark, Status
<1>2. n - 1 \in Numbers /\ (n > 2 => n - 2 \in Numbers)
  BY ChainsAssumption DEF Numbers
<1>3. w \in M
  BY DEF Mark, Status
<1>4. own \in Seq(M)
  <2>1. SignMark(n) \in M
    BY <1>1
  <2>. HIDE DEF M
  <2>. QED BY <2>1
<1>5. broken \in Seq(M)
  <2>1. BrokenBlock(n, b1, b2) => n > 2
    BY BlocksAssumption, ChainsAssumption DEF BrokenBlock, Numbers
  <2>2. BrokenBlock(n, b1, b2) => SignMark(n - 2) \in M
    BY <1>1, <1>2, <2>1
  <2>. HIDE DEF M
  <2>. QED BY <2>2
<1>6. rest \in Seq(M) /\ (prevToo => rest # <<>>)
  <2>0. SignMark(n - 1) \in M
    BY <1>1, <1>2
  <2>. HIDE DEF M, broken
  <2>1. <<SignMark(n - 1)>> \in Seq(M) /\ Len(<<SignMark(n - 1)>>) = 1
    BY <2>0
  <2>2. broken \o <<SignMark(n - 1)>> \in Seq(M)
    BY <1>5, <2>1, ConcatProperties
  <2>3. Len(broken \o <<SignMark(n - 1)>>) = Len(broken) + 1 /\ Len(broken) \in Nat
    BY <1>5, <2>1, ConcatProperties, LenProperties
  <2>4. broken \o <<SignMark(n - 1)>> # <<>>
    BY <2>3
  <2>. QED BY <2>2, <2>4
<1>7. own \o rest \in Seq(M) /\ Len(own \o rest) = Len(own) + Len(rest)
  <2>. HIDE DEF own, rest, M
  <2>. QED BY <1>4, <1>6, ConcatProperties
<1>8. own \o rest # <<>>
  <2>1. own # <<>> \/ rest # <<>>
    BY <1>6
  <2>. HIDE DEF own, rest, M
  <2>. QED BY <1>4, <1>6, <2>1, ConcatSimplifications
<1>9. MarksFor(n, v, b1, b2) = IF v = 0 THEN <<w>> ELSE own \o rest
  BY DEF MarksFor
<1>10. MarksFor(n, v, b1, b2) \in Seq(M) /\ MarksFor(n, v, b1, b2) # <<>>
  <2>1. <<w>> \in Seq(M) /\ <<w>> # <<>>
    BY <1>3
  <2>. HIDE DEF own, rest, M, w
  <2>. QED BY <1>7, <1>8, <1>9, <2>1
<1>11. MarksFor(n, v, b1, b2) \in Seq(Mark)
  <2>1. M \subseteq Mark
    OBVIOUS
  <2>. HIDE DEF M
  <2>. QED BY <1>10, <2>1, SeqMonotonic
<1>12. \A i \in 1..Len(MarksFor(n, v, b1, b2)) : MarksFor(n, v, b1, b2)[i] \in M
  <2>. HIDE DEF M
  <2>. QED BY <1>10, ElementOfSeq
<1>. QED BY <1>10, <1>11, <1>12

\* update_number follows memory; the stored block becomes the predecessor.
LEMMA PutNextStep ==
  ASSUME IInv, PutNext
  PROVE  IInv'
<1>1. fails' \in Nat /\ db_open
  <2>1. \E ok \in BOOLEAN : Put(ok)
    BY DEF PutNext, UpdateNumber
  <2>. QED BY <2>1, PutType DEF IInv, Put
<1>2. /\ InBatch /\ pc \in PutStates /\ Current = m_nextblock - 1
      /\ iter \in 1..Len(hashes) /\ iter \in 1..Len(dumps)
  BY DEF IInv, TypeOK, BatchType, PutNext, UpdateNumber, InBatch, PutStates, Current, PutInv
<1>3. BlockNumber = m_nextblock - 1 /\ BlockNumber \in Numbers /\ BlockNumber >= 1
  BY <1>2, BlockAtHand
<1>4. m_nextblock \in Nat /\ m_nextblock > 1
  BY <1>3, ChainsAssumption DEF IInv, TypeOK, MemoryType, Numbers
<1>5. /\ UNCHANGED <<dump, index, data, extra, db_last, memory, hashes, dumps,
                     count_blocks, first, crashes>>
      /\ iter' = iter + 1
      /\ db_next' \in {db_next, m_nextblock}
  BY DEF PutNext, UpdateNumber
<1>6. \/ /\ Version = 2 /\ CheckedBlock /\ pc' = "mark_data"
         /\ bi_prev' = dumps[iter] /\ dumps[iter] \in Blocks
         /\ prev_ext_data' \in Status
         /\ marks' \in Seq(Mark) /\ marks' # <<>>
         /\ \A i \in 1..Len(marks') : marks'[i].extra = NoBlock
         /\ seen' = seen \cup {dumps[iter]}
      \/ /\ ~(Version = 2 /\ CheckedBlock)
         /\ pc' = IF Version = 2 THEN "block" ELSE "v1"
         /\ UNCHANGED <<marks, prev_ext_data, bi_prev, seen>>
  <2>1. CASE Version = 2 /\ CheckedBlock
    <3>. DEFINE n == BlockNumber
                v == CoreAddrVerification(dumps[iter], n)
    <3>1. /\ \E b1 \in IF n > 2 THEN GetBlock(n - 2) ELSE {NoBlock},
                b2 \in IF n > 2 THEN GetBlock(n - 3) ELSE {NoBlock} :
               marks' = MarksFor(n, v, b1, b2)
          /\ prev_ext_data' = OwnStatus(v)
          /\ bi_prev' = dumps[iter]
          /\ seen' = seen \cup {dumps[iter]}
          /\ pc' = "mark_data"
      BY <2>1 DEF PutNext, UpdateNumber
    <3>2. PICK b1, b2 : (n = 2 => b1 = NoBlock) /\ marks' = MarksFor(n, v, b1, b2)
      BY <3>1
    <3>3. n \in Numbers /\ n > 1
      BY <1>3, <2>1 DEF CheckedBlock
    <3>4. OwnStatus(v) \in Status
      BY DEF OwnStatus, Status
    <3>5. dumps[iter] \in Blocks
      BY <1>2, <2>1 DEF IInv, PutInv
    <3>6. /\ marks' \in Seq(Mark) /\ marks' # <<>>
          /\ \A i \in 1..Len(marks') : marks'[i].extra = NoBlock
      <4>. HIDE DEF n, v
      <4>. QED BY <3>2, <3>3, MarksForType
    <3>. QED BY <2>1, <3>1, <3>4, <3>5, <3>6
  <2>2. CASE ~(Version = 2 /\ CheckedBlock)
    BY <2>2 DEF PutNext, UpdateNumber
  <2>. QED BY <2>1, <2>2
<1>7. TypeOK'
  <2>1. StoreType' /\ MemoryType' /\ GhostType'
    BY <1>1, <1>4, <1>5, <1>6 DEF IInv, TypeOK, StoreType, MemoryType, GhostType, memory
  <2>2. BatchType'
    BY <1>5, <1>6 DEF IInv, TypeOK, BatchType
  <2>3. pc' \in Pcs /\ marks' \in Seq(Mark)
    BY <1>6 DEF IInv, TypeOK, Pcs, MarkStates
  <2>. QED BY <1>5, <2>1, <2>2, <2>3 DEF IInv, TypeOK
<1>8. NextInv'
  BY <1>1, <1>4, <1>5, <1>6, SettingsAssumption DEF IInv, TypeOK, StoreType, NextInv, PutNext, UpdateNumber, memory
<1>9. MarksInv'
  <2>1. CASE pc' = "mark_data"
    <3>1. marks' \in Seq(Mark) /\ marks' # <<>> /\ \A i \in 1..Len(marks') : marks'[i].extra = NoBlock
      BY <1>6, <2>1
    <3>2. 1 \in 1..Len(marks')
      BY <3>1
    <3>. QED BY <3>1, <3>2 DEF MarksInv
  <2>2. CASE pc' # "mark_data"
    BY <1>6, <2>2 DEF MarksInv, MarkStates
  <2>. QED BY <2>1, <2>2
<1>10. Current' = m_nextblock
  BY <1>5, <1>6 DEF Current, memory
<1>11. BatchInv'
  <2>1. iter' <= Len(hashes') + 1
    BY <1>2, <1>5
  <2>2. ASSUME NEW i \in 1..Len(hashes)
        PROVE  /\ hashes[i].number = m_nextblock + (i - (iter + 1))
               /\ OnChain(hashes[i].hash, hashes[i].number)
    <3>1. /\ hashes[i].number = (m_nextblock - 1) + (i - iter)
          /\ OnChain(hashes[i].hash, hashes[i].number)
      BY <1>2 DEF IInv, BatchInv
    <3>2. i \in Int /\ iter \in Int
      BY <1>2
    <3>. QED BY <1>4, <3>1, <3>2
  <2>. QED BY <1>5, <1>10, <2>1, <2>2 DEF BatchInv
<1>12. PutInv'
  BY <1>6 DEF PutInv, PutStates
<1>13. PrevInv'
  <2>1. CASE Version = 2 /\ CheckedBlock
    <3>1. bi_prev' = dump[m_nextblock - 1]
      BY <1>2, <1>6, <2>1 DEF IInv, PutInv, PutNext, UpdateNumber
    <3>. QED BY <1>4, <1>5, <1>10, <2>1, <3>1 DEF PrevInv, CheckedBlock
  <2>2. CASE ~(Version = 2 /\ CheckedBlock)
    <3>1. Version = 2 => bi_prev = NoBlock
      BY <1>2, <1>3, <2>2 DEF IInv, PrevInv, CheckedBlock
    <3>. QED BY <1>6, <2>2, <3>1 DEF PrevInv
  <2>. QED BY <2>1, <2>2
<1>14. IndexInv'
  BY <1>5 DEF IInv, IndexInv
<1>15. StoreInv'
  BY <1>1, <1>5 DEF IInv, StoreInv, Complete, Upto, memory
<1>. QED BY <1>7, <1>8, <1>9, <1>11, <1>12, <1>13, <1>14, <1>15 DEF IInv

(***************************************************************************)
(* Status records.                                                         *)
(***************************************************************************)

\* The record at hand.
LEMMA HeadOfMarks ==
  ASSUME IInv, pc \in MarkStates
  PROVE  /\ Head(marks) = marks[1] /\ Head(marks) \in Mark
         /\ Tail(marks) \in Seq(Mark)
         /\ Tail(marks) # <<>> => \A i \in 1..Len(Tail(marks)) :
              (Tail(marks)[i].extra = NoBlock) <=> (Tail(marks)[1].extra = NoBlock)
         /\ Tail(marks) # <<>> => (Tail(marks)[1].extra = NoBlock <=> marks[1].extra = NoBlock)
<1>1. /\ marks \in Seq(Mark) /\ marks # <<>>
      /\ \A i \in 1..Len(marks) : (marks[i].extra = NoBlock) <=> (marks[1].extra = NoBlock)
  BY DEF IInv, TypeOK, MarksInv
<1>2. /\ Head(marks) \in Mark /\ Tail(marks) \in Seq(Mark)
      /\ Len(Tail(marks)) = Len(marks) - 1
      /\ \A i \in 1..Len(Tail(marks)) : Tail(marks)[i] = marks[i + 1]
  BY <1>1, HeadTailProperties
<1>3. ASSUME NEW i \in 1..Len(Tail(marks))
      PROVE  (Tail(marks)[i].extra = NoBlock) <=> (marks[1].extra = NoBlock)
  <2>1. i + 1 \in 1..Len(marks)
    BY <1>1, <1>2
  <2>. QED BY <1>1, <1>2, <2>1
<1>4. Tail(marks) # <<>> => 1 \in 1..Len(Tail(marks))
  BY <1>2
<1>5. Head(marks) = marks[1]
  BY <1>1
<1>. QED BY <1>2, <1>3, <1>4, <1>5

\* Writing status records touches neither dumps, nor the index, nor the counter.
LEMMA MarkedStep ==
  ASSUME IInv, TypeOK', pc \in MarkStates,
         NextMark \/ (pc' \in MarkStates /\ UNCHANGED marks),
         UNCHANGED <<dump, index, db_next, db_open, m_nextblock, batch, first>>,
         \A n \in Numbers : data[n] # "none" => data'[n] # "none"
  PROVE  IInv'
<1>1. pc' \in MarkStates \cup {"block", "extras"}
  BY DEF NextMark, MarkStates
<1>2. NextInv'
  BY <1>1 DEF IInv, NextInv, MarkStates
<1>3. MarksInv'
  <2>1. CASE NextMark
    BY <2>1, HeadOfMarks DEF NextMark, MarksInv, MarkStates
  <2>2. CASE pc' \in MarkStates /\ UNCHANGED marks
    BY <2>2 DEF IInv, MarksInv
  <2>. QED BY <2>1, <2>2
<1>4. InBatch' => InBatch /\ Current' = Current
  <2>1. Current' = Current
    BY <1>1 DEF Current, MarkStates
  <2>2. CASE NextMark
    BY <2>1, <2>2, HeadOfMarks DEF NextMark, InBatch, PutStates, MarkStates
  <2>3. CASE pc' \in MarkStates /\ UNCHANGED marks
    BY <2>1, <2>3 DEF InBatch, PutStates, MarkStates
  <2>. QED BY <2>2, <2>3
<1>5. BatchInv'
  BY <1>4 DEF IInv, BatchInv, batch
<1>6. PutInv'
  BY <1>1 DEF PutInv, PutStates, MarkStates
<1>7. PrevInv'
  BY <1>4 DEF IInv, PrevInv, batch
<1>8. IndexInv'
  BY DEF IInv, IndexInv
<1>9. StoreInv'
  BY DEF IInv, StoreInv, Complete, Upto
<1>. QED BY <1>2, <1>3, <1>5, <1>6, <1>7, <1>8, <1>9 DEF IInv

\* A status record: the status of a block is overwritten, never removed.
LEMMA MarkDataStep ==
  ASSUME IInv, MarkData
  PROVE  IInv'
<1>1. pc \in MarkStates /\ fails' \in Nat
  <2>1. \E ok \in BOOLEAN : Put(ok)
    BY DEF MarkData
  <2>. QED BY <2>1, PutType DEF IInv, MarkData, MarkStates
<1>2. Head(marks) \in Mark /\ Tail(marks) \in Seq(Mark)
  BY <1>1, HeadOfMarks
<1>3. NextMark \/ (pc' \in MarkStates /\ UNCHANGED marks)
  BY DEF MarkData, MarkStates
<1>4. /\ data' \in [Numbers -> Status \cup {"none"}]
      /\ \A n \in Numbers : data[n] # "none" => data'[n] # "none"
  <2>1. Head(marks).number \in Numbers /\ Head(marks).status \in Status /\ Head(marks).status # "none"
    BY <1>2 DEF Mark, Status
  <2>2. data \in [Numbers -> Status \cup {"none"}]
    BY DEF IInv, TypeOK, StoreType
  <2>. QED BY <2>1, <2>2 DEF MarkData
<1>5. /\ UNCHANGED <<dump, index, extra, db_next, db_last, memory, batch, count_blocks,
                     first, seen, crashes>>
  BY DEF MarkData
<1>6. TypeOK'
  <2>1. StoreType' /\ MemoryType' /\ BatchType' /\ GhostType'
    BY <1>1, <1>4, <1>5 DEF IInv, TypeOK, StoreType, MemoryType, BatchType, GhostType, memory, batch
  <2>2. marks' \in Seq(Mark) /\ pc' \in Pcs
    BY <1>2, <1>3 DEF IInv, TypeOK, NextMark, Pcs, MarkStates
  <2>. QED BY <1>5, <2>1, <2>2 DEF IInv, TypeOK
<1>. QED BY <1>1, <1>3, <1>4, <1>5, <1>6, MarkedStep DEF memory

\* The sign block of a status record.
LEMMA MarkExtraStep ==
  ASSUME IInv, MarkExtra
  PROVE  IInv'
<1>1. pc \in MarkStates /\ fails' \in Nat
  <2>1. \E ok \in BOOLEAN : Put(ok)
    BY DEF MarkExtra
  <2>. QED BY <2>1, PutType DEF IInv, MarkExtra, MarkStates
<1>2. Head(marks) \in Mark /\ Tail(marks) \in Seq(Mark)
  BY <1>1, HeadOfMarks
<1>3. NextMark \/ (pc' \in MarkStates /\ UNCHANGED marks)
  BY DEF MarkExtra, MarkStates
<1>4. extra' \in [Numbers -> Extras \cup {NoBlock}]
  BY <1>2 DEF IInv, TypeOK, StoreType, MarkExtra, Mark
<1>5. UNCHANGED <<dump, index, data, db_next, db_last, memory, batch, count_blocks,
                  first, seen, crashes>>
  BY DEF MarkExtra
<1>6. TypeOK'
  <2>1. StoreType' /\ MemoryType' /\ BatchType' /\ GhostType'
    BY <1>1, <1>4, <1>5 DEF IInv, TypeOK, StoreType, MemoryType, BatchType, GhostType, memory, batch
  <2>2. marks' \in Seq(Mark) /\ pc' \in Pcs
    BY <1>2, <1>3 DEF IInv, TypeOK, NextMark, Pcs, MarkStates
  <2>. QED BY <1>5, <2>1, <2>2 DEF IInv, TypeOK
<1>. QED BY <1>1, <1>3, <1>5, <1>6, MarkedStep DEF memory

\* update_last_signed touches neither the blocks nor next_block.
LEMMA MarkLastStep ==
  ASSUME IInv, MarkLast
  PROVE  IInv'
<1>1. pc \in MarkStates
  BY DEF MarkLast, MarkStates
<1>2. Head(marks) \in Mark /\ Head(marks).number \in Numbers /\ Tail(marks) \in Seq(Mark)
  BY <1>1, HeadOfMarks DEF Mark
<1>3. db_last' \in Numbers /\ m_last_signed_block' \in Numbers /\ fails' \in Nat
  <2>1. CASE \E ok \in BOOLEAN : Put(ok)
    BY <1>2, <2>1, PutType DEF IInv, TypeOK, StoreType, MemoryType, MarkLast, UpdateLastSigned
  <2>2. CASE ~\E ok \in BOOLEAN : Put(ok)
    BY <2>2 DEF IInv, TypeOK, StoreType, MemoryType, GhostType, MarkLast, UpdateLastSigned
  <2>. QED BY <2>1, <2>2
<1>4. /\ NextMark
      /\ UNCHANGED <<dump, index, data, extra, db_next, db_open, m_run, m_nextblock,
                     stopping, batch, count_blocks, first, seen, crashes>>
  BY DEF MarkLast
<1>5. TypeOK'
  <2>1. StoreType' /\ MemoryType' /\ BatchType' /\ GhostType'
    BY <1>3, <1>4 DEF IInv, TypeOK, StoreType, MemoryType, BatchType, GhostType, batch
  <2>2. marks' \in Seq(Mark) /\ pc' \in Pcs
    BY <1>2, <1>4 DEF IInv, TypeOK, NextMark, Pcs, MarkStates
  <2>. QED BY <1>4, <2>1, <2>2 DEF IInv, TypeOK
<1>. QED BY <1>1, <1>4, <1>5, MarkedStep

\* The records of sign blocks name blocks of the hash index.
LEMMA ExtraMarkType ==
  ASSUME TypeOK, NEW e \in Applicable
  PROVE  ExtraMark(e) \in Mark /\ ExtraMark(e).extra # NoBlock /\ e \in Extras
<1>1. e \in Extras /\ ExtraPrev[e] \in Blocks
  BY BlocksAssumption DEF Applicable
<1>2. index[ExtraPrev[e]] \in Numbers
  BY <1>1 DEF TypeOK, StoreType
<1>. QED BY <1>1, <1>2, BlocksAssumption DEF ExtraMark, Mark, Status

\* A reply with sign blocks becomes status records, all for numbers found in the
\* hash index.
LEMMA LoadExtraBlocksStep ==
  ASSUME IInv, LoadExtraBlocks
  PROVE  IInv'
<1>1. hashes \in Seq(Entry) /\ Len(hashes) \in Nat
  BY DEF IInv, TypeOK, BatchType
<1>2. PICK k \in 1..(Len(hashes) + 1) :
        /\ hashes' = SubSeq(hashes, k, Len(hashes))
        /\ \/ UNCHANGED <<pc, marks, seen>>
           \/ /\ WellFormed /\ db_open
              /\ \E m \in 1..Len(hashes) : \E r \in [1..m -> Applicable] :
                   /\ marks' = [i \in 1..m |-> ExtraMark(r[i])]
                   /\ seen' = seen \cup {e \in Extras : ExtraVerdict[e] > 0 /\ \E i \in 1..m : r[i] = e}
              /\ pc' = "mark_data"
  BY DEF LoadExtraBlocks
<1>3. hashes' \in Seq(Entry)
  <2>1. k \in Int /\ Len(hashes) \in Int /\ \A i \in k..Len(hashes) : hashes[i] \in Entry
    BY <1>1
  <2>. QED BY <1>2, <2>1, SubSeqProperties
<1>4. UNCHANGED <<store, memory, dumps, iter, bi_prev, prev_ext_data, count_blocks,
                  first, crashes, fails>>
  BY DEF LoadExtraBlocks
<1>5. StoreType' /\ MemoryType' /\ BatchType' /\ count_blocks' \in Nat
  BY <1>3, <1>4 DEF IInv, TypeOK, StoreType, MemoryType, BatchType, store, memory
<1>6. CASE UNCHANGED <<pc, marks, seen>>
  <2>1. GhostType' /\ pc' \in Pcs /\ marks' \in Seq(Mark)
    BY <1>4, <1>6 DEF IInv, TypeOK, GhostType
  <2>2. TypeOK'
    BY <1>5, <2>1 DEF TypeOK
  <2>. QED BY <1>4, <1>6, <2>2, OutsideBatchStep DEF LoadExtraBlocks
<1>7. CASE /\ \E m \in 1..Len(hashes) : \E r \in [1..m -> Applicable] :
                /\ marks' = [i \in 1..m |-> ExtraMark(r[i])]
                /\ seen' = seen \cup {e \in Extras : ExtraVerdict[e] > 0 /\ \E i \in 1..m : r[i] = e}
           /\ pc' = "mark_data"
  <2>1. PICK m \in 1..Len(hashes) : \E r \in [1..m -> Applicable] :
          /\ marks' = [i \in 1..m |-> ExtraMark(r[i])]
          /\ seen' \subseteq seen \cup Extras
    BY <1>7
  <2>2. PICK r \in [1..m -> Applicable] :
          /\ marks' = [i \in 1..m |-> ExtraMark(r[i])]
          /\ seen' \subseteq seen \cup Extras
    BY <2>1
  <2>3. m \in Nat \ {0}
    BY <1>1
  <2>4. ASSUME NEW i \in 1..m PROVE ExtraMark(r[i]) \in Mark /\ ExtraMark(r[i]).extra # NoBlock
    <3>1. r[i] \in Applicable
      OBVIOUS
    <3>. QED BY <3>1, ExtraMarkType DEF IInv
  <2>5. marks' \in Seq(Mark) /\ Len(marks') = m /\ \A i \in 1..m : marks'[i].extra # NoBlock
    <3>1. \A i \in 1..m : marks'[i] = ExtraMark(r[i])
      BY <2>2
    <3>2. marks' \in [1..m -> Mark]
      BY <2>2, <2>4
    <3>. QED BY <2>3, <2>4, <3>1, <3>2
  <2>6. TypeOK'
    <3>1. GhostType'
      BY <1>4, <2>2 DEF IInv, TypeOK, GhostType
    <3>. QED BY <1>5, <1>7, <2>5, <3>1 DEF TypeOK, Pcs, MarkStates
  <2>7. NextInv'
    BY <1>4, <1>7 DEF IInv, NextInv, LoadExtraBlocks, store, memory
  <2>8. 1 \in 1..Len(marks')
    BY <2>3, <2>5
  <2>9. MarksInv' /\ ~InBatch'
    BY <1>7, <2>3, <2>5, <2>8 DEF MarksInv, InBatch, PutStates, MarkStates
  <2>10. BatchInv' /\ PutInv' /\ PrevInv'
    BY <1>7, <2>9 DEF BatchInv, PutInv, PrevInv, PutStates
  <2>11. IndexInv' /\ StoreInv'
    BY <1>4 DEF IInv, IndexInv, StoreInv, Complete, Upto, store, memory
  <2>. QED BY <2>6, <2>7, <2>9, <2>10, <2>11 DEF IInv
<1>. QED BY <1>2, <1>6, <1>7

(***************************************************************************)
(* The invariant holds.                                                    *)
(***************************************************************************)

\* The empty database satisfies the invariant.
LEMMA InitIInv == Init => IInv
<1>. SUFFICES ASSUME Init PROVE IInv
  OBVIOUS
<1>1. TypeOK
  <2>1. 0 \in Numbers
    BY ChainsAssumption DEF Numbers
  <2>2. StoreType
    BY <2>1 DEF Init, StoreType
  <2>3. MemoryType
    BY <2>1 DEF Init, MemoryType
  <2>4. BatchType /\ GhostType /\ pc \in Pcs /\ count_blocks \in Nat /\ marks \in Seq(Mark)
    BY DEF Init, BatchType, GhostType, Pcs
  <2>. QED BY <2>2, <2>3, <2>4 DEF TypeOK
<1>2. NextInv
  BY DEF Init, NextInv
<1>3. MarksInv /\ BatchInv /\ PutInv /\ PrevInv
  BY DEF Init, MarksInv, BatchInv, PutInv, PrevInv, InBatch, MarkStates, PutStates
<1>4. IndexInv
  BY DEF Init, IndexInv
<1>5. StoreInv
  BY ChainsAssumption DEF Init, StoreInv, Upto, Numbers
<1>. QED BY <1>1, <1>2, <1>3, <1>4, <1>5 DEF IInv

\* Steps of others leave the invariant alone.
LEMMA StutterIInv ==
  ASSUME IInv, UNCHANGED vars
  PROVE  IInv'
BY DEF IInv, TypeOK, StoreType, MemoryType, BatchType, GhostType, NextInv, MarksInv,
       BatchInv, PutInv, PrevInv, IndexInv, StoreInv, Complete, Upto, InBatch, Current,
       CheckedBlock, BlockNumber, vars, store, memory, batch, ghosts

\* Every step of the process, the worker or nobody preserves the invariant.
LEMMA NextIInv == IInv /\ [Next]_vars => IInv'
<1>. SUFFICES ASSUME IInv, [Next]_vars PROVE IInv'
  OBVIOUS
<1>1. CASE Crash
  <2>1. crashes' \in Nat
    BY <1>1 DEF IInv, TypeOK, GhostType, Crash
  <2>. QED BY <1>1, <2>1, ProcessEndsStep DEF Crash
<1>2. CASE Exit \/ NullDatabase
  <2>1. ProcessEnds /\ crashes' \in Nat
    BY <1>2 DEF IInv, TypeOK, GhostType, Exit, NullDatabase
  <2>. QED BY <2>1, ProcessEndsStep
<1>3. CASE LoopExit
  BY <1>3, WorkerEndsStep DEF LoopExit
<1>4. CASE Start \/ Stop \/ WorkerProc
  BY <1>4, StartStep, StopStep, WorkerProcStep
<1>5. CASE FetchBlocks \/ FetchTip \/ LoadPrev \/ CheckBlock \/ TakeBlock \/ BatchDone
  BY <1>5, FetchBlocksStep, FetchTipStep, LoadPrevStep, CheckBlockStep, TakeBlockStep, BatchDoneStep
<1>6. CASE V1Count \/ V1Fetch \/ V1Done
  BY <1>6, V1CountStep, V1FetchStep, V1DoneStep
<1>7. CASE PutDump \/ PutHash \/ PutData \/ PutNext
  BY <1>7, PutDumpStep, PutHashStep, PutDataStep, PutNextStep
<1>8. CASE MarkData \/ MarkExtra \/ MarkLast \/ NoExtras \/ LoadExtraBlocks
  BY <1>8, MarkDataStep, MarkExtraStep, MarkLastStep, NoExtrasStep, LoadExtraBlocksStep
<1>9. CASE UNCHANGED vars
  BY <1>9, StutterIInv
<1>. QED BY <1>1, <1>2, <1>3, <1>4, <1>5, <1>6, <1>7, <1>8, <1>9 DEF Next, Process, Worker

\* The invariant holds in every reachable state.
LEMMA Invariance == Spec => []IInv
BY InitIInv, NextIInv, PTL DEF Spec

(***************************************************************************)
(* The theorems.                                                           *)
(***************************************************************************)

\* Every variable keeps its type: in particular the first block chosen from a
\* tip and a count, and the number of every status record, stay in range.
THEOREM TypeCorrect == Spec => []TypeOK
<1>1. IInv => TypeOK
  BY DEF IInv
<1>. QED BY <1>1, Invariance, PTL

\* Numbers below the stored counter are below the one in memory.
LEMMA ClaimedIsCovered ==
  ASSUME IInv, NEW n \in Claimed
  PROVE  n \in Numbers /\ first <= n /\ n < Upto
BY ChainsAssumption DEF IInv, TypeOK, StoreType, MemoryType, NextInv, Claimed, Upto, Numbers

\* Whatever the torrents answer, whichever Put fails and wherever the process
\* dies, what next_block claims to be cached is there: dump, status and hash.
THEOREM CompleteBelowNextHolds == Spec => []CompleteBelowNext
<1>1. IInv => CompleteBelowNext
  BY ClaimedIsCovered DEF IInv, StoreInv, Complete, CompleteBelowNext
<1>. QED BY <1>1, Invariance, PTL

\* ... and it is one chain, when blocks are verified.
THEOREM CachedChainLinkedHolds == Spec => []CachedChainLinked
<1>1. IInv => CachedChainLinked
  BY ClaimedIsCovered DEF IInv, StoreInv, CachedChainLinked
<1>. QED BY <1>1, Invariance, PTL

(***************************************************************************)
(* The cache implements the append-only chain.                             *)
(***************************************************************************)

\* The variables of the abstract chain.
base  == IF db_next = 0 THEN 0 ELSE first
chain == [n \in Numbers |-> IF n \in Claimed THEN dump[n] ELSE NoBlock]

\* Only update_number moves the stored counter; before that nothing that is
\* claimed changes.
LEMMA ClaimsAreKept ==
  ASSUME IInv, [Next]_vars
  PROVE  /\ db_next' = db_next \/ PutNext
         /\ db_next # 0 => first' = first
         /\ \A n \in Numbers : n \in Claimed => dump'[n] = dump[n]
<1>1. CASE PutDump
  <2>1. /\ InBatch /\ iter <= Len(hashes) /\ Current = m_nextblock /\ db_open
    BY <1>1 DEF IInv, PutDump, InBatch, PutStates, Current, PutInv, Put
  <2>2. BlockNumber = m_nextblock /\ m_nextblock >= db_next
    BY <2>1, BlockAtHand DEF IInv, NextInv
  <2>3. \A n \in Claimed : n \in Numbers /\ n # BlockNumber
    BY <2>2, ChainsAssumption DEF IInv, TypeOK, StoreType, MemoryType, Claimed, Numbers
  <2>4. dump' = dump \/ dump' = [dump EXCEPT ![BlockNumber] = dumps[iter]]
    BY <1>1 DEF PutDump
  <2>5. \A n \in Numbers : n \in Claimed => dump'[n] = dump[n]
    BY <2>3, <2>4 DEF IInv, TypeOK, StoreType
  <2>. QED BY <1>1, <2>5 DEF PutDump
<1>2. CASE WorkerProc
  BY <1>2 DEF IInv, TypeOK, StoreType, MemoryType, NextInv, WorkerProc, store
<1>3. CASE V1Count
  BY <1>3 DEF IInv, TypeOK, StoreType, MemoryType, NextInv, V1Count, store
<1>4. CASE PutNext
  BY <1>4 DEF PutNext
<1>5. CASE ~(PutDump \/ WorkerProc \/ V1Count \/ PutNext)
  <2>1. UNCHANGED <<db_next, first, dump>>
    BY <1>5 DEF Next, Process, Worker, Start, Stop, Crash, Exit, NullDatabase, ProcessEnds,
           LoopExit, WorkerEnds, FetchBlocks, FetchTip, LoadPrev, CheckBlock, TakeBlock,
           BatchDone, LeaveBatch, V1Fetch, V1Done, PutHash, PutData, MarkData, MarkExtra,
           MarkLast, NoExtras, LoadExtraBlocks, vars, store, ghosts
  <2>. QED BY <2>1
<1>. QED BY <1>1, <1>2, <1>3, <1>4, <1>5

\* The empty database is the empty chain.
LEMMA ChainInitHolds == Init => Segment!ChainInit
BY ChainsAssumption DEF Init, Segment!ChainInit, Claimed, Numbers

\* A step of the cache either leaves the published segment alone or appends to
\* it: update_number is the step that publishes.
LEMMA ChainStep ==
  ASSUME IInv, IInv', [Next]_vars
  PROVE  [Segment!Extend]_<<base, db_next, chain>>
<1>1. CASE db_next' = db_next
  <2>1. base' = base
    BY <1>1, ClaimsAreKept DEF base
  <2>2. Claimed' = Claimed
    <3>1. CASE db_next = 0
      BY <1>1, <3>1, ChainsAssumption DEF Claimed, Numbers
    <3>2. CASE db_next # 0
      BY <1>1, <3>2, ClaimsAreKept DEF Claimed
    <3>. QED BY <3>1, <3>2
  <2>3. chain' = chain
    BY <2>2, ClaimsAreKept DEF chain
  <2>. QED BY <1>1, <2>1, <2>3
<1>2. CASE db_next' # db_next
  <2>1. /\ PutNext /\ db_open /\ db_next' = m_nextblock
        /\ UNCHANGED <<dump, first, db_open, m_nextblock>>
    BY <1>2, ClaimsAreKept DEF PutNext, UpdateNumber, Put, memory
  <2>2. db_next \in Nat /\ m_nextblock \in Nat /\ m_nextblock > db_next
    BY <1>2, <2>1 DEF IInv, TypeOK, StoreType, MemoryType, NextInv
  <2>3. db_next' # 0 /\ base' = first /\ first \in Nat /\ first >= 1
    BY <2>1, <2>2 DEF IInv, TypeOK, GhostType, NextInv, base
  <2>4. db_next # 0 => base' = base
    BY <2>3 DEF base
  <2>5. ASSUME NEW n \in Numbers
        PROVE  /\ n < db_next => chain'[n] = chain[n]
               /\ (base' <= n /\ n < db_next') <=> chain'[n] # NoBlock
               /\ (Version = 2 /\ Verification) /\ base' < n /\ n < db_next'
                    => PrevHash[chain'[n]] = chain'[n - 1]
    <3>1. n \in Int
      BY ChainsAssumption DEF Numbers
    <3>2. n \in Claimed' <=> base' <= n /\ n < db_next'
      BY <2>1, <2>3 DEF Claimed
    <3>3. n \in Claimed <=> first <= n /\ n < db_next
      BY DEF Claimed
    <3>4. chain'[n] = IF n \in Claimed' THEN dump[n] ELSE NoBlock
      BY <2>1 DEF chain
    <3>5. chain[n] = IF n \in Claimed THEN dump[n] ELSE NoBlock
      BY DEF chain
    <3>6. n < db_next => chain'[n] = chain[n]
      BY <2>1, <2>2, <2>3, <3>1, <3>2, <3>3, <3>4, <3>5
    <3>7. first <= n /\ n < db_next' => dump[n] # NoBlock
      BY <2>1 DEF IInv, StoreInv, Complete, Upto
    <3>8. ASSUME Version = 2, Verification, base' < n, n < db_next'
          PROVE  PrevHash[chain'[n]] = chain'[n - 1]
      <4>1. n - 1 \in Numbers /\ first <= n - 1 /\ n - 1 < db_next'
        BY <2>1, <2>2, <2>3, <3>8, ChainsAssumption DEF Numbers
      <4>2. n - 1 \in Claimed' /\ n \in Claimed'
        BY <2>1, <2>2, <2>3, <3>1, <3>2, <3>8, <4>1 DEF Claimed
      <4>3. chain'[n - 1] = dump[n - 1] /\ chain'[n] = dump[n]
        BY <2>1, <3>4, <4>1, <4>2 DEF chain
      <4>4. PrevHash[dump[n]] = dump[n - 1]
        BY <2>1, <2>2, <2>3, <3>1, <3>8 DEF IInv, StoreInv, Upto
      <4>. QED BY <4>3, <4>4
    <3>. QED BY <2>3, <3>2, <3>4, <3>6, <3>7, <3>8
  <2>6. Segment!Extend
    BY <2>1, <2>2, <2>4, <2>5 DEF Segment!Extend, base, chain
  <2>. QED BY <2>6
<1>. QED BY <1>1, <1>2

\* Under crashes, failed Puts and forks the stored counter and the blocks below
\* it behave as the append-only, linked chain of CachedChain.
THEOREM CacheImplementsChain == Spec => CacheIsAppendOnly
<1>1. Init => Segment!ChainInit
  BY ChainInitHolds
<1>2. IInv /\ IInv' /\ [Next]_vars => [Segment!Extend]_<<base, db_next, chain>>
  BY ChainStep
<1>. QED BY <1>1, <1>2, Invariance, PTL DEF Spec, CacheIsAppendOnly, Segment!ChainSpec, base, chain

\* A step that writes neither counter of signed blocks keeps them equal.
LEMMA LastSignedKept ==
  ASSUME LastSignedPersisted,
         UNCHANGED <<db_open, db_last, m_last_signed_block>> \/ db_open' = FALSE
  PROVE  LastSignedPersisted'
BY Zenon DEF LastSignedPersisted

\* The last_signed_block in memory, which clients are told, is the stored one in
\* every reachable state: start() loads it, update_last_signed changes it only
\* after a successful Put, and the death of the process loses both the database
\* handle and the copy.
THEOREM LastSignedPersistedHolds == Spec => []LastSignedPersisted
<1>1. Init => LastSignedPersisted
  BY DEF Init, LastSignedPersisted
<1>2. LastSignedPersisted /\ [Next]_vars => LastSignedPersisted'
  <2>. SUFFICES ASSUME LastSignedPersisted, [Next]_vars
                PROVE  LastSignedPersisted'
    OBVIOUS
  <2>1. CASE UNCHANGED vars
    BY <2>1, LastSignedKept DEF vars, store, memory
  <2>2. CASE Start
    BY <2>2 DEF Start, store, LastSignedPersisted
  <2>3. CASE Crash \/ Exit \/ NullDatabase
    BY <2>3, LastSignedKept DEF Crash, Exit, NullDatabase, ProcessEnds
  <2>4. CASE MarkLast
    <3>1. CASE m_last_signed_block < Head(marks).number
      BY <2>4, <3>1 DEF MarkLast, UpdateLastSigned, LastSignedPersisted
    <3>2. CASE ~(m_last_signed_block < Head(marks).number)
      BY <2>4, <3>2 DEF MarkLast, UpdateLastSigned, LastSignedPersisted
    <3>. QED BY <3>1, <3>2
  <2>5. CASE Stop \/ WorkerProc
    BY <2>5, LastSignedKept DEF Stop, WorkerProc, store
  <2>6. CASE LoopExit
    BY <2>6, LastSignedKept DEF LoopExit, WorkerEnds, store
  <2>7. CASE FetchBlocks \/ FetchTip \/ BatchDone \/ TakeBlock \/ NoExtras \/ LoadExtraBlocks
    BY <2>7, LastSignedKept DEF FetchBlocks, FetchTip, BatchDone, TakeBlock, NoExtras,
         LoadExtraBlocks, store, memory
  <2>8. CASE LoadPrev \/ CheckBlock
    BY <2>8, LastSignedKept DEF LoadPrev, CheckBlock, WorkerEnds, store, memory
  <2>9. CASE V1Count \/ V1Fetch \/ V1Done
    BY <2>9, LastSignedKept DEF V1Count, V1Fetch, V1Done, store, memory
  <2>10. CASE PutDump \/ PutHash \/ PutData \/ PutNext
    BY <2>10, LastSignedKept DEF PutDump, PutHash, PutData, PutNext, memory
  <2>11. CASE MarkData \/ MarkExtra
    BY <2>11, LastSignedKept DEF MarkData, MarkExtra, memory
  <2>. QED BY <2>1, <2>2, <2>3, <2>4, <2>5, <2>6, <2>7, <2>8, <2>9, <2>10, <2>11
            DEF Next, Process, Worker
<1>. QED BY <1>1, <1>2, PTL DEF Spec
(***************************************************************************)
(* Signatures.  A second invariant, on top of the first, follows the status *)
(* of a block from the verdict on its successor to the record on disk.     *)
(***************************************************************************)

\* Numbers the worker, or the database without one, relies on.
Relied == {n \in Numbers : first <= n /\ n < Upto}

\* Numbers for which the properties' conditions hold.
Agreed   == {n \in Numbers : IndexAgrees(n)}
Vouched  == {n \in Numbers : Attested(n)}
Unsigned == {n \in Numbers : CoreAddrVerification(dump[n], n) = 0}

\* The Puts of save_block after the first, and update_number.
Storing == PutStates \ {"put_dump"}

\* A stored status is the truth about the block.
StatusInv ==
  \A n \in Relied : /\ data[n] = "signed" /\ n \in Agreed => n \in Vouched
                    /\ data[n] = "awaiting_signature" => n \in Unsigned

\* So is one about to be written.
RecordsInv ==
  pc \in MarkStates =>
    \A i \in 1..Len(marks) :
      marks[i].number \in Relied =>
        /\ marks[i].status = "signed" /\ marks[i].number \in Agreed => marks[i].number \in Vouched
        /\ marks[i].status = "awaiting_signature" => marks[i].number \in Unsigned

\* A verified block carries no forged signature and has the announced hash.
VerdictInv ==
  /\ pc \in {"block", "extras"} \cup MarkStates => Version = 2
  /\ pc \in PutStates =>
       /\ Version = 2 /\ CheckedBlock => CoreAddrVerification(dumps[iter], BlockNumber) # -1
       /\ Version = 1 \/ CheckedBlock => dumps[iter] = hashes[iter].hash

\* The predecessor remembered as awaiting a signature has none.
AwaitInv ==
  (/\ Version = 2 /\ InBatch /\ bi_prev # NoBlock /\ db_open
   /\ Current > first /\ prev_ext_data = "awaiting_signature")
     => CoreAddrVerification(bi_prev, Current - 1) = 0

\* Only a refused sign block, or the verdict on the block just saved, writes a
\* status other than signed, and the latter before any other record.
PendingInv ==
  /\ pc = "put_next" /\ Version = 2 /\ CheckedBlock => data[Current] = "not_checked"
  /\ pc \in MarkStates =>
       \A i \in 1..Len(marks) :
         marks[i].status # "signed" =>
           \/ marks[i].extra \in Extras /\ ~(ExtraVerdict[marks[i].extra] > 0)
           \/ /\ pc = "mark_data" /\ Len(marks) = 1 /\ marks[1].extra = NoBlock
              /\ data[marks[1].number] # "signed"
  /\ pc = "mark_last" => marks[1].status = "signed"

OpenInv == pc \in MarkStates \cup Storing => db_open

\* As long as nothing has failed, every number is written once: nothing is kept
\* above the stored counter, but for the block being saved.
FaultlessInv ==
  NoFaults =>
    /\ \A b \in Blocks : index[b] # 0 =>
         index[b] < db_next \/ (pc \in {"put_data", "put_next"} /\ index[b] <= Current)
    /\ \A n \in Numbers : dump[n] # NoBlock =>
         n < db_next \/ (pc \in Storing /\ n <= Current)
    /\ pc \in MarkStates => \A i \in 1..Len(marks) : marks[i].number < db_next
    /\ pc \in {"mark_extra", "mark_last"} => data[marks[1].number] = marks[1].status
    /\ Verification \/ Version = 1 => \A b \in Blocks : index[b] > 1 => dump[index[b]] = b
    /\ db_last # 0 => db_last < db_next

SInv ==
  /\ StatusInv /\ RecordsInv /\ VerdictInv /\ AwaitInv
  /\ PendingInv /\ OpenInv /\ FaultlessInv

\* A step that writes nothing and leaves no Put half done, unless it is a fault.
QuietStep ==
  /\ UNCHANGED <<store, seen>>
  /\ pc' \notin MarkStates \cup Storing
  /\ Relied' \subseteq Relied
  /\ NoFaults' => NoFaults /\ pc \notin Storing

\* The same counters, the same numbers.
LEMMA ReliedKept ==
  ASSUME UNCHANGED <<first, db_open, m_nextblock, db_next>>
  PROVE  Relied' = Relied
BY DEF Relied, Upto

\* The end of the process loses what the database does not claim.
LEMMA ProcessEndsQuiet ==
  ASSUME IInv, OpenInv, Crash \/ Exit \/ NullDatabase
  PROVE  QuietStep
<1>1. ProcessEnds
  BY DEF Crash, Exit, NullDatabase
<1>2. UNCHANGED <<store, seen>> /\ pc' \notin MarkStates \cup Storing
  BY <1>1 DEF ProcessEnds, MarkStates, Storing, PutStates
<1>3. Relied' \subseteq Relied
  <2>1. first' = first /\ Upto' = db_next
    BY <1>1 DEF ProcessEnds, Upto, store
  <2>2. Upto >= db_next /\ Upto \in Nat /\ db_next \in Nat
    BY DEF IInv, TypeOK, StoreType, MemoryType, NextInv, Upto
  <2>3. \A n \in Numbers : n \in Int
    BY ChainsAssumption DEF Numbers
  <2>. QED BY <2>1, <2>2, <2>3 DEF Relied
<1>4. fails' = fails /\ fails \in Nat /\ crashes \in Nat
  BY <1>1 DEF IInv, TypeOK, GhostType, ProcessEnds
<1>5. CASE Crash
  BY <1>2, <1>3, <1>4, <1>5 DEF Crash, QuietStep, NoFaults
<1>6. CASE Exit
  BY <1>2, <1>3, <1>4, <1>6 DEF Exit, QuietStep, NoFaults, Storing, PutStates
<1>7. CASE NullDatabase
  BY <1>2, <1>3, <1>4, <1>7 DEF NullDatabase, QuietStep, NoFaults, OpenInv
<1>. QED BY <1>5, <1>6, <1>7

\* The first block is chosen before anything is relied on.
LEMMA BeginQuiet ==
  ASSUME IInv, Start \/ WorkerProc \/ V1Count
  PROVE  QuietStep
<1>1. /\ UNCHANGED <<store, seen, crashes, fails>>
      /\ pc' \notin MarkStates \cup Storing /\ pc \notin Storing
  BY DEF Start, WorkerProc, V1Count, MarkStates, Storing, PutStates, ghosts
<1>2. Relied' \subseteq Relied
  <2>2. CASE Start
    <3>1. Upto' = db_next /\ Upto = db_next /\ first' = first
      BY <2>2 DEF IInv, NextInv, Start, Upto, store, ghosts
    <3>. QED BY <3>1 DEF Relied
  <2>3. CASE WorkerProc \/ V1Count
    <3>1. CASE m_nextblock # 0
      BY <1>1, <2>3, <3>1, ReliedKept DEF WorkerProc, V1Count, store
    <3>2. CASE m_nextblock = 0 /\ ~db_open
      <4>1. first' = first /\ Upto' = Upto
        BY <1>1, <2>3, <3>2 DEF WorkerProc, V1Count, Upto, store
      <4>. QED BY <4>1 DEF Relied
    <3>3. CASE m_nextblock = 0 /\ db_open
      <4>1. (first' = m_nextblock' \/ m_nextblock' = 0) /\ db_open'
        BY <2>3, <3>3 DEF WorkerProc, V1Count
      <4>2. m_nextblock' \in Nat
        BY <2>3, V1CountStep, WorkerProcStep DEF IInv, TypeOK, MemoryType
      <4>3. ASSUME NEW n \in Numbers PROVE n \notin Relied'
        BY <4>1, <4>2, ChainsAssumption DEF Relied, Upto, Numbers
      <4>. QED BY <4>3 DEF Relied
    <3>. QED BY <3>1, <3>2, <3>3
  <2>. QED BY <2>2, <2>3
<1>. QED BY <1>1, <1>2 DEF QuietStep, NoFaults

\* Between two blocks, and at a failed Put of save_block, nothing is written.
LEMMA WorkerQuiet ==
  ASSUME IInv, LoopExit \/ FetchBlocks \/ FetchTip \/ LoadPrev \/ CheckBlock \/ TakeBlock
                 \/ BatchDone \/ V1Fetch \/ V1Done \/ NoExtras
  PROVE  QuietStep
<1>1. pc' \notin MarkStates \cup Storing /\ pc \notin Storing
  BY DEF LoopExit, FetchBlocks, FetchTip, LoadPrev, CheckBlock, TakeBlock, BatchDone, V1Fetch, V1Done,
         NoExtras, WorkerEnds, LeaveBatch, MarkStates, Storing, PutStates
<1>2. UNCHANGED <<store, seen, crashes, fails, first, db_open, m_nextblock>>
  BY DEF LoopExit, FetchBlocks, FetchTip, LoadPrev, CheckBlock, TakeBlock, BatchDone, V1Fetch, V1Done,
         NoExtras, WorkerEnds, memory, ghosts
<1>3. Relied' = Relied
  BY <1>2, ReliedKept DEF store
<1>. QED BY <1>1, <1>2, <1>3 DEF QuietStep, NoFaults

\* A failed Put is a fault.
LEMMA FailedPutQuiet ==
  ASSUME IInv, SaveFailed, Put(FALSE), UNCHANGED <<store, memory, first, seen, crashes>>
  PROVE  QuietStep
<1>1. pc' \notin MarkStates \cup Storing
  BY DEF SaveFailed, LeaveBatch, MarkStates, Storing, PutStates
<1>2. Relied' = Relied
  BY ReliedKept DEF memory, store
<1>3. ~NoFaults'
  BY DEF IInv, TypeOK, GhostType, Put, NoFaults
<1>. QED BY <1>1, <1>2, <1>3 DEF QuietStep
\* What vouches for a block stays: its dump is not replaced, what was seen is not
\* forgotten and no entry leaves the hash index.
LEMMA EvidenceKept ==
  ASSUME NEW n \in Numbers, dump'[n] = dump[n], seen \subseteq seen',
         \A b \in Blocks : index[b] = n => index'[b] = n
  PROVE  /\ n \in Agreed' => n \in Agreed
         /\ n \in Vouched => n \in Vouched'
         /\ n \in Unsigned => n \in Unsigned'
<1>1. n \in Agreed' => n \in Agreed
  BY DEF Agreed, IndexAgrees
<1>2. n \in Unsigned => n \in Unsigned'
  BY DEF Unsigned, CoreAddrVerification
<1>3. ASSUME Attested(n) PROVE n \in Vouched'
  BY <1>3 DEF Attested, Vouched, CoreAddrVerification
<1>. QED BY <1>1, <1>2, <1>3 DEF Vouched

\* A quiet step does not disturb what is known about signatures.
LEMMA QuietKeeps ==
  ASSUME IInv, SInv, QuietStep
  PROVE  StatusInv' /\ RecordsInv' /\ PendingInv' /\ OpenInv' /\ FaultlessInv'
<1>1. /\ UNCHANGED <<dump, index, data, db_next, db_last, seen>>
      /\ pc' \notin MarkStates /\ pc' \notin Storing
  BY DEF QuietStep, store
<1>2. StatusInv'
  <2>1. ASSUME NEW n \in Relied'
        PROVE  /\ data'[n] = "signed" /\ n \in Agreed' => n \in Vouched'
               /\ data'[n] = "awaiting_signature" => n \in Unsigned'
    <3>1. n \in Relied /\ n \in Numbers
      BY DEF QuietStep, Relied
    <3>2. /\ n \in Agreed' => n \in Agreed
          /\ n \in Vouched => n \in Vouched'
          /\ n \in Unsigned => n \in Unsigned'
      BY <1>1, <3>1, EvidenceKept
    <3>. QED BY <1>1, <3>1, <3>2 DEF SInv, StatusInv
  <2>. QED BY <2>1 DEF StatusInv
<1>3. RecordsInv' /\ OpenInv'
  BY <1>1 DEF RecordsInv, OpenInv
<1>4. PendingInv'
  BY <1>1 DEF PendingInv, Storing, PutStates, MarkStates
<1>5. FaultlessInv'
  <2>. SUFFICES ASSUME NoFaults' PROVE FaultlessInv'
    BY DEF FaultlessInv
  <2>1. NoFaults /\ pc \notin Storing
    BY DEF QuietStep
  <2>2. /\ \A b \in Blocks : index[b] # 0 => index[b] < db_next
        /\ \A n \in Numbers : dump[n] # NoBlock => n < db_next
        /\ Verification \/ Version = 1 => \A b \in Blocks : index[b] > 1 => dump[index[b]] = b
        /\ db_last # 0 => db_last < db_next
    BY <2>1 DEF SInv, FaultlessInv, Storing, PutStates
  <2>. QED BY <1>1, <2>2 DEF FaultlessInv, MarkStates
<1>. QED BY <1>2, <1>3, <1>4, <1>5

(***************************************************************************)
(* Verdicts.                                                               *)
(***************************************************************************)

\* Outside a batch there is no verdict to keep.
LEMMA BetweenBatches ==
  ASSUME pc' \in {"off", "spawned", "loop", "v1", "extras", "stopped"},
         pc' = "extras" => Version = 2
  PROVE  VerdictInv' /\ AwaitInv'
BY DEF VerdictInv, AwaitInv, InBatch, PutStates, MarkStates

\* A step inside a batch that keeps the block at hand.
LEMMA SameBlock ==
  ASSUME VerdictInv, AwaitInv, pc \in PutStates, pc' \in PutStates,
         UNCHANGED <<batch, first, db_open>>, Current' = Current
  PROVE  VerdictInv' /\ AwaitInv'
<1>1. VerdictInv'
  BY DEF VerdictInv, CheckedBlock, BlockNumber, CoreAddrVerification, batch, PutStates, MarkStates
<1>2. AwaitInv'
  BY DEF AwaitInv, InBatch, CoreAddrVerification, batch
<1>. QED BY <1>1, <1>2

\* The status read with the predecessor is the stored one.
LEMMA LoadPrevAwait ==
  ASSUME IInv, StatusInv, VerdictInv, LoadPrev
  PROVE  VerdictInv' /\ AwaitInv'
<1>1. /\ InBatch /\ iter <= Len(hashes) /\ Current = m_nextblock
      /\ BlockNumber > 1 /\ db_open /\ pc = "block"
  BY DEF LoadPrev, InBatch, MoreBlocks, CheckedBlock, Current
<1>2. BlockNumber = m_nextblock /\ BlockNumber - 1 \in Numbers
  BY <1>1, BlockAtHand, ChainsAssumption DEF Numbers
<1>3. CASE pc' \in {"extras", "stopped"}
  BY <1>1, <1>3, BetweenBatches DEF VerdictInv
<1>4. CASE pc' \notin {"extras", "stopped"}
  <2>1. PICK b \in GetBlock(BlockNumber - 1) :
          /\ b \in Blocks
          /\ bi_prev' = b
          /\ prev_ext_data' = ExtData(BlockNumber - 1, prev_ext_data)
          /\ UNCHANGED <<store, memory, pc, hashes, dumps, iter, count_blocks, marks, ghosts>>
    BY <1>4 DEF LoadPrev, LeaveBatch, WorkerEnds
  <2>2. Current' = m_nextblock /\ first' = first
    BY <1>1, <2>1 DEF Current, memory, ghosts
  <2>3. ASSUME m_nextblock > first, prev_ext_data' = "awaiting_signature"
        PROVE  CoreAddrVerification(b, m_nextblock - 1) = 0
    <3>1. m_nextblock - 1 \in Relied /\ m_nextblock - 1 < Upto
      BY <1>1, <1>2, <2>3 DEF IInv, TypeOK, MemoryType, GhostType, Upto, Relied
    <3>2. dump[m_nextblock - 1] # NoBlock /\ data[m_nextblock - 1] # "none"
      BY <3>1 DEF IInv, StoreInv, Complete, Relied
    <3>3. b = dump[m_nextblock - 1] /\ data[m_nextblock - 1] = "awaiting_signature"
      BY <1>2, <2>1, <2>3, <3>2 DEF GetBlock, ExtData
    <3>. QED BY <3>1, <3>3 DEF StatusInv, Unsigned
  <2>4. AwaitInv'
    BY <2>1, <2>2, <2>3 DEF AwaitInv, CoreAddrVerification
  <2>5. VerdictInv'
    BY <1>1, <2>1 DEF VerdictInv, PutStates, MarkStates
  <2>. QED BY <2>4, <2>5
<1>. QED BY <1>3, <1>4

\* A dump that is about to be saved has passed, or need not be verified.
LEMMA TakenVerdict ==
  ASSUME IInv, SInv, CheckBlock \/ TakeBlock
  PROVE  VerdictInv' /\ AwaitInv'
<1>0. pc = "block" /\ Version = 2
  BY DEF CheckBlock, TakeBlock, SInv, VerdictInv
<1>1. CASE pc' \in {"extras", "stopped"}
  BY <1>0, <1>1, BetweenBatches
<1>2. CASE pc' \notin {"extras", "stopped"}
  <2>1. /\ pc = "block" /\ pc' = "put_dump"
        /\ UNCHANGED <<store, memory, batch, count_blocks, marks, ghosts>>
        /\ CheckedBlock => BlockPasses(dumps[iter])
        /\ CheckedBlock \/ TakeBlock
    BY <1>2 DEF CheckBlock, TakeBlock, LeaveBatch, WorkerEnds
  <2>2. AwaitInv'
    BY <2>1 DEF SInv, AwaitInv, InBatch, PutStates, Current, CoreAddrVerification, memory, batch, ghosts
  <2>4. VerdictInv'
    BY <1>0, <2>1 DEF VerdictInv, PutStates, MarkStates, BlockPasses, CheckedBlock, BlockNumber, CoreAddrVerification, batch
  <2>. QED BY <2>2, <2>4
<1>. QED BY <1>1, <1>2
\* Version 1 saves what it was given under the hash it has.
LEMMA V1FetchVerdict ==
  ASSUME IInv, V1Fetch
  PROVE  VerdictInv' /\ AwaitInv'
<1>1. CASE pc' = "loop"
  BY <1>1, BetweenBatches
<1>2. CASE pc' # "loop"
  <2>1. PICK b : /\ hashes' = <<[number |-> m_nextblock, hash |-> b, extra |-> <<>>]>>
                 /\ dumps' = <<b>> /\ iter' = 1 /\ pc' = "put_dump"
    BY <1>2 DEF V1Fetch
  <2>2. Version = 1
    BY DEF IInv, NextInv, V1Fetch
  <2>3. dumps'[iter'] = hashes'[iter'].hash
    BY <2>1
  <2>. QED BY <2>1, <2>2, <2>3 DEF VerdictInv, AwaitInv, MarkStates
<1>. QED BY <1>1, <1>2

\* Verdicts are kept by every step that is not a Put of a status.
LEMMA QuietVerdict ==
  ASSUME IInv, SInv,
         Start \/ WorkerProc \/ V1Count \/ Crash \/ Exit \/ NullDatabase
           \/ LoopExit \/ FetchBlocks \/ FetchTip \/ BatchDone \/ V1Done \/ NoExtras
  PROVE  VerdictInv' /\ AwaitInv'
<1>1. CASE FetchBlocks
  BY <1>1 DEF FetchBlocks, VerdictInv, AwaitInv, PutStates, MarkStates
<1>2. CASE ~FetchBlocks
  <2>1. pc' \in {"off", "spawned", "loop", "v1", "extras", "stopped"}
    BY <1>2 DEF Start, WorkerProc, V1Count, Crash, Exit, NullDatabase, ProcessEnds, LoopExit, WorkerEnds,
           FetchTip, BatchDone, LeaveBatch, V1Done, NoExtras
  <2>2. pc' = "extras" => Version = 2
    BY <1>2 DEF Start, WorkerProc, V1Count, Crash, Exit, NullDatabase, ProcessEnds, LoopExit, WorkerEnds,
           FetchTip, BatchDone, V1Done, NoExtras, SInv, VerdictInv
  <2>. QED BY <2>1, <2>2, BetweenBatches
<1>. QED BY <1>1, <1>2

\* save_block, Put by Put.
LEMMA PutVerdict ==
  ASSUME IInv, SInv, PutDump \/ PutHash \/ PutData
  PROVE  VerdictInv' /\ AwaitInv'
<1>1. pc \in PutStates /\ pc # "put_next" /\ Current = m_nextblock
  BY DEF PutDump, PutHash, PutData, PutStates, Current
<1>2. CASE SaveFailed
  BY <1>2, BetweenBatches DEF SaveFailed, LeaveBatch
<1>3. CASE ~SaveFailed
  <2>1. UNCHANGED <<batch, first, db_open>> /\ pc' \in PutStates
    BY <1>3 DEF PutDump, PutHash, PutData, PutStates, batch, memory
  <2>2. Current' = Current
    <3>1. CASE PutDump \/ PutHash
      BY <1>1, <1>3, <3>1 DEF PutDump, PutHash, Current, memory
    <3>2. CASE PutData
      <4>1. BlockNumber = m_nextblock
        BY <1>1, BlockAtHand DEF IInv, PutInv, InBatch
      <4>2. m_nextblock' = m_nextblock + 1 /\ pc' = "put_next" /\ m_nextblock \in Nat
        BY <1>3, <3>2, <4>1 DEF PutData, IInv, TypeOK, MemoryType
      <4>. QED BY <1>1, <4>2 DEF Current
    <3>. QED BY <3>1, <3>2
  <2>. QED BY <1>1, <2>1, <2>2, SameBlock DEF SInv
<1>. QED BY <1>2, <1>3
(***************************************************************************)
(* The Puts of one block and its status.                                   *)
(***************************************************************************)

\* The block being saved is the next one.
LEMMA Saving ==
  ASSUME IInv, pc \in PutStates, pc # "put_next"
  PROVE  /\ BlockNumber = m_nextblock /\ Current = m_nextblock
         /\ m_nextblock \in Numbers /\ m_nextblock \in Nat \ {0}
         /\ hashes[iter].hash \in Blocks /\ OnChain(hashes[iter].hash, m_nextblock)
         /\ dumps[iter] \in Blocks \cup {Junk}
<1>1. InBatch /\ Current = m_nextblock /\ iter <= Len(hashes) /\ iter \in 1..Len(dumps)
  BY DEF InBatch, Current, IInv, PutInv, TypeOK, BatchType
<1>2. dumps[iter] \in Blocks \cup {Junk}
  BY <1>1 DEF IInv, TypeOK, BatchType
<1>. QED BY <1>1, <1>2, BlockAtHand DEF IInv, TypeOK, MemoryType

\* A number relied on while a block is being saved is below it and not 0.
LEMMA ReliedBelow ==
  ASSUME IInv, db_open, NEW n \in Relied
  PROVE  n \in Numbers /\ n \in Nat \ {0} /\ n < m_nextblock
<1>1. n \in Numbers /\ n \in Nat /\ first <= n /\ n < m_nextblock
  BY ChainsAssumption DEF Relied, Upto, Numbers
<1>2. m_nextblock # 0 /\ first >= 1
  BY <1>1 DEF IInv, TypeOK, MemoryType, NextInv
<1>. QED BY <1>1, <1>2 DEF IInv, TypeOK, GhostType

\* The dump is written where nothing has been stored.
LEMMA PutDumpStatus ==
  ASSUME IInv, SInv, PutDump
  PROVE  StatusInv' /\ RecordsInv' /\ PendingInv' /\ OpenInv' /\ FaultlessInv'
<1>1. pc = "put_dump" /\ pc \in PutStates
  BY DEF PutDump, PutStates
<1>2. CASE Put(FALSE) /\ SaveFailed /\ UNCHANGED dump
  <2>1. QuietStep
    BY <1>2, FailedPutQuiet DEF PutDump, store
  <2>. QED BY <2>1, QuietKeeps
<1>3. CASE /\ Put(TRUE)
           /\ dump' = [dump EXCEPT ![BlockNumber] = dumps[iter]]
           /\ pc' = "put_hash"
  <2>1. /\ db_open /\ UNCHANGED fails
        /\ UNCHANGED <<index, data, db_next, db_last, memory, first, seen, crashes>>
    BY <1>3 DEF PutDump, Put
  <2>2. /\ m_nextblock \in Numbers /\ m_nextblock \in Nat
        /\ \A n \in Numbers : n # m_nextblock => dump'[n] = dump[n]
    BY <1>1, <1>3, Saving DEF IInv, TypeOK, StoreType
  <2>3. Relied' = Relied
    BY <2>1, ReliedKept DEF memory
  <2>4. StatusInv'
    <3>1. ASSUME NEW n \in Relied'
          PROVE  /\ data'[n] = "signed" /\ n \in Agreed' => n \in Vouched'
                 /\ data'[n] = "awaiting_signature" => n \in Unsigned'
      <4>1. n \in Relied /\ n \in Numbers /\ n # m_nextblock
        BY <2>1, <2>2, <2>3, ReliedBelow
      <4>2. /\ n \in Agreed' => n \in Agreed
            /\ n \in Vouched => n \in Vouched'
            /\ n \in Unsigned => n \in Unsigned'
        BY <2>1, <2>2, <4>1, EvidenceKept
      <4>. QED BY <2>1, <4>1, <4>2 DEF SInv, StatusInv
    <3>. QED BY <3>1 DEF StatusInv
  <2>5. RecordsInv' /\ PendingInv'
    BY <1>3 DEF RecordsInv, PendingInv, MarkStates
  <2>6. OpenInv'
    BY <2>1 DEF OpenInv, memory
  <2>7. FaultlessInv'
    <3>. SUFFICES ASSUME NoFaults PROVE FaultlessInv'
      BY <2>1 DEF FaultlessInv, NoFaults
    <3>1. /\ \A b \in Blocks : index[b] # 0 => index[b] < db_next
          /\ \A n \in Numbers : dump[n] # NoBlock => n < db_next
          /\ Verification \/ Version = 1 => \A b \in Blocks : index[b] > 1 => dump[index[b]] = b
          /\ db_last # 0 => db_last < db_next
      BY <1>1 DEF SInv, FaultlessInv, Storing, PutStates
    <3>2. Current' = m_nextblock /\ pc' \in Storing /\ db_next <= m_nextblock
      BY <1>3, <2>1 DEF Current, memory, Storing, PutStates, IInv, NextInv
    <3>3. \A n \in Numbers : dump'[n] # NoBlock => n < db_next \/ n <= m_nextblock
      <4>1. m_nextblock <= m_nextblock
        BY <2>2
      <4>. QED BY <2>2, <3>1, <4>1
    <3>4. ASSUME NEW b \in Blocks, index[b] > 1, Verification \/ Version = 1
          PROVE  dump'[index[b]] = b
      <4>1. index[b] \in Numbers /\ index[b] \in Nat /\ db_next \in Nat
        BY ChainsAssumption DEF IInv, TypeOK, StoreType, Numbers
      <4>2. index[b] # m_nextblock
        BY <2>2, <3>1, <3>2, <3>4, <4>1
      <4>. QED BY <2>2, <3>1, <3>4, <4>1, <4>2
    <3>. QED BY <1>3, <2>1, <3>1, <3>2, <3>3, <3>4 DEF FaultlessInv, MarkStates
  <2>. QED BY <2>4, <2>5, <2>6, <2>7
<1>. QED BY <1>2, <1>3 DEF PutDump

\* The hash index gains an entry for the block being saved and loses none.
LEMMA PutHashStatus ==
  ASSUME IInv, SInv, PutHash
  PROVE  StatusInv' /\ RecordsInv' /\ PendingInv' /\ OpenInv' /\ FaultlessInv'
<1>1. pc = "put_hash" /\ pc \in PutStates
  BY DEF PutHash, PutStates
<1>2. CASE Put(FALSE) /\ SaveFailed /\ UNCHANGED index
  <2>1. QuietStep
    BY <1>2, FailedPutQuiet DEF PutHash, store
  <2>. QED BY <2>1, QuietKeeps
<1>3. CASE /\ Put(TRUE)
           /\ index' = [index EXCEPT ![hashes[iter].hash] = BlockNumber]
           /\ pc' = "put_data"
  <2>1. /\ db_open /\ UNCHANGED fails
        /\ UNCHANGED <<dump, data, db_next, db_last, memory, first, seen, crashes>>
    BY <1>3 DEF PutHash, Put
  <2>2. /\ index'[hashes[iter].hash] = m_nextblock /\ hashes[iter].hash \in Blocks
        /\ \A b \in Blocks : b # hashes[iter].hash => index'[b] = index[b]
    BY <1>1, <1>3, Saving DEF IInv, TypeOK, StoreType
  <2>3. Relied' = Relied
    BY <2>1, ReliedKept DEF memory
  <2>4. StatusInv'
    <3>1. ASSUME NEW n \in Relied'
          PROVE  /\ data'[n] = "signed" /\ n \in Agreed' => n \in Vouched'
                 /\ data'[n] = "awaiting_signature" => n \in Unsigned'
      <4>1. n \in Relied /\ n \in Numbers /\ n \in Nat \ {0} /\ n < m_nextblock
        BY <2>1, <2>3, ReliedBelow
      <4>2. index[hashes[iter].hash] # n
        <5>1. ASSUME index[hashes[iter].hash] = n PROVE FALSE
          <6>1. OnChain(hashes[iter].hash, n)
            BY <2>2, <4>1, <5>1 DEF IInv, IndexInv
          <6>2. OnChain(hashes[iter].hash, m_nextblock)
            BY <1>1, Saving
          <6>3. n = m_nextblock
            BY <6>1, <6>2, OneHeight
          <6>. QED BY <4>1, <6>3
        <5>. QED BY <5>1
      <4>3. \A b \in Blocks : index[b] = n => index'[b] = n
        BY <2>2, <4>2
      <4>4. /\ n \in Agreed' => n \in Agreed
            /\ n \in Vouched => n \in Vouched'
            /\ n \in Unsigned => n \in Unsigned'
        BY <2>1, <4>1, <4>3, EvidenceKept
      <4>. QED BY <2>1, <4>1, <4>4 DEF SInv, StatusInv
    <3>. QED BY <3>1 DEF StatusInv
  <2>5. RecordsInv' /\ PendingInv'
    BY <1>3 DEF RecordsInv, PendingInv, MarkStates
  <2>6. OpenInv'
    BY <2>1 DEF OpenInv, memory
  <2>7. FaultlessInv'
    <3>. SUFFICES ASSUME NoFaults PROVE FaultlessInv'
      BY <2>1 DEF FaultlessInv, NoFaults
    <3>1. Current' = m_nextblock /\ Current = m_nextblock /\ m_nextblock \in Nat
      BY <1>1, <1>3, <2>1, Saving DEF Current, memory
    <3>2. /\ \A b \in Blocks : index[b] # 0 => index[b] < db_next
          /\ \A n \in Numbers : dump[n] # NoBlock => n < db_next \/ n <= m_nextblock
          /\ Verification \/ Version = 1 => \A b \in Blocks : index[b] > 1 => dump[index[b]] = b
          /\ db_last # 0 => db_last < db_next
      BY <1>1, <3>1 DEF SInv, FaultlessInv
    <3>3. \A b \in Blocks : index'[b] # 0 => index'[b] < db_next \/ index'[b] <= m_nextblock
      BY <2>2, <3>1, <3>2
    <3>4. m_nextblock > 1 /\ (Verification \/ Version = 1) => dump[m_nextblock] = hashes[iter].hash
      <4>1. dump[m_nextblock] = dumps[iter] /\ BlockNumber = m_nextblock
        BY <1>1, <3>1, Saving DEF IInv, PutInv
      <4>. QED BY <1>1, <4>1 DEF SInv, VerdictInv, CheckedBlock
    <3>5. Verification \/ Version = 1 => \A b \in Blocks : index'[b] > 1 => dump[index'[b]] = b
      BY <2>2, <3>2, <3>4
    <3>. QED BY <1>3, <2>1, <3>1, <3>2, <3>3, <3>5 DEF FaultlessInv, MarkStates, Storing, PutStates
  <2>. QED BY <2>4, <2>5, <2>6, <2>7
<1>. QED BY <1>2, <1>3 DEF PutHash
\* A saved block starts as not checked; block 1 needs no signature.
LEMMA PutDataStatus ==
  ASSUME IInv, SInv, PutData
  PROVE  StatusInv' /\ RecordsInv' /\ PendingInv' /\ OpenInv' /\ FaultlessInv'
<1>1. pc = "put_data" /\ pc \in PutStates
  BY DEF PutData, PutStates
<1>2. CASE Put(FALSE) /\ SaveFailed /\ UNCHANGED <<data, m_nextblock>>
  <2>1. QuietStep
    BY <1>2, FailedPutQuiet DEF PutData, store, memory
  <2>. QED BY <2>1, QuietKeeps
<1>3. CASE /\ Put(TRUE)
           /\ data' = [data EXCEPT ![BlockNumber] = SavedStatus]
           /\ m_nextblock' = BlockNumber + 1
           /\ pc' = "put_next"
           /\ UNCHANGED <<hashes, dumps, iter, bi_prev>>
  <2>1. /\ db_open /\ UNCHANGED fails
        /\ UNCHANGED <<dump, index, db_next, db_last, db_open, first, seen, crashes>>
    BY <1>3 DEF PutData, Put
  <2>2. /\ m_nextblock \in Numbers /\ m_nextblock \in Nat \ {0} /\ m_nextblock' = m_nextblock + 1
        /\ BlockNumber = m_nextblock
    BY <1>1, <1>3, Saving
  <2>3. /\ data'[m_nextblock] = SavedStatus
        /\ \A n \in Numbers : n # m_nextblock => data'[n] = data[n]
    BY <1>3, <2>2 DEF IInv, TypeOK, StoreType
  <2>4. StatusInv'
    <3>1. ASSUME NEW n \in Relied'
          PROVE  /\ data'[n] = "signed" /\ n \in Agreed' => n \in Vouched'
                 /\ data'[n] = "awaiting_signature" => n \in Unsigned'
      <4>1. n \in Numbers /\ n \in Nat /\ first <= n /\ n < m_nextblock + 1
        BY <2>1, <2>2, ChainsAssumption DEF Relied, Upto, Numbers
      <4>2. CASE n = m_nextblock
        <5>1. data'[n] = "signed" => n = 1
          BY <2>2, <2>3, <4>2 DEF SavedStatus
        <5>2. data'[n] # "awaiting_signature"
          BY <2>3, <4>2 DEF SavedStatus
        <5>3. n = 1 => n \in Vouched'
          BY <4>1 DEF Vouched, Attested
        <5>. QED BY <5>1, <5>2, <5>3
      <4>3. CASE n # m_nextblock
        <5>1. n \in Relied
          BY <2>1, <2>2, <4>1, <4>3 DEF Relied, Upto
        <5>2. /\ n \in Agreed' => n \in Agreed
              /\ n \in Vouched => n \in Vouched'
              /\ n \in Unsigned => n \in Unsigned'
          BY <2>1, <4>1, EvidenceKept
        <5>. QED BY <2>3, <4>1, <4>3, <5>1, <5>2 DEF SInv, StatusInv
      <4>. QED BY <4>2, <4>3
    <3>. QED BY <3>1 DEF StatusInv
  <2>5. Current' = m_nextblock /\ Current = m_nextblock
    BY <1>1, <1>3, <2>2 DEF Current
  <2>6. RecordsInv'
    BY <1>3 DEF RecordsInv, MarkStates
  <2>7. PendingInv'
    <3>1. CheckedBlock' = CheckedBlock
      BY <1>3 DEF CheckedBlock, BlockNumber
    <3>2. Version = 2 /\ CheckedBlock => data'[Current'] = "not_checked"
      BY <2>3, <2>5 DEF SavedStatus
    <3>. QED BY <1>3, <3>1, <3>2 DEF PendingInv, MarkStates
  <2>8. OpenInv'
    BY <2>1 DEF OpenInv
  <2>9. FaultlessInv'
    <3>. SUFFICES ASSUME NoFaults PROVE FaultlessInv'
      BY <2>1 DEF FaultlessInv, NoFaults
    <3>2. /\ \A b \in Blocks : index[b] # 0 => index[b] < db_next \/ index[b] <= m_nextblock
          /\ \A n \in Numbers : dump[n] # NoBlock => n < db_next \/ n <= m_nextblock
          /\ Verification \/ Version = 1 => \A b \in Blocks : index[b] > 1 => dump[index[b]] = b
          /\ db_last # 0 => db_last < db_next
      BY <1>1, <2>5 DEF SInv, FaultlessInv
    <3>. QED BY <1>3, <2>1, <2>5, <3>2 DEF FaultlessInv, MarkStates, Storing, PutStates
  <2>. QED BY <2>4, <2>6, <2>7, <2>8, <2>9
<1>. QED BY <1>2, <1>3 DEF PutData

\* What the status records of a block say, and why.
Allowed(n, v, b1, b2) ==
  {m \in Mark :
     \/ v = 0 /\ m = [number |-> n, status |-> "awaiting_signature", extra |-> NoBlock]
     \/ v = MaxInt /\ m = SignMark(n)
     \/ v # 0 /\ m = SignMark(n - 1)
     \/ v # 0 /\ m = SignMark(n - 2) /\ prev_ext_data = "awaiting_signature" /\ BrokenBlock(n, b1, b2)}

\* The records of a block in order; an awaiting one is alone.
LEMMA MarksForAllowed ==
  ASSUME NEW n \in Numbers, n > 1, NEW v, NEW b1, NEW b2,
         n = 2 => b1 = NoBlock
  PROVE  /\ MarksFor(n, v, b1, b2) \in Seq(Allowed(n, v, b1, b2))
         /\ v = 0 => Len(MarksFor(n, v, b1, b2)) = 1
<1>. DEFINE M == Allowed(n, v, b1, b2)
            w  == [number |-> n, status |-> "awaiting_signature", extra |-> NoBlock]
            own == IF v = MaxInt THEN <<SignMark(n)>> ELSE <<>>
            prevToo == v # MaxInt \/ prev_ext_data \in {"not_signed", "not_checked"}
            broken == IF prev_ext_data = "awaiting_signature" /\ BrokenBlock(n, b1, b2)
                      THEN <<SignMark(n - 2)>> ELSE <<>>
            rest == IF prevToo THEN broken \o <<SignMark(n - 1)>> ELSE <<>>
<1>1. \A k \in Numbers : SignMark(k) \in Mark
  BY DEF SignMark, Mark, Status
<1>2. n - 1 \in Numbers /\ (n > 2 => n - 2 \in Numbers)
  BY ChainsAssumption DEF Numbers
<1>3. BrokenBlock(n, b1, b2) => n > 2
  BY BlocksAssumption, ChainsAssumption DEF BrokenBlock, Numbers
<1>4. MarksFor(n, v, b1, b2) = IF v = 0 THEN <<w>> ELSE own \o rest
  BY DEF MarksFor
<1>5. CASE v = 0
  <2>1. w \in Mark
    BY DEF Mark, Status
  <2>2. w \in M
    BY <1>5, <2>1 DEF Allowed
  <2>3. MarksFor(n, v, b1, b2) = <<w>>
    BY <1>4, <1>5
  <2>. HIDE DEF M, w
  <2>. QED BY <2>2, <2>3 DEF M
<1>6. CASE v # 0
  <2>1. /\ v = MaxInt => SignMark(n) \in M
        /\ SignMark(n - 1) \in M
        /\ prev_ext_data = "awaiting_signature" /\ BrokenBlock(n, b1, b2) => SignMark(n - 2) \in M
    BY <1>1, <1>2, <1>3, <1>6 DEF Allowed
  <2>2. own \in Seq(M) /\ broken \in Seq(M) /\ <<SignMark(n - 1)>> \in Seq(M)
    <3>. HIDE DEF M
    <3>. QED BY <2>1
  <2>3. rest \in Seq(M)
    <3>. HIDE DEF M, broken
    <3>. QED BY <2>2, ConcatProperties
  <2>4. own \o rest \in Seq(M)
    <3>. HIDE DEF M, own, rest
    <3>. QED BY <2>2, <2>3, ConcatProperties
  <2>. QED BY <1>4, <1>6, <2>4
<1>. QED BY <1>5, <1>6
\* A verdict on signatures is a number.
LEMMA VerdictType ==
  ASSUME NEW b \in Blocks, NEW n
  PROVE  CoreAddrVerification(b, n) \in -1..MaxInt
<1>1. MaxInt \in Int /\ MaxInt > 0
  BY SMT DEF MaxInt
<1>2. Verdict[b] \in -1..MaxInt
  BY BlocksAssumption
<1>. QED BY <1>1, <1>2 DEF CoreAddrVerification

\* Every record written for the block just published is justified: its verdict
\* speaks for itself, for its predecessor and, by the "broken blocks" rule, for the
\* block below that.
LEMMA BlockRecords ==
  ASSUME IInv, SInv, PutNext, Version = 2, CheckedBlock
  PROVE  RecordsInv'
<1>1. /\ InBatch /\ pc \in PutStates /\ pc = "put_next" /\ Current = m_nextblock - 1 /\ db_open
      /\ iter \in 1..Len(hashes) /\ iter \in 1..Len(dumps)
  BY DEF IInv, TypeOK, BatchType, PutNext, UpdateNumber, Put, InBatch, PutStates, Current, PutInv
<1>2. BlockNumber = Current /\ BlockNumber \in Numbers /\ BlockNumber \in Nat /\ BlockNumber > 1
  BY <1>1, BlockAtHand, ChainsAssumption DEF CheckedBlock, Numbers
<1>. DEFINE n == BlockNumber
            d == dumps[iter]
            v == CoreAddrVerification(d, n)
<1>3. /\ bi_prev # NoBlock /\ d \in Blocks /\ PrevHash[d] = bi_prev /\ dump[n] = d
      /\ bi_prev \in Blocks
  BY <1>1, <1>2 DEF IInv, PutInv, TypeOK, BatchType
<1>4. v \in -1..MaxInt /\ v # -1
  BY <1>1, <1>3, VerdictType DEF SInv, VerdictInv
<1>5. PICK b1 \in IF n > 2 THEN GetBlock(n - 2) ELSE {NoBlock},
           b2 \in IF n > 2 THEN GetBlock(n - 3) ELSE {NoBlock} :
        marks' = MarksFor(n, v, b1, b2)
  BY DEF PutNext, UpdateNumber
<1>6. /\ UNCHANGED <<dump, index, data, m_nextblock, db_open, first>>
      /\ seen' = seen \cup {d}
  BY DEF PutNext, UpdateNumber, memory
<1>7. Relied' = Relied
  BY <1>1, <1>6 DEF Relied, Upto
<1>8. n > first => dump[n - 1] = bi_prev
  BY <1>1, <1>2, <1>3 DEF IInv, PrevInv
<1>9. marks' \in Seq(Allowed(n, v, b1, b2))
  <2>1. n = 2 => b1 = NoBlock
    BY <1>2
  <2>. HIDE DEF n, v
  <2>. QED BY <1>2, <1>5, <2>1, MarksForAllowed DEF n
<1>10. ASSUME NEW i \in 1..Len(marks'), NEW k, k = marks'[i].number, k \in Relied
       PROVE  /\ marks'[i].status = "signed" => k \in Vouched'
              /\ marks'[i].status = "awaiting_signature" => k \in Unsigned'
  <2>1. marks'[i] \in Allowed(n, v, b1, b2)
    <3>. HIDE DEF n, v
    <3>. QED BY <1>9, ElementOfSeq
  <2>2. k \in Numbers /\ k \in Nat /\ first \in Nat /\ first <= k /\ k < m_nextblock
    BY <1>1, <1>10, ChainsAssumption DEF Relied, Upto, Numbers, IInv, TypeOK, GhostType
  <2>3. CASE v = 0 /\ marks'[i] = [number |-> n, status |-> "awaiting_signature", extra |-> NoBlock]
    <3>1. k = n /\ marks'[i].status = "awaiting_signature"
      BY <1>10, <2>3
    <3>2. n \in Unsigned'
      BY <1>2, <1>3, <1>6, <2>3 DEF Unsigned, CoreAddrVerification
    <3>. QED BY <3>1, <3>2
  <2>4. CASE v = MaxInt /\ marks'[i] = SignMark(n)
    <3>1. k = n /\ marks'[i].status = "signed"
      BY <1>10, <2>4 DEF SignMark
    <3>2. CoreAddrVerification(dump'[n], n) = MaxInt
      BY <1>3, <1>6, <2>4
    <3>3. n \in Vouched'
      BY <1>2, <3>2 DEF Vouched, Attested, CoreAddrVerification
    <3>. QED BY <3>1, <3>3
  <2>5. CASE v # 0 /\ marks'[i] = SignMark(n - 1)
    <3>1. k = n - 1 /\ marks'[i].status = "signed"
      BY <1>10, <2>5 DEF SignMark
    <3>2. dump'[k] = bi_prev /\ k + 1 = n
      BY <1>2, <1>6, <1>8, <2>2, <3>1
    <3>3. d \in seen' \cap Blocks /\ PrevHash[d] = dump'[k] /\ CoreAddrVerification(d, k + 1) > 0
      BY <1>3, <1>4, <1>6, <2>5, <3>2
    <3>4. \E b \in seen' \cap Blocks : PrevHash[b] = dump'[k] /\ CoreAddrVerification(b, k + 1) > 0
      BY <3>3
    <3>5. k \in Vouched'
      BY <2>2, <3>4 DEF Vouched, Attested, CoreAddrVerification
    <3>. QED BY <3>1, <3>5
  <2>6. CASE /\ v # 0 /\ marks'[i] = SignMark(n - 2)
             /\ prev_ext_data = "awaiting_signature" /\ BrokenBlock(n, b1, b2)
    <3>1. k = n - 2 /\ marks'[i].status = "signed"
      BY <1>10, <2>6 DEF SignMark
    <3>2. n > 2 /\ n - 2 \in Numbers
      <4>1. b1 # NoBlock
        BY <2>6, BlocksAssumption DEF BrokenBlock
      <4>. QED BY <1>2, <1>5, <4>1, <3>1, <2>2
    <3>3. dump[k] # NoBlock
      BY <1>10 DEF IInv, StoreInv, Complete, Relied
    <3>4. b1 = dump[k]
      BY <1>5, <3>1, <3>2, <3>3 DEF GetBlock
    <3>5. /\ PrevHash[bi_prev] = dump'[k] /\ PrevHash[d] = bi_prev
          /\ CoreAddrVerification(dump'[k], k) > 0
      BY <1>3, <1>6, <2>6, <3>1, <3>4 DEF BrokenBlock
    <3>6. k + 1 = n - 1 /\ k + 2 = n /\ Current - 1 = n - 1 /\ Current > first
      BY <1>2, <2>2, <3>1
    <3>7. CoreAddrVerification(bi_prev, k + 1) = 0
      BY <1>1, <1>3, <2>6, <3>6 DEF SInv, AwaitInv
    <3>8. CoreAddrVerification(d, k + 2) > 0 /\ d \in seen' \cap Blocks
      BY <1>3, <1>4, <1>6, <2>6, <3>6
    <3>9. \E b \in Blocks, c \in seen' \cap Blocks :
            /\ PrevHash[b] = dump'[k] /\ PrevHash[c] = b
            /\ CoreAddrVerification(dump'[k], k) > 0
            /\ CoreAddrVerification(b, k + 1) = 0
            /\ CoreAddrVerification(c, k + 2) > 0
      BY <1>3, <3>5, <3>7, <3>8
    <3>10. k \in Vouched'
      BY <2>2, <3>9 DEF Vouched, Attested, CoreAddrVerification
    <3>. QED BY <3>1, <3>10
  <2>. QED BY <2>1, <2>3, <2>4, <2>5, <2>6 DEF Allowed
<1>. QED BY <1>7, <1>10 DEF RecordsInv
\* update_number and the bookkeeping that follows it.
LEMMA PutNextStatus ==
  ASSUME IInv, SInv, PutNext
  PROVE  SInv'
<1>1. /\ InBatch /\ pc \in PutStates /\ pc = "put_next" /\ Current = m_nextblock - 1 /\ db_open
      /\ iter \in 1..Len(hashes) /\ iter \in 1..Len(dumps)
  BY DEF IInv, TypeOK, BatchType, PutNext, UpdateNumber, Put, InBatch, PutStates, Current, PutInv
<1>2. BlockNumber = Current /\ BlockNumber \in Numbers /\ BlockNumber \in Nat /\ BlockNumber >= 1
  BY <1>1, BlockAtHand, ChainsAssumption DEF Numbers
<1>3. /\ UNCHANGED <<dump, index, data, db_last, memory, hashes, dumps, first, crashes>>
      /\ seen \subseteq seen'
      /\ pc' \in {"mark_data", "block", "v1"} /\ (pc' = "mark_data" <=> Version = 2 /\ CheckedBlock)
      /\ pc' = "block" => Version = 2 /\ UNCHANGED bi_prev
  BY SettingsAssumption DEF PutNext, UpdateNumber
<1>4. m_nextblock \in Nat /\ m_nextblock > 1 /\ BlockNumber = m_nextblock - 1 /\ m_nextblock' = m_nextblock
  BY <1>1, <1>2, <1>3 DEF IInv, TypeOK, MemoryType, memory
<1>5. Current' = m_nextblock /\ db_open' = db_open /\ Relied' = Relied
  <2>1. Relied' = Relied
    BY <1>1, <1>3 DEF Relied, Upto, memory
  <2>. QED BY <1>3, <2>1 DEF Current, memory
<1>6. StatusInv'
  <2>1. ASSUME NEW n \in Relied'
        PROVE  /\ data'[n] = "signed" /\ n \in Agreed' => n \in Vouched'
               /\ data'[n] = "awaiting_signature" => n \in Unsigned'
    <3>1. n \in Relied /\ n \in Numbers
      BY <1>5 DEF Relied
    <3>2. /\ n \in Agreed' => n \in Agreed
          /\ n \in Vouched => n \in Vouched'
          /\ n \in Unsigned => n \in Unsigned'
      BY <1>3, <3>1, EvidenceKept
    <3>. QED BY <1>3, <3>1, <3>2 DEF SInv, StatusInv
  <2>. QED BY <2>1 DEF StatusInv
<1>7. RecordsInv'
  <2>1. CASE Version = 2 /\ CheckedBlock
    BY <2>1, BlockRecords
  <2>2. CASE ~(Version = 2 /\ CheckedBlock)
    BY <1>3, <2>2 DEF RecordsInv, MarkStates
  <2>. QED BY <2>1, <2>2
<1>8. OpenInv'
  BY <1>1, <1>5 DEF OpenInv
<1>9. VerdictInv'
  BY <1>3 DEF VerdictInv, PutStates, MarkStates
<1>10. AwaitInv'
  <2>1. CASE Version = 2 /\ CheckedBlock
    <3>1. /\ prev_ext_data' = OwnStatus(CoreAddrVerification(dumps[iter], BlockNumber))
          /\ bi_prev' = dumps[iter]
      BY <2>1 DEF PutNext, UpdateNumber
    <3>2. prev_ext_data' = "awaiting_signature" => CoreAddrVerification(dumps[iter], BlockNumber) = 0
      BY <3>1 DEF OwnStatus
    <3>3. Current' - 1 = BlockNumber
      BY <1>4, <1>5
    <3>. QED BY <3>1, <3>2, <3>3 DEF AwaitInv, CoreAddrVerification
  <2>2. CASE ~(Version = 2 /\ CheckedBlock)
    <3>1. Version = 2 => bi_prev = NoBlock
      BY <1>1, <1>2, <2>2 DEF IInv, PrevInv, CheckedBlock
    <3>2. pc' = "block" => bi_prev' = NoBlock
      BY <1>3, <3>1
    <3>. QED BY <1>3, <2>2, <3>2 DEF AwaitInv, InBatch, PutStates, MarkStates
  <2>. QED BY <2>1, <2>2
<1>11. ASSUME Version = 2, CheckedBlock
       PROVE  \A i \in 1..Len(marks') :
                /\ marks'[i].number < m_nextblock
                /\ marks'[i].status # "signed" =>
                     Len(marks') = 1 /\ marks'[1].extra = NoBlock /\ data[marks'[1].number] # "signed"
  <2>. DEFINE n == BlockNumber
              v == CoreAddrVerification(dumps[iter], n)
  <2>1. PICK b1 \in IF n > 2 THEN GetBlock(n - 2) ELSE {NoBlock},
             b2 \in IF n > 2 THEN GetBlock(n - 3) ELSE {NoBlock} :
          marks' = MarksFor(n, v, b1, b2)
    BY <1>11 DEF PutNext, UpdateNumber
  <2>2. n \in Numbers /\ n > 1 /\ (n = 2 => b1 = NoBlock)
    BY <1>2, <1>11 DEF CheckedBlock
  <2>3. marks' \in Seq(Allowed(n, v, b1, b2)) /\ (v = 0 => Len(marks') = 1)
    <3>. HIDE DEF n, v
    <3>. QED BY <2>1, <2>2, MarksForAllowed
  <2>4. \A i \in 1..Len(marks') : marks'[i] \in Allowed(n, v, b1, b2)
    <3>. HIDE DEF n, v
    <3>. QED BY <2>3, ElementOfSeq
  <2>5. data[n] # "signed"
    BY <1>1, <1>2, <1>11 DEF SInv, PendingInv
  <2>6. ASSUME NEW m \in Allowed(n, v, b1, b2)
        PROVE  m.number < m_nextblock /\ (m.status # "signed" => v = 0 /\ m.number = n)
    BY <1>4 DEF Allowed, SignMark
  <2>8. ASSUME v = 0 PROVE marks'[1].extra = NoBlock /\ data[marks'[1].number] # "signed"
    <3>1. marks'[1] = [number |-> n, status |-> "awaiting_signature", extra |-> NoBlock]
      BY <2>1, <2>8 DEF MarksFor
    <3>. QED BY <2>5, <3>1
  <2>. QED BY <2>3, <2>4, <2>6, <2>8
<1>12. PendingInv'
  <2>1. CASE Version = 2 /\ CheckedBlock
    BY <1>3, <1>11, <2>1 DEF PendingInv
  <2>2. CASE ~(Version = 2 /\ CheckedBlock)
    BY <1>3, <2>2 DEF PendingInv, MarkStates
  <2>. QED BY <2>1, <2>2
<1>13. FaultlessInv'
  <2>. SUFFICES ASSUME NoFaults' PROVE FaultlessInv'
    BY DEF FaultlessInv
  <2>1. Put(TRUE) /\ db_next' = m_nextblock /\ UNCHANGED fails
    <3>1. CASE Put(FALSE)
      BY <3>1 DEF Put, NoFaults, IInv, TypeOK, GhostType
    <3>. QED BY <3>1 DEF PutNext, UpdateNumber, Put
  <2>2. NoFaults
    BY <1>3, <2>1 DEF NoFaults
  <2>3. /\ \A b \in Blocks : index[b] # 0 => index[b] < db_next \/ index[b] <= Current
        /\ \A n \in Numbers : dump[n] # NoBlock => n < db_next \/ n <= Current
        /\ Verification \/ Version = 1 => \A b \in Blocks : index[b] > 1 => dump[index[b]] = b
        /\ db_last # 0 => db_last < db_next
    BY <1>1, <2>2 DEF SInv, FaultlessInv
  <2>4. db_next \in Nat /\ db_next <= m_nextblock /\ Current = m_nextblock - 1 /\ db_last \in Nat
    BY <1>1, ChainsAssumption DEF IInv, TypeOK, StoreType, NextInv, Numbers
  <2>5. \A n \in Numbers : n \in Int
    BY ChainsAssumption DEF Numbers
  <2>6. \A b \in Blocks : index[b] \in Numbers
    BY DEF IInv, TypeOK, StoreType
  <2>7. \A b \in Blocks : index[b] # 0 => index[b] < m_nextblock
    BY <1>4, <2>3, <2>4, <2>5, <2>6
  <2>8. \A n \in Numbers : dump[n] # NoBlock => n < m_nextblock
    BY <1>4, <2>3, <2>4, <2>5
  <2>9. db_last # 0 => db_last < m_nextblock
    BY <1>4, <2>3, <2>4
  <2>10. pc' \in MarkStates => \A i \in 1..Len(marks') : marks'[i].number < m_nextblock
    BY <1>3, <1>11 DEF MarkStates
  <2>. QED BY <1>3, <2>1, <2>3, <2>7, <2>8, <2>9, <2>10 DEF FaultlessInv
<1>. QED BY <1>6, <1>7, <1>8, <1>9, <1>10, <1>12, <1>13 DEF SInv
\* The records left are records there were.
LEMMA MarksLeft ==
  ASSUME IInv, pc \in MarkStates, NextMark \/ (pc' \in MarkStates /\ UNCHANGED marks)
  PROVE  /\ \A i \in 1..Len(marks') : \E j \in 1..Len(marks) : marks'[i] = marks[j]
         /\ NextMark => Len(marks') = Len(marks) - 1 /\ pc' \in {"mark_data", "block", "extras"}
         /\ Head(marks) = marks[1] /\ 1 \in 1..Len(marks)
<1>1. marks \in Seq(Mark) /\ marks # <<>>
  BY DEF IInv, TypeOK, MarksInv
<1>2. /\ Len(Tail(marks)) = Len(marks) - 1
      /\ \A i \in 1..Len(Tail(marks)) : Tail(marks)[i] = marks[i + 1] /\ i + 1 \in 1..Len(marks)
  BY <1>1, HeadTailProperties
<1>3. Head(marks) = marks[1] /\ 1 \in 1..Len(marks)
  BY <1>1
<1>4. CASE NextMark
  <2>1. marks' = Tail(marks) /\ pc' \in {"mark_data", "block", "extras"}
    BY <1>4 DEF NextMark
  <2>. QED BY <1>2, <1>3, <2>1
<1>5. CASE ~NextMark
  BY <1>3, <1>5
<1>. QED BY <1>4, <1>5

\* Writing status records: what does not depend on the status just written.
LEMMA MarkedKeeps ==
  ASSUME IInv, SInv, pc \in MarkStates,
         NextMark \/ (pc' \in MarkStates /\ UNCHANGED marks),
         UNCHANGED <<dump, index, db_next, db_open, m_nextblock, batch, first, seen>>
  PROVE  /\ RecordsInv' /\ VerdictInv' /\ AwaitInv' /\ OpenInv'
         /\ Relied' = Relied /\ Agreed' = Agreed /\ Vouched' = Vouched /\ Unsigned' = Unsigned
<1>1. pc' \in MarkStates \cup {"block", "extras"} /\ db_open /\ Version = 2
  BY DEF NextMark, MarkStates, SInv, OpenInv, VerdictInv
<1>2. Relied' = Relied
  BY ReliedKept
<1>3. Agreed' = Agreed /\ Unsigned' = Unsigned
  BY DEF Agreed, IndexAgrees, Unsigned, CoreAddrVerification
<1>4. Vouched' = Vouched
  BY DEF Vouched, Attested, CoreAddrVerification
<1>5. RecordsInv'
  <2>1. ASSUME NEW i \in 1..Len(marks'), marks'[i].number \in Relied'
        PROVE  /\ marks'[i].status = "signed" /\ marks'[i].number \in Agreed' => marks'[i].number \in Vouched'
               /\ marks'[i].status = "awaiting_signature" => marks'[i].number \in Unsigned'
    <3>1. PICK j \in 1..Len(marks) : marks'[i] = marks[j]
      BY MarksLeft
    <3>. QED BY <1>2, <1>3, <1>4, <2>1, <3>1 DEF SInv, RecordsInv
  <2>. QED BY <2>1 DEF RecordsInv
<1>6. OpenInv'
  BY <1>1 DEF OpenInv
<1>7. VerdictInv'
  BY <1>1 DEF VerdictInv, PutStates, MarkStates
<1>8. AwaitInv'
  <2>1. Current' = Current
    BY <1>1 DEF Current, MarkStates
  <2>2. InBatch' => InBatch
    <3>1. CASE NextMark
      BY <3>1, HeadOfMarks DEF NextMark, InBatch, PutStates, MarkStates
    <3>2. CASE pc' \in MarkStates /\ UNCHANGED marks
      BY <3>2 DEF InBatch, PutStates, MarkStates
    <3>. QED BY <3>1, <3>2
  <2>. QED BY <2>1, <2>2 DEF SInv, AwaitInv, CoreAddrVerification, batch
<1>. QED BY <1>2, <1>3, <1>4, <1>5, <1>6, <1>7, <1>8

\* What is left of the second invariant when a record has been dealt with.
LEMMA MarkedStatus ==
  ASSUME IInv, SInv, pc \in MarkStates,
         NextMark \/ (/\ pc' \in {"mark_extra", "mark_last"} /\ UNCHANGED marks
                      /\ marks[1].extra # NoBlock \/ marks[1].status = "signed"
                      /\ pc' = "mark_last" => marks[1].status = "signed"
                      /\ NoFaults' => data'[marks[1].number] = marks[1].status),
         UNCHANGED <<dump, index, db_next, db_open, m_nextblock, batch, first, seen, crashes>>,
         UNCHANGED fails \/ ~NoFaults',
         \A n \in Numbers : data'[n] # data[n] => n = marks[1].number /\ data'[n] = marks[1].status,
         db_last' = db_last \/ db_last' = marks[1].number
  PROVE  SInv'
<1>1. NextMark \/ (pc' \in MarkStates /\ UNCHANGED marks)
  BY DEF MarkStates
<1>2. /\ \A i \in 1..Len(marks') : \E j \in 1..Len(marks) : marks'[i] = marks[j]
      /\ NextMark => Len(marks') = Len(marks) - 1 /\ pc' \in {"mark_data", "block", "extras"}
      /\ 1 \in 1..Len(marks)
  BY <1>1, MarksLeft
<1>3. /\ RecordsInv' /\ VerdictInv' /\ AwaitInv' /\ OpenInv'
      /\ Relied' = Relied /\ Agreed' = Agreed /\ Vouched' = Vouched /\ Unsigned' = Unsigned
  BY <1>1, MarkedKeeps
<1>4. StatusInv'
  <2>1. ASSUME NEW n \in Relied
        PROVE  /\ data'[n] = "signed" /\ n \in Agreed => n \in Vouched
               /\ data'[n] = "awaiting_signature" => n \in Unsigned
    <3>0. n \in Numbers
      BY DEF Relied
    <3>1. CASE data'[n] = data[n]
      BY <3>1 DEF SInv, StatusInv
    <3>2. CASE n = marks[1].number /\ data'[n] = marks[1].status
      BY <1>2, <3>2 DEF SInv, RecordsInv
    <3>. QED BY <3>0, <3>1, <3>2
  <2>. QED BY <1>3, <2>1 DEF StatusInv
<1>5. PendingInv'
  <2>1. pc' # "put_next"
    BY <1>2 DEF MarkStates
  <2>2. pc' = "mark_last" => marks'[1].status = "signed"
    BY <1>2
  <2>3. ASSUME pc' \in MarkStates, NEW i \in 1..Len(marks'), marks'[i].status # "signed"
        PROVE  marks'[i].extra \in Extras /\ ~(ExtraVerdict[marks'[i].extra] > 0)
    <3>1. PICK j \in 1..Len(marks) : marks'[i] = marks[j]
      BY <1>2
    <3>2. ~(pc = "mark_data" /\ Len(marks) = 1 /\ marks[1].extra = NoBlock /\ data[marks[1].number] # "signed")
      <4>1. ASSUME Len(marks) = 1, marks[1].extra = NoBlock PROVE FALSE
        <5>1. CASE NextMark
          BY <1>2, <4>1, <5>1
        <5>2. CASE ~NextMark
          <6>1. marks' = marks /\ marks[1].status = "signed"
            BY <4>1, <5>2
          <6>2. i \in 1..1
            BY <4>1, <6>1
          <6>3. i = 1
            BY <6>2
          <6>. QED BY <2>3, <6>1, <6>3
        <5>. QED BY <5>1, <5>2
      <4>. QED BY <4>1
    <3>. QED BY <2>3, <3>1, <3>2 DEF SInv, PendingInv
  <2>. QED BY <2>1, <2>2, <2>3 DEF PendingInv
<1>6. FaultlessInv'
  <2>. SUFFICES ASSUME NoFaults' PROVE FaultlessInv'
    BY DEF FaultlessInv
  <2>1. NoFaults
    BY DEF NoFaults
  <2>2. pc \notin Storing /\ pc \notin {"put_data", "put_next"}
    BY DEF MarkStates, Storing, PutStates
  <2>3. /\ \A b \in Blocks : index[b] # 0 => index[b] < db_next
        /\ \A n \in Numbers : dump[n] # NoBlock => n < db_next
        /\ \A i \in 1..Len(marks) : marks[i].number < db_next
        /\ Verification \/ Version = 1 => \A b \in Blocks : index[b] > 1 => dump[index[b]] = b
        /\ db_last # 0 => db_last < db_next
    BY <2>1, <2>2 DEF SInv, FaultlessInv
  <2>4. \A i \in 1..Len(marks') : marks'[i].number < db_next
    BY <1>2, <2>3
  <2>5. db_last' # 0 => db_last' < db_next
    BY <1>2, <2>3
  <2>6. pc' \in {"mark_extra", "mark_last"} => data'[marks'[1].number] = marks'[1].status
    BY <1>2
  <2>. QED BY <2>3, <2>4, <2>5, <2>6 DEF FaultlessInv
<1>. QED BY <1>3, <1>4, <1>5, <1>6 DEF SInv
\* save_extra_data, save_extra_block and update_last_signed.
LEMMA MarkDataStatus ==
  ASSUME IInv, SInv, MarkData
  PROVE  SInv'
<1>1. pc \in MarkStates /\ pc = "mark_data"
  BY DEF MarkData, MarkStates
<1>2. Head(marks) = marks[1] /\ marks[1] \in Mark /\ marks[1].number \in Numbers
  BY <1>1, HeadOfMarks DEF Mark
<1>3. UNCHANGED <<dump, index, db_next, db_last, db_open, m_nextblock, batch, first, seen, crashes>>
  BY DEF MarkData, memory
<1>4. \/ Put(TRUE) /\ data' = [data EXCEPT ![marks[1].number] = marks[1].status]
      \/ Put(FALSE) /\ UNCHANGED data
  BY <1>2 DEF MarkData
<1>5. /\ UNCHANGED fails \/ ~NoFaults'
      /\ NoFaults' => data'[marks[1].number] = marks[1].status
      /\ \A n \in Numbers : data'[n] # data[n] => n = marks[1].number /\ data'[n] = marks[1].status
  <2>1. CASE Put(TRUE) /\ data' = [data EXCEPT ![marks[1].number] = marks[1].status]
    BY <1>2, <2>1 DEF Put, IInv, TypeOK, StoreType
  <2>2. CASE Put(FALSE) /\ UNCHANGED data
    BY <2>2 DEF Put, NoFaults, IInv, TypeOK, GhostType
  <2>. QED BY <1>4, <2>1, <2>2
<1>6. \/ NextMark
      \/ /\ pc' \in {"mark_extra", "mark_last"} /\ UNCHANGED marks
         /\ marks[1].extra # NoBlock \/ marks[1].status = "signed"
         /\ pc' = "mark_last" => marks[1].status = "signed"
  BY <1>2 DEF MarkData
<1>. QED BY <1>1, <1>3, <1>5, <1>6, MarkedStatus

LEMMA MarkExtraStatus ==
  ASSUME IInv, SInv, MarkExtra
  PROVE  SInv'
<1>1. pc \in MarkStates /\ pc = "mark_extra"
  BY DEF MarkExtra, MarkStates
<1>2. Head(marks) = marks[1]
  BY <1>1, HeadOfMarks
<1>3. UNCHANGED <<dump, index, data, db_next, db_last, db_open, m_nextblock, batch, first, seen, crashes>>
  BY DEF MarkExtra, memory
<1>4. UNCHANGED fails \/ ~NoFaults'
  BY DEF MarkExtra, Put, NoFaults, IInv, TypeOK, GhostType
<1>5. NoFaults' => data'[marks[1].number] = marks[1].status
  BY <1>1, <1>3, <1>4 DEF SInv, FaultlessInv, NoFaults
<1>6. \/ NextMark
      \/ pc' = "mark_last" /\ UNCHANGED marks /\ marks[1].status = "signed"
  BY <1>2 DEF MarkExtra
<1>. QED BY <1>1, <1>3, <1>4, <1>5, <1>6, MarkedStatus

LEMMA MarkLastStatus ==
  ASSUME IInv, SInv, MarkLast
  PROVE  SInv'
<1>1. pc \in MarkStates
  BY DEF MarkLast, MarkStates
<1>2. Head(marks) = marks[1]
  BY <1>1, HeadOfMarks
<1>3. /\ NextMark
      /\ UNCHANGED <<dump, index, data, db_next, db_open, m_nextblock, batch, first, seen, crashes>>
  BY DEF MarkLast
<1>4. /\ UNCHANGED fails \/ ~NoFaults'
      /\ db_last' = db_last \/ db_last' = marks[1].number
  <2>1. CASE m_last_signed_block < Head(marks).number
    BY <1>2, <2>1 DEF MarkLast, UpdateLastSigned, Put, NoFaults, IInv, TypeOK, GhostType
  <2>2. CASE ~(m_last_signed_block < Head(marks).number)
    BY <2>2 DEF MarkLast, UpdateLastSigned
  <2>. QED BY <2>1, <2>2
<1>. QED BY <1>1, <1>3, <1>4, MarkedStatus

\* A sign block speaks for the block the hash index leads to.
LEMMA LoadExtraBlocksStatus ==
  ASSUME IInv, SInv, LoadExtraBlocks
  PROVE  SInv'
<1>1. /\ pc = "extras" /\ Version = 2
      /\ UNCHANGED <<dump, index, data, db_next, db_last, db_open, m_nextblock, first, crashes, fails>>
      /\ seen \subseteq seen'
  BY DEF LoadExtraBlocks, SInv, VerdictInv, store, memory
<1>2. Relied' = Relied
  BY <1>1, ReliedKept
<1>3. StatusInv'
  <2>1. ASSUME NEW n \in Relied'
        PROVE  /\ data'[n] = "signed" /\ n \in Agreed' => n \in Vouched'
               /\ data'[n] = "awaiting_signature" => n \in Unsigned'
    <3>1. n \in Relied /\ n \in Numbers
      BY <1>2 DEF Relied
    <3>2. /\ n \in Agreed' => n \in Agreed
          /\ n \in Vouched => n \in Vouched'
          /\ n \in Unsigned => n \in Unsigned'
      BY <1>1, <3>1, EvidenceKept
    <3>. QED BY <1>1, <3>1, <3>2 DEF SInv, StatusInv
  <2>. QED BY <2>1 DEF StatusInv
<1>4. NoFaults =>
        /\ \A b \in Blocks : index[b] # 0 => index[b] < db_next
        /\ \A n \in Numbers : dump[n] # NoBlock => n < db_next
        /\ Verification \/ Version = 1 => \A b \in Blocks : index[b] > 1 => dump[index[b]] = b
        /\ db_last # 0 => db_last < db_next
  BY <1>1 DEF SInv, FaultlessInv, Storing, PutStates
<1>5. CASE pc' = "extras"
  <2>1. VerdictInv' /\ AwaitInv'
    BY <1>1, <1>5, BetweenBatches
  <2>2. RecordsInv' /\ PendingInv' /\ OpenInv'
    BY <1>5 DEF RecordsInv, PendingInv, OpenInv, MarkStates, Storing, PutStates
  <2>3. FaultlessInv'
    BY <1>1, <1>4, <1>5 DEF FaultlessInv, NoFaults, MarkStates
  <2>. QED BY <1>3, <2>1, <2>2, <2>3 DEF SInv
<1>6. CASE pc' # "extras"
  <2>1. \E m \in 1..Len(hashes) : \E r \in [1..m -> Applicable] :
          /\ marks' = [i \in 1..m |-> ExtraMark(r[i])]
          /\ seen' = seen \cup {e \in Extras : ExtraVerdict[e] > 0 /\ \E i \in 1..m : r[i] = e}
    BY <1>1, <1>6 DEF LoadExtraBlocks
  <2>2. PICK m \in Nat \ {0} : \E r \in [1..m -> Applicable] :
          /\ marks' = [i \in 1..m |-> ExtraMark(r[i])]
          /\ seen' = seen \cup {e \in Extras : ExtraVerdict[e] > 0 /\ \E i \in 1..m : r[i] = e}
    BY <2>1
  <2>3. PICK r \in [1..m -> Applicable] :
          /\ marks' = [i \in 1..m |-> ExtraMark(r[i])]
          /\ seen' = seen \cup {e \in Extras : ExtraVerdict[e] > 0 /\ \E i \in 1..m : r[i] = e}
    BY <2>2
  <2>4. Len(marks') = m /\ \A i \in 1..m : marks'[i] = ExtraMark(r[i])
    BY <2>3
  <2>5. pc' = "mark_data" /\ db_open
    BY <1>1, <1>6 DEF LoadExtraBlocks
  <2>6. ASSUME NEW i \in 1..m
        PROVE  /\ marks'[i].extra \in Extras /\ marks'[i].extra # NoBlock
               /\ ExtraPrev[marks'[i].extra] \in Blocks
               /\ marks'[i].number = index[ExtraPrev[marks'[i].extra]] /\ marks'[i].number # 0
               /\ marks'[i].status \in {"signed", "not_signed"}
               /\ marks'[i].status = "signed" <=> ExtraVerdict[marks'[i].extra] > 0
               /\ marks'[i].status = "signed" => marks'[i].extra \in seen'
    <3>1. r[i] \in Applicable
      OBVIOUS
    <3>2. /\ r[i] \in Extras /\ r[i] # NoBlock /\ ExtraPrev[r[i]] \in Blocks /\ index[ExtraPrev[r[i]]] # 0
      BY <3>1, BlocksAssumption DEF Applicable
    <3>3. marks'[i] = ExtraMark(r[i])
      BY <2>4
    <3>. QED BY <2>3, <3>2, <3>3 DEF ExtraMark
  <2>7. RecordsInv'
    <3>1. ASSUME NEW i \in 1..m, NEW n \in Numbers, n = marks'[i].number,
                 marks'[i].status = "signed", n \in Agreed'
          PROVE  n \in Vouched'
      <4>. DEFINE e == marks'[i].extra
      <4>1. e \in seen' \cap Extras /\ ExtraPrev[e] \in Blocks /\ index'[ExtraPrev[e]] = n
        BY <1>1, <2>6, <3>1
      <4>2. ExtraPrev[e] = dump'[n]
        BY <3>1, <4>1 DEF Agreed, IndexAgrees
      <4>3. \E x \in seen' \cap Extras : ExtraPrev[x] = dump'[n]
        BY <4>1, <4>2
      <4>. QED BY <4>3 DEF Vouched, Attested
    <3>2. \A n \in Relied' : n \in Numbers
      BY <1>2 DEF Relied
    <3>. QED BY <2>4, <2>6, <3>1, <3>2 DEF RecordsInv
  <2>8. PendingInv'
    BY <2>4, <2>5, <2>6 DEF PendingInv
  <2>9. OpenInv' /\ VerdictInv'
    BY <1>1, <2>5 DEF OpenInv, VerdictInv, PutStates, MarkStates
  <2>10. AwaitInv'
    <3>1. marks'[1].extra # NoBlock
      BY <2>6
    <3>. QED BY <2>5, <3>1 DEF AwaitInv, InBatch, PutStates
  <2>11. FaultlessInv'
    <3>. SUFFICES ASSUME NoFaults PROVE FaultlessInv'
      BY <1>1 DEF FaultlessInv, NoFaults
    <3>1. \A i \in 1..Len(marks') : marks'[i].number < db_next
      BY <1>4, <2>4, <2>6
    <3>. QED BY <1>1, <1>4, <2>5, <3>1 DEF FaultlessInv
  <2>. QED BY <1>3, <2>7, <2>8, <2>9, <2>10, <2>11 DEF SInv
<1>. QED BY <1>5, <1>6
\* stop() and stuttering leave all of it alone.
LEMMA StopStatus ==
  ASSUME IInv, SInv,
         UNCHANGED <<store, db_open, m_nextblock, pc, batch, marks, ghosts>>
  PROVE  SInv'
<1>1. UNCHANGED <<dump, index, data, db_next, db_last, first, seen, crashes, fails,
                  hashes, dumps, iter, bi_prev, prev_ext_data>>
  BY DEF store, batch, ghosts
<1>2. Relied' = Relied /\ Current' = Current
  BY <1>1, ReliedKept DEF Current
<1>3. Agreed' = Agreed /\ Unsigned' = Unsigned /\ Vouched' = Vouched
  <2>1. Agreed' = Agreed /\ Unsigned' = Unsigned
    BY <1>1 DEF Agreed, IndexAgrees, Unsigned, CoreAddrVerification
  <2>2. Vouched' = Vouched
    BY <1>1 DEF Vouched, Attested, CoreAddrVerification
  <2>. QED BY <2>1, <2>2
<1>4. StatusInv' /\ RecordsInv'
  BY <1>1, <1>2, <1>3 DEF SInv, StatusInv, RecordsInv
<1>5. VerdictInv'
  BY <1>1 DEF SInv, VerdictInv, CheckedBlock, BlockNumber, CoreAddrVerification
<1>6. AwaitInv'
  BY <1>1, <1>2 DEF SInv, AwaitInv, InBatch, CoreAddrVerification
<1>7. PendingInv' /\ OpenInv'
  BY <1>1, <1>2 DEF SInv, PendingInv, OpenInv, CheckedBlock, BlockNumber
<1>8. FaultlessInv'
  BY <1>1, <1>2 DEF SInv, FaultlessInv, NoFaults
<1>. QED BY <1>4, <1>5, <1>6, <1>7, <1>8 DEF SInv

\* Nothing is stored and nobody relies on anything.
LEMMA InitSInv == Init => SInv
<1>. SUFFICES ASSUME Init PROVE SInv
  OBVIOUS
<1>1. pc \notin PutStates /\ pc \notin MarkStates /\ pc \notin Storing /\ pc = "off"
  BY DEF Init, PutStates, MarkStates, Storing
<1>2. Relied = {}
  <2>1. \A n \in Numbers : ~(n < 0)
    BY ChainsAssumption DEF Numbers
  <2>2. Upto = 0
    BY DEF Init, Upto
  <2>. QED BY <2>1, <2>2 DEF Relied
<1>3. StatusInv /\ RecordsInv /\ OpenInv
  BY <1>1, <1>2 DEF StatusInv, RecordsInv, OpenInv
<1>4. VerdictInv /\ AwaitInv /\ PendingInv
  BY <1>1 DEF VerdictInv, AwaitInv, PendingInv, InBatch, PutStates, MarkStates
<1>5. FaultlessInv
  <2>1. /\ \A b \in Blocks : index[b] = 0 
        /\ \A n \in Numbers : dump[n] = NoBlock
        /\ db_last = 0
    BY DEF Init
  <2>. QED BY <1>1, <2>1 DEF FaultlessInv
<1>. QED BY <1>3, <1>4, <1>5 DEF SInv

\* Every step preserves the second invariant on top of the first.
LEMMA NextSInv ==
  ASSUME IInv, SInv, [Next]_vars
  PROVE  SInv'
<1>1. CASE Crash \/ Exit \/ NullDatabase
  <2>1. QuietStep
    BY <1>1, ProcessEndsQuiet DEF SInv
  <2>2. VerdictInv' /\ AwaitInv'
    BY <1>1, QuietVerdict
  <2>. QED BY <2>1, <2>2, QuietKeeps DEF SInv
<1>2. CASE Start \/ WorkerProc \/ V1Count
  <2>1. QuietStep
    BY <1>2, BeginQuiet
  <2>2. VerdictInv' /\ AwaitInv'
    BY <1>2, QuietVerdict
  <2>. QED BY <2>1, <2>2, QuietKeeps DEF SInv
<1>3. CASE LoopExit \/ FetchBlocks \/ FetchTip \/ LoadPrev \/ CheckBlock \/ TakeBlock
             \/ BatchDone \/ V1Fetch \/ V1Done \/ NoExtras
  <2>1. QuietStep
    BY <1>3, WorkerQuiet
  <2>2. VerdictInv' /\ AwaitInv'
    BY <1>3, QuietVerdict, LoadPrevAwait, TakenVerdict, V1FetchVerdict DEF SInv
  <2>. QED BY <2>1, <2>2, QuietKeeps DEF SInv
<1>4. CASE PutDump \/ PutHash \/ PutData
  BY <1>4, PutVerdict, PutDumpStatus, PutHashStatus, PutDataStatus DEF SInv
<1>5. CASE PutNext \/ MarkData \/ MarkExtra \/ MarkLast \/ LoadExtraBlocks
  BY <1>5, PutNextStatus, MarkDataStatus, MarkExtraStatus, MarkLastStatus, LoadExtraBlocksStatus
<1>6. CASE Stop \/ UNCHANGED vars
  BY <1>6, StopStatus DEF Stop, vars, memory
<1>. QED BY <1>1, <1>2, <1>3, <1>4, <1>5, <1>6 DEF Next, Process, Worker

\* The second invariant holds in every reachable state.
LEMMA StatusInvariance == Spec => []SInv
<1>1. IInv /\ SInv /\ [Next]_vars => SInv'
  BY NextSInv
<1>. QED BY InitSInv, Invariance, <1>1, PTL DEF Spec

\* Whatever the torrents answer, whichever Put fails and wherever the process
\* dies, no cached block is served as signed without a reason: a verified
\* successor, the "broken blocks" rule, a verified sign block or an exemption.
THEOREM SignedJustifiedHolds == Spec => []SignedJustified
<1>1. IInv /\ SInv => SignedJustified
  <2>. SUFFICES ASSUME IInv, SInv, NEW n \in Claimed, data[n] = "signed", IndexAgrees(n)
                PROVE  Attested(n)
    BY DEF SignedJustified
  <2>1. n \in Relied /\ n \in Numbers
    BY ClaimedIsCovered DEF Relied
  <2>2. n \in Agreed
    BY <2>1 DEF Agreed
  <2>. QED BY <2>1, <2>2 DEF SInv, StatusInv, Vouched
<1>. QED BY <1>1, Invariance, StatusInvariance, PTL

\* Every sign block the torrents list carries the signature of a core.
SignBlocksPass == \A e \in Extras : ExtraVerdict[e] > 0

\* Then only the verdict on the block just saved writes a status other than signed,
\* and that block was not signed.
LEMMA StatusWrites ==
  ASSUME IInv, SInv, [Next]_vars, SignBlocksPass, NEW n \in Numbers, data[n] = "signed"
  PROVE  data'[n] = "signed" \/ (PutData /\ db_open /\ n = m_nextblock)
<1>1. CASE PutData
  <2>1. CASE UNCHANGED data
    BY <2>1
  <2>2. CASE data' = [data EXCEPT ![BlockNumber] = SavedStatus] /\ db_open
    <3>1. BlockNumber = m_nextblock
      BY <1>1, Saving DEF PutData, PutStates
    <3>. QED BY <1>1, <2>2, <3>1 DEF IInv, TypeOK, StoreType
  <2>. QED BY <1>1, <2>1, <2>2 DEF PutData, Put
<1>2. CASE MarkData
  <2>1. pc \in MarkStates /\ pc = "mark_data"
    BY <1>2 DEF MarkData, MarkStates
  <2>2. Head(marks) = marks[1] /\ 1 \in 1..Len(marks)
    <3>1. marks \in Seq(Mark) /\ marks # <<>>
      BY <2>1 DEF IInv, TypeOK, MarksInv
    <3>. QED BY <3>1
  <2>3. marks[1].status = "signed" \/ data[marks[1].number] # "signed"
    BY <2>1, <2>2 DEF SInv, PendingInv, SignBlocksPass
  <2>4. data' = data \/ data' = [data EXCEPT ![marks[1].number] = marks[1].status]
    BY <1>2, <2>2 DEF MarkData
  <2>. QED BY <2>3, <2>4 DEF IInv, TypeOK, StoreType
<1>3. CASE ~(PutData \/ MarkData)
  <2>1. UNCHANGED data
    BY <1>3 DEF Next, Process, Worker, Start, Stop, Crash, Exit, NullDatabase, ProcessEnds, WorkerProc,
           LoopExit, WorkerEnds, FetchBlocks, FetchTip, LoadPrev, CheckBlock, TakeBlock,
           BatchDone, V1Count, V1Fetch, V1Done, PutDump, PutHash, PutNext, MarkExtra,
           MarkLast, NoExtras, LoadExtraBlocks, vars, store
  <2>. QED BY <2>1
<1>. QED BY <1>1, <1>2, <1>3

\* A block clients were shown as signed stays signed, under every fault, when the
\* sign blocks the torrents list pass verification.
THEOREM SignedIsStableHolds == SignBlocksPass => (Spec => SignedIsStable)
<1>. SUFFICES ASSUME SignBlocksPass PROVE Spec => SignedIsStable
  OBVIOUS
<1>1. IInv /\ SInv /\ [Next]_vars =>
        [\A n \in Numbers : n < m_nextblock /\ data[n] = "signed" => data'[n] = "signed"]_vars
  <2>. SUFFICES ASSUME IInv, SInv, [Next]_vars, NEW n \in Numbers, n < m_nextblock, data[n] = "signed"
                PROVE  data'[n] = "signed"
    OBVIOUS
  <2>1. n # m_nextblock
    BY ChainsAssumption DEF IInv, TypeOK, MemoryType, Numbers
  <2>. QED BY <2>1, StatusWrites
<1>. QED BY <1>1, Invariance, StatusInvariance, PTL DEF Spec, SignedIsStable

\* The last signed block in the database, as long as nothing has failed.
LastInv == NoFaults /\ db_last # 0 => data[db_last] = "signed"

\* A fault is not forgotten.
LEMMA FaultsStay ==
  ASSUME IInv, [Next]_vars, NoFaults'
  PROVE  NoFaults
<1>1. crashes \in Nat /\ fails \in Nat
  BY DEF IInv, TypeOK, GhostType
<1>2. crashes' = crashes \/ crashes' = crashes + 1
  BY DEF Next, Process, Worker, Start, Stop, Crash, Exit, NullDatabase, WorkerProc,
         LoopExit, WorkerEnds, FetchBlocks, FetchTip, LoadPrev, CheckBlock, TakeBlock,
         BatchDone, V1Count, V1Fetch, V1Done, PutDump, PutHash, PutData, PutNext, MarkData, MarkExtra,
         MarkLast, NoExtras, LoadExtraBlocks, vars, ghosts
<1>3. fails' = fails \/ fails' = fails + 1
  BY DEF Next, Process, Worker, Start, Stop, Crash, Exit, NullDatabase, ProcessEnds, WorkerProc,
         LoopExit, WorkerEnds, FetchBlocks, FetchTip, LoadPrev, CheckBlock, TakeBlock,
         BatchDone, V1Count, V1Fetch, V1Done, PutDump, PutHash, PutData, PutNext, UpdateNumber,
         MarkData, MarkExtra, MarkLast, UpdateLastSigned, Put, NoExtras, LoadExtraBlocks, vars, ghosts
<1>. QED BY <1>1, <1>2, <1>3 DEF NoFaults

\* update_last_signed runs after the status of the block is on disk.
LEMMA LastInvStep ==
  ASSUME IInv, SInv, SignBlocksPass, LastInv, [Next]_vars
  PROVE  LastInv'
<1>. SUFFICES ASSUME NoFaults', db_last' # 0 PROVE data'[db_last'] = "signed"
  BY DEF LastInv
<1>1. NoFaults
  BY FaultsStay
<1>2. CASE MarkLast /\ db_last' # db_last
  <2>1. pc = "mark_last" /\ pc \in MarkStates
    BY <1>2 DEF MarkLast, MarkStates
  <2>2. Head(marks) = marks[1]
    BY <2>1, HeadOfMarks
  <2>3. db_last' = marks[1].number /\ data' = data
    BY <1>2, <2>2 DEF MarkLast, UpdateLastSigned
  <2>. QED BY <1>1, <2>1, <2>3 DEF SInv, PendingInv, FaultlessInv
<1>3. CASE db_last' = db_last
  <2>1. data[db_last] = "signed" /\ db_last < db_next /\ db_last \in Numbers
    BY <1>1, <1>3 DEF LastInv, SInv, FaultlessInv, IInv, TypeOK, StoreType
  <2>2. db_open => db_last # m_nextblock
    BY <2>1, ChainsAssumption DEF IInv, TypeOK, StoreType, MemoryType, NextInv, Numbers
  <2>. QED BY <1>3, <2>1, <2>2, StatusWrites
<1>4. db_last' = db_last \/ MarkLast
  BY DEF Next, Process, Worker, Start, Stop, Crash, Exit, NullDatabase, ProcessEnds, WorkerProc,
         LoopExit, WorkerEnds, FetchBlocks, FetchTip, LoadPrev, CheckBlock, TakeBlock,
         BatchDone, V1Count, V1Fetch, V1Done, PutDump, PutHash, PutData, PutNext, MarkData, MarkExtra,
         NoExtras, LoadExtraBlocks, vars, store
<1>. QED BY <1>2, <1>3, <1>4

\* The number that get-count-blocks reports is the stored one in every reachable
\* state, and as long as nothing has failed it is that of a signed block, when the
\* sign blocks the torrents list pass verification.
THEOREM LastSignedIsSignedHolds == SignBlocksPass => (Spec => []LastSignedIsSigned)
<1>. SUFFICES ASSUME SignBlocksPass PROVE Spec => []LastSignedIsSigned
  OBVIOUS
<1>1. Init => LastInv
  BY DEF Init, LastInv
<1>2. IInv /\ SInv /\ LastInv /\ [Next]_vars => LastInv'
  BY LastInvStep
<1>3. LastInv /\ LastSignedPersisted => LastSignedIsSigned
  BY DEF LastInv, LastSignedPersisted, LastSignedIsSigned
<1>. QED BY <1>1, <1>2, <1>3, Invariance, StatusInvariance, LastSignedPersistedHolds, PTL DEF Spec


-----------------------------------------------------------------------------
(***************************************************************************)
(* The handlers that read the cache while its worker writes it.  First     *)
(* what the worker does not take back.                                     *)
(***************************************************************************)

\* Between start and death the worker moves the counter up by one at most, once
\* it has one, and stays with its database and its first block.
LEMMA CountersGrow ==
  ASSUME IInv, [Next]_vars, pc # "off", pc' # "off"
  PROVE  /\ db_open' = db_open
         /\ db_open /\ m_nextblock # 0 => first' = first /\ m_nextblock' \in {m_nextblock, m_nextblock + 1}
<1>1. CASE WorkerProc \/ V1Count
  BY <1>1 DEF WorkerProc, V1Count
<1>2. CASE PutData
  <2>1. BlockNumber = m_nextblock
    BY <1>2, Saving DEF PutData, PutStates
  <2>. QED BY <1>2, <2>1 DEF PutData
<1>3. CASE ~(WorkerProc \/ V1Count \/ PutData)
  BY <1>3 DEF Next, Process, Worker, Start, Stop, Crash, Exit, NullDatabase, ProcessEnds,
         LoopExit, WorkerEnds, FetchBlocks, FetchTip, LoadPrev, CheckBlock, TakeBlock, BatchDone,
         V1Fetch, V1Done, PutDump, PutHash, PutNext, MarkData, MarkExtra, MarkLast,
         NoExtras, LoadExtraBlocks, vars, memory, ghosts
<1>. QED BY <1>1, <1>2, <1>3

\* An entry of the hash index is never changed.
LEMMA IndexKept ==
  ASSUME IInv, [Next]_vars, NEW b \in Blocks, index[b] # 0
  PROVE  index'[b] = index[b]
<1>1. CASE PutHash
  <2>1. OnChain(hashes[iter].hash, m_nextblock) /\ BlockNumber = m_nextblock
    BY <1>1, Saving DEF PutHash, PutStates
  <2>2. OnChain(b, index[b])
    BY DEF IInv, IndexInv
  <2>3. b = hashes[iter].hash => index[b] = m_nextblock
    BY <2>1, <2>2, OneHeight
  <2>4. index' = index \/ index' = [index EXCEPT ![hashes[iter].hash] = BlockNumber]
    BY <1>1 DEF PutHash
  <2>. QED BY <2>1, <2>3, <2>4 DEF IInv, TypeOK, StoreType
<1>2. CASE ~PutHash
  <2>1. UNCHANGED index
    BY <1>2 DEF Next, Process, Worker, Start, Stop, Crash, Exit, NullDatabase, ProcessEnds, WorkerProc,
           LoopExit, WorkerEnds, FetchBlocks, FetchTip, LoadPrev, CheckBlock, TakeBlock,
           BatchDone, V1Count, V1Fetch, V1Done, PutDump, PutData, PutNext, MarkData, MarkExtra,
           MarkLast, NoExtras, LoadExtraBlocks, vars, store
  <2>. QED BY <2>1
<1>. QED BY <1>1, <1>2

\* As long as nothing has failed, a dump is written once.
LEMMA DumpKept ==
  ASSUME IInv, SInv, NoFaults, [Next]_vars, NEW n \in Numbers, dump[n] # NoBlock
  PROVE  dump'[n] = dump[n]
<1>1. CASE PutDump
  <2>1. BlockNumber = m_nextblock /\ pc = "put_dump"
    BY <1>1, Saving DEF PutDump, PutStates
  <2>2. db_open /\ (dump' = dump \/ dump' = [dump EXCEPT ![BlockNumber] = dumps[iter]])
    BY <1>1 DEF PutDump, Put
  <2>3. n < db_next
    BY <2>1 DEF SInv, FaultlessInv, Storing
  <2>4. n # m_nextblock
    BY <2>2, <2>3, ChainsAssumption DEF IInv, TypeOK, StoreType, MemoryType, NextInv, Numbers
  <2>. QED BY <2>1, <2>2, <2>4 DEF IInv, TypeOK, StoreType
<1>2. CASE ~PutDump
  <2>1. UNCHANGED dump
    BY <1>2 DEF Next, Process, Worker, Start, Stop, Crash, Exit, NullDatabase, ProcessEnds, WorkerProc,
           LoopExit, WorkerEnds, FetchBlocks, FetchTip, LoadPrev, CheckBlock, TakeBlock,
           BatchDone, V1Count, V1Fetch, V1Done, PutHash, PutData, PutNext, MarkData, MarkExtra,
           MarkLast, NoExtras, LoadExtraBlocks, vars, store
  <2>. QED BY <2>1
<1>. QED BY <1>1, <1>2
(***************************************************************************)
(* The handlers.                                                           *)
(***************************************************************************)

\* What a handler keeps while it serves a request.
ReaderPcs == {"idle", "hash", "data", "dump", "extra", "answered", "refused", "forwarded"}

Request == [pc: ReaderPcs, number: Nat, want: Blocks \cup {NoBlock},
            block: Blocks \cup {Junk, NoBlock}, reported: Nat,
            extra: Extras \cup {NoBlock}, ready: BOOLEAN]

\* A handler has a hash or a number to look for, and the number it found in the
\* hash index stays there.
Shape(r) ==
  /\ rd[r].pc = "hash" => rd[r].want \in Blocks
  /\ rd[r].pc \in {"data", "dump", "extra", "answered"} =>
       /\ rd[r].number \in Numbers
       /\ rd[r].want # NoBlock => rd[r].number # 0 /\ index[rd[r].want] = rd[r].number

\* As long as nothing has failed, so does the dump it read.
Found(r) ==
  NoFaults /\ rd[r].pc \in {"extra", "answered"} =>
    rd[r].block # NoBlock /\ dump[rd[r].number] = rd[r].block

\* Handlers live with the process.
OffInv == pc = "off" => \A r \in Readers : rd[r] = Idle

RInv == rd \in [Readers -> Request] /\ OffInv /\ \A r \in Readers : Shape(r) /\ Found(r)

\* The numbers that a request made now has to find.
Ready == {n \in Numbers : Available(n)}

\* What was there when the request arrived is there for every read of it.
Promised(r) ==
  rd[r].ready =>
    /\ rd[r].pc = "hash" => index[rd[r].want] # 0 /\ (db_open => index[rd[r].want] \in Ready)
    /\ rd[r].pc \in {"data", "dump"} /\ db_open => rd[r].number \in Ready
    /\ rd[r].pc = "refused" => rd[r].block \in Hidden \cup {Junk}

PromisedInv == \A r \in Readers : Promised(r)

LEMMA IdleType == Idle \in Request
BY DEF Idle, Request, ReaderPcs

\* The other handlers are left alone.
Alone(r) == rd' \in [Readers -> Request] /\ \A q \in Readers \ {r} : rd'[q] = rd[q]

\* A request that moves on.
LEMMA Moved ==
  ASSUME rd \in [Readers -> Request], NEW r \in Readers, NEW s \in ReaderPcs, To(r, s)
  PROVE  /\ Alone(r)
         /\ rd'[r].pc = s /\ rd'[r].number = rd[r].number /\ rd'[r].want = rd[r].want
         /\ rd'[r].block = rd[r].block /\ rd'[r].ready = rd[r].ready
BY DEF To, Request, Alone

\* A request that is replaced by another.
LEMMA Replaced ==
  ASSUME rd \in [Readers -> Request], NEW r \in Readers, NEW x \in Request, rd' = [rd EXCEPT ![r] = x]
  PROVE  Alone(r) /\ rd'[r] = x
BY DEF Alone

\* A new request by number or by hash.
ByNumber(n, w, s) == [Idle EXCEPT !.number = n, !.ready = w, !.pc = s]
ByHash(b, w, s)   == [Idle EXCEPT !.want = b, !.ready = w, !.pc = s]

LEMMA NumberAsked ==
  ASSUME NEW s \in ReaderPcs, NEW w \in BOOLEAN, NEW n \in Nat
  PROVE  \E x \in Request :
           /\ x = ByNumber(n, w, s)
           /\ x.pc = s /\ x.number = n /\ x.ready = w /\ x.want = NoBlock /\ x.block = NoBlock
<1>1. PICK x : x = ByNumber(n, w, s)
  OBVIOUS
<1>2. x = [pc |-> s, number |-> n, want |-> NoBlock, block |-> NoBlock,
           reported |-> 0, extra |-> NoBlock, ready |-> w]
  BY <1>1 DEF Idle, ByNumber
<1>3. x \in Request
  BY <1>2 DEF Request
<1>4. x.pc = s
  BY <1>2, Zenon
<1>5. x.number = n
  BY <1>2, Zenon
<1>6. x.ready = w
  BY <1>2, Zenon
<1>7. x.want = NoBlock /\ x.block = NoBlock
  BY <1>1 DEF Idle, ByNumber
<1>. QED BY <1>1, <1>3, <1>4, <1>5, <1>6, <1>7, Zenon

LEMMA HashAsked ==
  ASSUME NEW s \in ReaderPcs, NEW w \in BOOLEAN, NEW b \in Blocks
  PROVE  \E x \in Request :
           /\ x = ByHash(b, w, s)
           /\ x.pc = s /\ x.want = b /\ x.ready = w /\ x.block = NoBlock
<1>1. PICK x : x = ByHash(b, w, s)
  OBVIOUS
<1>2. x = [pc |-> s, number |-> 0, want |-> b, block |-> NoBlock,
           reported |-> 0, extra |-> NoBlock, ready |-> w]
  BY <1>1 DEF Idle, ByHash
<1>3. x \in Request
  BY <1>2 DEF Request
<1>4. x.pc = s
  BY <1>2, Zenon
<1>5. x.want = b
  BY <1>2, Zenon
<1>6. x.ready = w
  BY <1>2, Zenon
<1>7. x.block = NoBlock
  BY <1>1 DEF Idle, ByHash
<1>. QED BY <1>1, <1>3, <1>4, <1>5, <1>6, <1>7, Zenon

LEMMA AskNumberStep ==
  ASSUME rd \in [Readers -> Request], NEW r \in Readers, AskNumber(r)
  PROVE  /\ Alone(r) /\ rd'[r].pc \in {"forwarded", "data", "dump"}
         /\ rd'[r].number \in Numbers /\ rd'[r].want = NoBlock /\ rd'[r].block = NoBlock
         /\ rd'[r].ready => Available(rd'[r].number)
<1>1. PICK n \in Numbers \ {0} :
        rd' = [rd EXCEPT ![r] = [Idle EXCEPT !.number = n,
                                             !.ready = m_run /\ Available(n),
                                             !.pc = IF ~m_run THEN "forwarded"
                                                    ELSE IF Verification THEN "data"
                                                    ELSE "dump"]]
  BY Zenon DEF AskNumber
<1>2. PICK s \in {"forwarded", "data", "dump"} :
        rd' = [rd EXCEPT ![r] = [Idle EXCEPT !.number = n, !.ready = m_run /\ Available(n), !.pc = s]]
  BY <1>1, Zenon
<1>3. PICK w \in BOOLEAN : /\ w => Available(n)
                           /\ rd' = [rd EXCEPT ![r] = [Idle EXCEPT !.number = n, !.ready = w, !.pc = s]]
  <2>1. (m_run /\ Available(n)) \in BOOLEAN
    BY Zenon
  <2>. QED BY <1>2, <2>1, Zenon
<1>4. n \in Nat /\ s \in ReaderPcs
  BY ChainsAssumption DEF Numbers, ReaderPcs
<1>5. PICK x \in Request :
        /\ x = ByNumber(n, w, s)
        /\ x.pc = s /\ x.number = n /\ x.ready = w /\ x.want = NoBlock /\ x.block = NoBlock
  BY <1>4, NumberAsked
<1>6. Alone(r) /\ rd'[r] = x
  BY <1>3, <1>5, Replaced, Zenon DEF ByNumber
<1>7. rd'[r].ready => Available(rd'[r].number)
  BY <1>3, <1>5, <1>6, Zenon
<1>. QED BY <1>5, <1>6, <1>7

LEMMA AskHashStep ==
  ASSUME rd \in [Readers -> Request], NEW r \in Readers, AskHash(r)
  PROVE  /\ Alone(r) /\ rd'[r].pc \in {"forwarded", "hash"}
         /\ rd'[r].want \in Blocks /\ rd'[r].block = NoBlock
         /\ rd'[r].ready => index[rd'[r].want] # 0 /\ Available(index[rd'[r].want])
<1>1. PICK b \in Blocks :
        rd' = [rd EXCEPT ![r] = [Idle EXCEPT !.want = b,
                                             !.ready = m_run /\ index[b] # 0 /\ Available(index[b]),
                                             !.pc = IF m_run THEN "hash" ELSE "forwarded"]]
  BY Zenon DEF AskHash
<1>2. PICK s \in {"forwarded", "hash"} :
        rd' = [rd EXCEPT ![r] = [Idle EXCEPT !.want = b,
                                             !.ready = m_run /\ index[b] # 0 /\ Available(index[b]),
                                             !.pc = s]]
  BY <1>1, Zenon
<1>3. PICK w \in BOOLEAN : /\ w => index[b] # 0 /\ Available(index[b])
                           /\ rd' = [rd EXCEPT ![r] = [Idle EXCEPT !.want = b, !.ready = w, !.pc = s]]
  <2>1. (m_run /\ index[b] # 0 /\ Available(index[b])) \in BOOLEAN
    BY Zenon
  <2>. QED BY <1>2, <2>1, Zenon
<1>4. s \in ReaderPcs
  BY DEF ReaderPcs
<1>5. PICK x \in Request :
        x = ByHash(b, w, s) /\ x.pc = s /\ x.want = b /\ x.ready = w /\ x.block = NoBlock
  BY <1>4, HashAsked
<1>6. Alone(r) /\ rd'[r] = x
  BY <1>3, <1>5, Replaced, Zenon DEF ByHash
<1>7. rd'[r].ready => index[rd'[r].want] # 0 /\ Available(index[rd'[r].want])
  BY <1>3, <1>5, <1>6, Zenon
<1>. QED BY <1>5, <1>6, <1>7

\* The reads of a request.
LEMMA ReadHashStep ==
  ASSUME TypeOK, rd \in [Readers -> Request], NEW r \in Readers, ReadHash(r), rd[r].want \in Blocks
  PROVE  /\ Alone(r) /\ rd'[r].want = rd[r].want /\ rd'[r].block = rd[r].block
         /\ rd'[r].ready = rd[r].ready
         /\ \/ index[rd[r].want] = 0 /\ rd'[r].pc = "refused"
            \/ /\ index[rd[r].want] # 0 /\ rd'[r].pc \in {"data", "dump"}
               /\ rd'[r].number = index[rd[r].want] /\ rd'[r].number \in Numbers
<1>1. CASE index[rd[r].want] = 0
  BY <1>1, Moved DEF ReadHash, ReaderPcs
<1>2. CASE index[rd[r].want] # 0
  <2>1. PICK n, s : /\ n = index[rd[r].want] /\ s \in {"data", "dump"}
                    /\ rd' = [rd EXCEPT ![r].number = n, ![r].pc = s]
    BY <1>2 DEF ReadHash
  <2>2. n \in Numbers /\ n \in Nat /\ s \in ReaderPcs
    BY <2>1, ChainsAssumption DEF TypeOK, StoreType, Numbers, ReaderPcs
  <2>. DEFINE x == [rd[r] EXCEPT !.number = n, !.pc = s]
  <2>3. rd[r] \in Request
    OBVIOUS
  <2>4. /\ x \in Request /\ x.want = rd[r].want /\ x.block = rd[r].block
        /\ x.ready = rd[r].ready /\ x.pc = s /\ x.number = n
    BY <2>2, <2>3 DEF Request
  <2>5. rd' = [rd EXCEPT ![r] = x]
    BY <2>1
  <2>. HIDE DEF x
  <2>6. Alone(r) /\ rd'[r] = x
    BY <2>4, <2>5, Replaced
  <2>. QED BY <1>2, <2>1, <2>2, <2>4, <2>6
<1>. QED BY <1>1, <1>2

LEMMA ReadDumpStep ==
  ASSUME TypeOK, rd \in [Readers -> Request], NEW r \in Readers, ReadDump(r), rd[r].number \in Numbers
  PROVE  /\ Alone(r) /\ rd'[r].want = rd[r].want /\ rd'[r].number = rd[r].number
         /\ rd'[r].ready = rd[r].ready
         /\ \/ dump[rd[r].number] = NoBlock /\ rd'[r].pc = "refused"
            \/ /\ dump[rd[r].number] # NoBlock /\ rd'[r].pc = "extra"
               /\ rd'[r].block = dump[rd[r].number]
<1>1. CASE dump[rd[r].number] = NoBlock
  BY <1>1, Moved DEF ReadDump, ReaderPcs
<1>2. CASE dump[rd[r].number] # NoBlock
  <2>1. PICK b : b = dump[rd[r].number] /\ rd' = [rd EXCEPT ![r].block = b, ![r].pc = "extra"]
    BY <1>2 DEF ReadDump
  <2>2. b \in Blocks \cup {Junk, NoBlock} /\ "extra" \in ReaderPcs
    BY <2>1 DEF TypeOK, StoreType, ReaderPcs
  <2>. DEFINE x == [rd[r] EXCEPT !.block = b, !.pc = "extra"]
  <2>3. rd[r] \in Request
    OBVIOUS
  <2>4. /\ x \in Request /\ x.want = rd[r].want /\ x.number = rd[r].number
        /\ x.ready = rd[r].ready /\ x.pc = "extra" /\ x.block = b
    BY <2>2, <2>3 DEF Request
  <2>5. rd' = [rd EXCEPT ![r] = x]
    BY <2>1
  <2>. HIDE DEF x
  <2>6. Alone(r) /\ rd'[r] = x
    BY <2>4, <2>5, Replaced
  <2>. QED BY <1>2, <2>1, <2>4, <2>6
<1>. QED BY <1>1, <1>2

LEMMA ReadExtraStep ==
  ASSUME TypeOK, rd \in [Readers -> Request], NEW r \in Readers, ReadExtra(r) \/ AnswerDump(r)
  PROVE  /\ Alone(r) /\ rd'[r].want = rd[r].want /\ rd'[r].number = rd[r].number
         /\ rd'[r].ready = rd[r].ready /\ rd'[r].block = rd[r].block
         /\ \/ rd'[r].pc = "answered"
            \/ rd[r].block \in Hidden \cup {Junk} /\ rd'[r].pc = "refused"
<1>1. CASE AnswerDump(r)
  BY <1>1, Moved DEF AnswerDump, ReaderPcs
<1>2. CASE ReadExtra(r) /\ rd[r].block \in Hidden \cup {Junk}
  BY <1>2, Moved DEF ReadExtra, ReaderPcs
<1>3. CASE ReadExtra(r) /\ rd[r].block \notin Hidden \cup {Junk}
  <2>. DEFINE n == IF rd[r].want = NoBlock THEN rd[r].number ELSE HashDigits[rd[r].want]
              e == IF n \in Numbers THEN extra[n] ELSE NoBlock
              x == [rd[r] EXCEPT !.reported = n, !.extra = e, !.pc = "answered"]
  <2>1. rd' = [rd EXCEPT ![r].reported = n, ![r].extra = e, ![r].pc = "answered"]
    BY <1>3, Zenon DEF ReadExtra
  <2>2. rd[r] \in Request
    OBVIOUS
  <2>3. n \in Nat
    BY <2>2, ReadersAssumption DEF Request
  <2>4. e \in Extras \cup {NoBlock} /\ "answered" \in ReaderPcs
    BY DEF TypeOK, StoreType, ReaderPcs
  <2>. HIDE DEF n, e
  <2>5. /\ x \in Request /\ x.want = rd[r].want /\ x.number = rd[r].number
        /\ x.ready = rd[r].ready /\ x.pc = "answered" /\ x.block = rd[r].block
    BY <2>2, <2>3, <2>4 DEF Request
  <2>6. rd' = [rd EXCEPT ![r] = x]
    BY <2>1
  <2>. HIDE DEF x
  <2>7. Alone(r) /\ rd'[r] = x
    BY <2>5, <2>6, Replaced
  <2>. QED BY <2>5, <2>7
<1>. QED BY <1>1, <1>2, <1>3
\* A handler that is left alone keeps what it has, because nothing else moves.
LEMMA OthersKept ==
  ASSUME NEW r \in Readers, Alone(r), UNCHANGED vars, NEW q \in Readers \ {r},
         Shape(q), Found(q)
  PROVE  Shape(q)' /\ Found(q)' /\ (Promised(q) => Promised(q)')
<1>1. rd'[q] = rd[q]
  BY DEF Alone
<1>2. UNCHANGED <<index, dump, data, db_open, m_nextblock, first, crashes, fails>>
  BY DEF vars, store, memory, ghosts
<1>3. Ready' = Ready
  BY <1>2 DEF Ready, Available
<1>4. Shape(q)' /\ Found(q)'
  BY <1>1, <1>2 DEF Shape, Found, NoFaults
<1>5. Promised(q) => Promised(q)'
  BY <1>1, <1>2, <1>3, Zenon DEF Promised
<1>. QED BY <1>4, <1>5

\* A number that can be promised has its status and its dump.
LEMMA ReadyIsStored ==
  ASSUME IInv, NEW n \in Ready, db_open
  PROVE  data[n] = "signed" /\ dump[n] # NoBlock
BY DEF Ready, Available, IInv, StoreInv, Upto, Complete

\* A request arrives.
LEMMA AskKeeps ==
  ASSUME IInv, rd \in [Readers -> Request], NEW r \in Readers, AskNumber(r) \/ AskHash(r), UNCHANGED vars
  PROVE  Alone(r) /\ Shape(r)' /\ Found(r)' /\ Promised(r)'
<1>1. UNCHANGED <<index, dump, data, db_open, m_nextblock, first, crashes, fails>>
  BY DEF vars, store, memory, ghosts
<1>2. Ready' = Ready
  BY <1>1 DEF Ready, Available
<1>3. CASE AskNumber(r)
  <2>1. /\ Alone(r) /\ rd'[r].pc \in {"forwarded", "data", "dump"}
        /\ rd'[r].number \in Numbers /\ rd'[r].want = NoBlock
        /\ rd'[r].ready => Available(rd'[r].number)
    BY <1>3, AskNumberStep
  <2>2. Shape(r)' /\ Found(r)'
    BY <2>1 DEF Shape, Found
  <2>3. rd'[r].ready => rd'[r].number \in Ready
    BY <2>1 DEF Ready
  <2>4. Promised(r)'
    BY <1>2, <2>1, <2>3 DEF Promised
  <2>. QED BY <2>1, <2>2, <2>4
<1>4. CASE AskHash(r)
  <2>1. /\ Alone(r) /\ rd'[r].pc \in {"forwarded", "hash"}
        /\ rd'[r].want \in Blocks
        /\ rd'[r].ready => index[rd'[r].want] # 0 /\ Available(index[rd'[r].want])
    BY <1>4, AskHashStep
  <2>2. Shape(r)' /\ Found(r)'
    BY <2>1 DEF Shape, Found
  <2>3. index[rd'[r].want] \in Numbers
    BY <2>1 DEF IInv, TypeOK, StoreType
  <2>4. rd'[r].ready => index[rd'[r].want] # 0 /\ index[rd'[r].want] \in Ready
    BY <2>1, <2>3 DEF Ready
  <2>5. Promised(r)'
    BY <1>1, <1>2, <2>1, <2>4 DEF Promised
  <2>. QED BY <2>1, <2>2, <2>5
<1>. QED BY <1>3, <1>4

LEMMA ReadHashKeeps ==
  ASSUME IInv, rd \in [Readers -> Request], NEW r \in Readers, Shape(r),
         ReadHash(r), UNCHANGED vars
  PROVE  Alone(r) /\ Shape(r)' /\ Found(r)' /\ (Promised(r) => Promised(r)')
<1>1. UNCHANGED <<index, dump, data, db_open, m_nextblock, first, crashes, fails>>
  BY DEF vars, store, memory, ghosts
<1>2. Ready' = Ready
  BY <1>1 DEF Ready, Available
<1>3. rd[r].pc = "hash" /\ rd[r].want \in Blocks /\ db_open
  BY DEF ReadHash, Shape
<1>4. /\ Alone(r) /\ rd'[r].want = rd[r].want
      /\ rd'[r].ready = rd[r].ready
      /\ \/ index[rd[r].want] = 0 /\ rd'[r].pc = "refused"
         \/ /\ index[rd[r].want] # 0 /\ rd'[r].pc \in {"data", "dump"}
            /\ rd'[r].number = index[rd[r].want] /\ rd'[r].number \in Numbers
  BY <1>3, ReadHashStep DEF IInv
<1>5. Shape(r)' /\ Found(r)'
  BY <1>1, <1>4 DEF Shape, Found
<1>6. Promised(r) => Promised(r)'
  BY <1>1, <1>2, <1>3, <1>4 DEF Promised
<1>. QED BY <1>4, <1>5, <1>6

LEMMA ReadDataKeeps ==
  ASSUME IInv, rd \in [Readers -> Request], NEW r \in Readers, Shape(r),
         ReadData(r), UNCHANGED vars
  PROVE  Alone(r) /\ Shape(r)' /\ Found(r)' /\ (Promised(r) => Promised(r)')
<1>1. UNCHANGED <<index, dump, data, db_open, m_nextblock, first, crashes, fails>>
  BY DEF vars, store, memory, ghosts
<1>2. Ready' = Ready
  BY <1>1 DEF Ready, Available
<1>3. rd[r].pc = "data" /\ db_open
  BY DEF ReadData
<1>4. PICK s \in {"dump", "refused"} : To(r, s) /\ (s = "refused" => data[rd[r].number] # "signed")
  BY DEF ReadData
<1>5. /\ Alone(r) /\ rd'[r].pc = s /\ rd'[r].number = rd[r].number /\ rd'[r].want = rd[r].want
      /\ rd'[r].ready = rd[r].ready
  BY <1>4, Moved DEF ReaderPcs
<1>6. Shape(r)' /\ Found(r)'
  BY <1>1, <1>3, <1>5 DEF Shape, Found
<1>7. Promised(r) /\ rd[r].ready => rd[r].number \in Ready /\ s # "refused"
  BY <1>3, <1>4, ReadyIsStored DEF Promised
<1>8. Promised(r) => Promised(r)'
  BY <1>1, <1>2, <1>5, <1>7 DEF Promised
<1>. QED BY <1>5, <1>6, <1>8

LEMMA ReadDumpKeeps ==
  ASSUME IInv, rd \in [Readers -> Request], NEW r \in Readers, Shape(r),
         ReadDump(r), UNCHANGED vars
  PROVE  Alone(r) /\ Shape(r)' /\ Found(r)' /\ (Promised(r) => Promised(r)')
<1>1. UNCHANGED <<index, dump, data, db_open, m_nextblock, first, crashes, fails>>
  BY DEF vars, store, memory, ghosts
<1>2. rd[r].pc = "dump" /\ db_open /\ rd[r].number \in Numbers
  BY DEF ReadDump, Shape
<1>3. /\ Alone(r) /\ rd'[r].want = rd[r].want /\ rd'[r].number = rd[r].number
      /\ rd'[r].ready = rd[r].ready
      /\ \/ dump[rd[r].number] = NoBlock /\ rd'[r].pc = "refused"
         \/ /\ dump[rd[r].number] # NoBlock /\ rd'[r].pc = "extra"
            /\ rd'[r].block = dump[rd[r].number]
  BY <1>2, ReadDumpStep DEF IInv
<1>4. Shape(r)' /\ Found(r)'
  BY <1>1, <1>2, <1>3 DEF Shape, Found
<1>5. Promised(r) /\ rd[r].ready => dump[rd[r].number] # NoBlock
  BY <1>2, ReadyIsStored DEF Promised
<1>6. Promised(r) => Promised(r)'
  BY <1>3, <1>5 DEF Promised
<1>. QED BY <1>3, <1>4, <1>6

LEMMA AnswerKeeps ==
  ASSUME IInv, rd \in [Readers -> Request], NEW r \in Readers, Shape(r), Found(r),
         ReadExtra(r) \/ AnswerDump(r), UNCHANGED vars
  PROVE  Alone(r) /\ Shape(r)' /\ Found(r)' /\ (Promised(r) => Promised(r)')
<1>1. UNCHANGED <<index, dump, crashes, fails>>
  BY DEF vars, store, ghosts
<1>2. rd[r].pc = "extra"
  BY DEF ReadExtra, AnswerDump
<1>3. /\ Alone(r) /\ rd'[r].want = rd[r].want /\ rd'[r].number = rd[r].number
      /\ rd'[r].ready = rd[r].ready /\ rd'[r].block = rd[r].block
      /\ \/ rd'[r].pc = "answered"
         \/ rd[r].block \in Hidden \cup {Junk} /\ rd'[r].pc = "refused"
  BY ReadExtraStep DEF IInv
<1>4. Shape(r)' /\ Found(r)'
  BY <1>1, <1>2, <1>3 DEF Shape, Found, NoFaults
<1>5. Promised(r) => Promised(r)'
  BY <1>3 DEF Promised
<1>. QED BY <1>3, <1>4, <1>5

LEMMA RespondKeeps ==
  ASSUME rd \in [Readers -> Request], NEW r \in Readers, Respond(r)
  PROVE  Alone(r) /\ Shape(r)' /\ Found(r)' /\ Promised(r)'
<1>1. Alone(r) /\ rd'[r] = Idle
  BY IdleType, Replaced DEF Respond
<1>2. Idle.pc = "idle"
  BY DEF Idle
<1>. QED BY <1>1, <1>2 DEF Shape, Found, Promised

(***************************************************************************)
(* The invariant and the theorems.                                         *)
(***************************************************************************)

\* One step of one handler.
LEMMA ReaderKeeps ==
  ASSUME IInv, RInv, Reader, UNCHANGED vars
  PROVE  RInv' /\ (PromisedInv => PromisedInv')
<1>1. PICK r \in Readers :
        \/ AskNumber(r) \/ AskHash(r)
        \/ ReadHash(r) \/ ReadData(r) \/ ReadDump(r) \/ ReadExtra(r)
        \/ AnswerDump(r) \/ Respond(r)
  BY DEF Reader
<1>2. rd \in [Readers -> Request] /\ Shape(r) /\ Found(r)
  BY DEF RInv
<1>3. Alone(r) /\ Shape(r)' /\ Found(r)' /\ (Promised(r) => Promised(r)')
  BY <1>1, <1>2, AskKeeps, ReadHashKeeps, ReadDataKeeps, ReadDumpKeeps, AnswerKeeps, RespondKeeps
<1>4. \A q \in Readers \ {r} : Shape(q)' /\ Found(q)' /\ (Promised(q) => Promised(q)')
  BY <1>3, OthersKept DEF RInv
<1>5. pc' # "off"
  <2>1. Idle.pc = "idle"
    BY DEF Idle
  <2>2. rd[r].pc # "idle" \/ pc # "off"
    BY <1>1 DEF AskNumber, AskHash, ReadHash, ReadData, ReadDump, ReadExtra, AnswerDump, Respond
  <2>. QED BY <2>1, <2>2 DEF RInv, OffInv, vars
<1>6. RInv'
  BY <1>3, <1>4, <1>5 DEF RInv, OffInv, Alone
<1>7. PromisedInv => PromisedInv'
  BY <1>3, <1>4 DEF PromisedInv
<1>. QED BY <1>6, <1>7

\* The end of the process ends the handlers.
LEMMA AllIdle ==
  ASSUME rd' = [r \in Readers |-> Idle]
  PROVE  RInv' /\ PromisedInv'
<1>1. \A r \in Readers : rd'[r] = Idle
  OBVIOUS
<1>2. Idle.pc = "idle"
  BY DEF Idle
<1>3. \A r \in Readers : Shape(r)' /\ Found(r)' /\ Promised(r)'
  BY <1>1, <1>2 DEF Shape, Found, Promised
<1>4. rd' \in [Readers -> Request]
  BY IdleType
<1>. QED BY <1>1, <1>3, <1>4 DEF RInv, OffInv, PromisedInv

\* A step of the worker changes nothing that a handler has read.
LEMMA WorkerKeepsRead ==
  ASSUME IInv, SInv, RInv, [Next]_vars, UNCHANGED rd, pc' # "off"
  PROVE  RInv'
<1>. SUFFICES ASSUME NEW r \in Readers PROVE Shape(r)' /\ Found(r)'
  BY DEF RInv, OffInv
<1>1. rd[r] \in Request /\ Shape(r) /\ Found(r)
  BY DEF RInv
<1>2. rd[r].want # NoBlock => rd[r].want \in Blocks
  BY <1>1 DEF Request
<1>3. \A b \in Blocks : index[b] # 0 => index'[b] = index[b]
  BY IndexKept
<1>4. Shape(r)'
  BY <1>1, <1>2, <1>3 DEF Shape
<1>5. ASSUME NoFaults' PROVE NoFaults /\ \A n \in Numbers : dump[n] # NoBlock => dump'[n] = dump[n]
  BY <1>5, FaultsStay, DumpKept
<1>6. Found(r)'
  BY <1>1, <1>5 DEF Shape, Found
<1>. QED BY <1>4, <1>6

\* Nor does it take back what was promised.
LEMMA ReadyGrows ==
  ASSUME IInv, SInv, [Next]_vars, SignBlocksPass, pc # "off", pc' # "off", db_open, NEW n \in Ready
  PROVE  n \in Ready'
<1>1. n \in Numbers /\ n < m_nextblock /\ first <= n /\ data[n] = "signed"
  BY DEF Ready, Available
<1>2. n \in Nat /\ m_nextblock \in Nat
  BY <1>1, ChainsAssumption DEF Numbers, IInv, TypeOK, MemoryType
<1>3. m_nextblock # 0 /\ n # m_nextblock
  BY <1>1, <1>2
<1>4. first' = first /\ m_nextblock' \in {m_nextblock, m_nextblock + 1}
  BY <1>3, CountersGrow
<1>5. data'[n] = "signed"
  BY <1>1, <1>3, StatusWrites
<1>. QED BY <1>1, <1>2, <1>4, <1>5 DEF Ready, Available

LEMMA WorkerKeepsPromises ==
  ASSUME IInv, SInv, RInv, PromisedInv, [Next]_vars, SignBlocksPass, UNCHANGED rd, pc' # "off"
  PROVE  PromisedInv'
<1>. SUFFICES ASSUME NEW r \in Readers PROVE Promised(r)'
  BY DEF PromisedInv
<1>1. CASE pc = "off"
  <2>1. rd'[r] = Idle
    BY <1>1 DEF RInv, OffInv
  <2>2. Idle.pc = "idle"
    BY DEF Idle
  <2>. QED BY <2>1, <2>2 DEF Promised
<1>2. CASE pc # "off"
  <2>1. Shape(r) /\ Promised(r)
    BY DEF RInv, PromisedInv
  <2>2. \A b \in Blocks : index[b] # 0 => index'[b] = index[b]
    BY IndexKept
  <2>3. db_open' = db_open
    BY <1>2, CountersGrow
  <2>4. db_open => \A n \in Ready : n \in Ready'
    BY <1>2, ReadyGrows
  <2>. QED BY <2>1, <2>2, <2>3, <2>4 DEF Shape, Promised
<1>. QED BY <1>1, <1>2

\* No request yet.
LEMMA ReadersBegin == ReadersInit => RInv /\ PromisedInv
<1>. SUFFICES ASSUME ReadersInit PROVE RInv /\ PromisedInv
  OBVIOUS
<1>1. \A r \in Readers : rd[r] = Idle
  BY DEF ReadersInit
<1>2. Idle.pc = "idle"
  BY DEF Idle
<1>3. rd \in [Readers -> Request]
  BY IdleType DEF ReadersInit
<1>4. \A r \in Readers : Shape(r) /\ Found(r) /\ Promised(r)
  BY <1>1, <1>2 DEF Shape, Found, Promised
<1>. QED BY <1>1, <1>3, <1>4 DEF RInv, OffInv, PromisedInv

\* The readers change nothing of the cache.
LEMMA CacheGoesOn == ReadersSpec => [](IInv /\ SInv)
<1>1. ReadersInit => Init
  BY DEF ReadersInit
<1>2. [ReadersNext]_<<vars, rd>> => [Next]_vars
  BY DEF ReadersNext, CacheStep
<1>3. ReadersSpec => Spec
  BY <1>1, <1>2, PTL DEF ReadersSpec, Spec
<1>. QED BY <1>3, Invariance, StatusInvariance, PTL

LEMMA StepKeepsRead == IInv /\ SInv /\ RInv /\ [ReadersNext]_<<vars, rd>> => RInv'
<1>. SUFFICES ASSUME IInv, SInv, RInv, [ReadersNext]_<<vars, rd>> PROVE RInv'
  OBVIOUS
<1>1. CASE Reader /\ UNCHANGED vars
  BY <1>1, ReaderKeeps
<1>2. CASE CacheStep /\ pc' = "off"
  BY <1>2, AllIdle DEF CacheStep
<1>3. CASE [Next]_vars /\ UNCHANGED rd /\ pc' # "off"
  BY <1>3, WorkerKeepsRead
<1>4. CASE UNCHANGED <<vars, rd>>
  <2>1. UNCHANGED <<pc, index, dump, crashes, fails, rd>>
    BY <1>4 DEF vars, store, ghosts
  <2>. QED BY <2>1 DEF RInv, OffInv, Shape, Found, NoFaults
<1>. QED BY <1>1, <1>2, <1>3, <1>4 DEF ReadersNext, CacheStep

LEMMA StepKeepsPromises ==
  ASSUME SignBlocksPass
  PROVE  IInv /\ SInv /\ RInv /\ PromisedInv /\ [ReadersNext]_<<vars, rd>> => PromisedInv'
<1>. SUFFICES ASSUME IInv, SInv, RInv, PromisedInv, [ReadersNext]_<<vars, rd>> PROVE PromisedInv'
  OBVIOUS
<1>1. CASE Reader /\ UNCHANGED vars
  BY <1>1, ReaderKeeps
<1>2. CASE CacheStep /\ pc' = "off"
  BY <1>2, AllIdle DEF CacheStep
<1>3. CASE [Next]_vars /\ UNCHANGED rd /\ pc' # "off"
  BY <1>3, WorkerKeepsPromises
<1>4. CASE UNCHANGED <<vars, rd>>
  <2>1. UNCHANGED <<index, data, db_open, m_nextblock, first, rd>>
    BY <1>4 DEF vars, store, memory, ghosts
  <2>2. Ready' = Ready
    BY <2>1 DEF Ready, Available
  <2>. QED BY <2>1, <2>2, Zenon DEF PromisedInv, Promised
<1>. QED BY <1>1, <1>2, <1>3, <1>4 DEF ReadersNext, CacheStep

LEMMA ReadersInvariance == ReadersSpec => [](IInv /\ SInv /\ RInv)
<1>1. ReadersInit => RInv
  BY ReadersBegin
<1>. QED BY <1>1, CacheGoesOn, StepKeepsRead, PTL DEF ReadersSpec

\* What a client was told stays true as long as nothing has failed: the dump is the
\* one kept under the number and, where the hash of a dump is looked at before it
\* is stored (verification on, or version 1), the block of the hash asked for.
THEOREM AnswersStayRightHolds ==
  ReadersSpec => [](NoFaults /\ (Verification \/ Version = 1) => AnswersStayRight)
<1>1. IInv /\ SInv /\ RInv => (NoFaults /\ (Verification \/ Version = 1) => AnswersStayRight)
  <2>. SUFFICES ASSUME IInv, SInv, RInv, NoFaults, Verification \/ Version = 1,
                       NEW r \in Readers, rd[r].pc = "answered"
                PROVE  /\ rd[r].block = dump[rd[r].number]
                       /\ rd[r].want # NoBlock /\ rd[r].number > 1 => rd[r].block = rd[r].want
    BY DEF AnswersStayRight
  <2>1. Shape(r) /\ Found(r) /\ rd[r] \in Request
    BY DEF RInv
  <2>2. rd[r].want # NoBlock => rd[r].want \in Blocks
    BY <2>1 DEF Request
  <2>3. \A b \in Blocks : index[b] > 1 => dump[index[b]] = b
    BY DEF SInv, FaultlessInv
  <2>. QED BY <2>1, <2>2, <2>3 DEF Shape, Found
<1>. QED BY <1>1, ReadersInvariance, PTL

\* A block that was signed and cached when the request arrived is not refused,
\* whatever fails, unless it is hidden or no block at all, when the sign blocks the
\* torrents list pass verification.
THEOREM SignedBlocksAreAnsweredHolds ==
  SignBlocksPass => (ReadersSpec => []SignedBlocksAreAnswered)
<1>. SUFFICES ASSUME SignBlocksPass PROVE ReadersSpec => []SignedBlocksAreAnswered
  OBVIOUS
<1>1. ReadersInit => PromisedInv
  BY ReadersBegin
<1>2. IInv /\ SInv /\ RInv /\ PromisedInv /\ [ReadersNext]_<<vars, rd>> => PromisedInv'
  BY StepKeepsPromises
<1>3. PromisedInv => SignedBlocksAreAnswered
  BY DEF PromisedInv, Promised, SignedBlocksAreAnswered
<1>. QED BY <1>1, <1>2, <1>3, ReadersInvariance, PTL DEF ReadersSpec

=============================================================================
