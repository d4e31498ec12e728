---------------------------- MODULE BlocksCache ----------------------------
(***************************************************************************)
(* The block cache of the full-node client: one worker thread copies the   *)
(* block chain from remote torrent nodes into a LevelDB, one Put at a      *)
(* time, and records for every block whether enough cores have signed it.  *)
(*                                                                         *)
(* The module follows cache/blocks_cache.cpp.  Both routines of the worker *)
(* are modelled: routine_2 (Version = 2, batches of dumps, signature       *)
(* bookkeeping) and routine (Version = 1, one dump at a time).  Every Put  *)
(* is a step of its own, so the process may die, and other threads may     *)
(* read, between any two of them.                                          *)
(*                                                                         *)
(* A block is identified with its hash.  What the torrents may answer is   *)
(* the constant Chains; timers and network failures only delay the loop    *)
(* head, where nothing but the pc is live, and are stuttering steps.       *)
(***************************************************************************)
EXTENDS Integers, Sequences, FiniteSets

CONSTANTS
  Blocks,         \* block hashes
  NoBlock,        \* "no such record"
  Junk,           \* a dump that parseBlockDump does not turn into a BlockInfo
  PrevHash,       \* header.prevHash of every block
  Verdict,        \* core_addr_verification of every block that is not auto signed
  AutoSigned,     \* block numbers auto_signed_block accepts
  Extras,         \* sign blocks ("extra blocks")
  ExtraPrev,      \* header.prevHash of a sign block, NoBlock when it is none
  ExtraVerdict,   \* core_addr_verification of a sign block
  PrevExtras,     \* "prev_extra_blocks" a torrent lists with a block
  NextExtras,     \* "next_extra_blocks" a torrent lists when the block is its tip
  Chains,         \* chains the torrents serve, each a sequence of blocks
  WrongDumps,     \* dumps a torrent may return in place of the requested one
  MaxBlock,       \* highest block number
  RecvCount,      \* settings::system::blocks_cache_recv_count
  InitCount,      \* settings::system::blocks_cache_init_count
  Word,           \* number of values of blk_number
  Verification,   \* settings::system::blocks_cache_block_verification
  Version,        \* settings::system::blocks_cache_ver
  MaxCrashes,     \* bound on process crashes
  MaxFails,       \* bound on failed Puts
  OpenMayFail     \* may leveldb::DB::Open fail

\* Largest value of int, the verdict on a state, forging or auto signed block.
MaxInt == 2147483647

Numbers == 0..MaxBlock

Status == {"not_checked", "not_signed", "awaiting_signature", "signed"}

ASSUME BlocksAssumption ==
  /\ NoBlock \notin Blocks /\ Junk \notin Blocks /\ Junk # NoBlock
  /\ NoBlock \notin Extras
  /\ PrevHash \in [Blocks -> Blocks \cup {NoBlock}]
  /\ Verdict \in [Blocks -> -1..MaxInt]
  /\ ExtraPrev \in [Extras -> Blocks \cup {NoBlock}]
  /\ ExtraVerdict \in [Extras -> -1..MaxInt]
  /\ PrevExtras \in [Blocks -> Seq(Extras)]
  /\ NextExtras \in [Blocks -> Seq(Extras)]
  /\ WrongDumps \subseteq Blocks \cup {Junk}

\* The hash of a block covers its predecessors, so it fixes the block's number.
ASSUME ChainsAssumption ==
  /\ MaxBlock \in Nat
  /\ \A c \in Chains :
       /\ c \in Seq(Blocks) /\ Len(c) \in 1..MaxBlock
       /\ \A d \in Chains : \A i \in 1..Len(c), j \in 1..Len(d) : c[i] = d[j] => i = j

ASSUME SettingsAssumption ==
  /\ RecvCount \in Nat \ {0}
  /\ InitCount \in Nat
  /\ Word \in Nat /\ Word > MaxBlock
  /\ Verification \in BOOLEAN
  /\ Version \in {1, 2}
  /\ AutoSigned \subseteq Nat

VARIABLES
  (* LevelDB: survives a crash *)
  dump,        \* "<n>"       -> block dump
  index,       \* "<hash>"    -> n, 0 when absent
  data,        \* "<n>@data"  -> sign status
  extra,       \* "<n>@extra" -> sign block
  db_next,     \* "next_block", 0 when absent
  db_last,     \* "last_signed_block", 0 when absent
  (* fields of the object *)
  db_open,     \* m_db is set
  m_run, m_nextblock, m_last_signed_block,
  stopping,    \* stop() has been called
  (* locals of the worker *)
  pc, hashes, dumps, iter, bi_prev, prev_ext_data, count_blocks,
  marks,       \* status records still to be written for the block at hand
  (* observation only *)
  first,       \* number the cache was started from
  seen,        \* blocks and sign blocks that passed verification and were saved or applied
  crashes, fails

store   == <<dump, index, data, extra, db_next, db_last>>
memory  == <<db_open, m_run, m_nextblock, m_last_signed_block, stopping>>
batch   == <<hashes, dumps, iter, bi_prev, prev_ext_data>>
ghosts  == <<first, seen, crashes, fails>>
vars    == <<store, memory, pc, batch, count_blocks, marks, ghosts>>

Entry == [number: Numbers, hash: Blocks \cup {NoBlock}, extra: Seq(Extras)]
Mark  == [number: Numbers, status: Status, extra: Extras \cup {NoBlock}]

PutStates  == {"put_dump", "put_hash", "put_data", "put_next"}
MarkStates == {"mark_data", "mark_extra", "mark_last"}
Pcs == {"off", "spawned", "loop", "block", "v1", "extras", "stopped"}
         \cup PutStates \cup MarkStates

StoreType ==
  /\ dump \in [Numbers -> Blocks \cup {Junk, NoBlock}]
  /\ index \in [Blocks -> Numbers]
  /\ data \in [Numbers -> Status \cup {"none"}]
  /\ extra \in [Numbers -> Extras \cup {NoBlock}]
  /\ db_next \in Nat /\ db_last \in Numbers

MemoryType ==
  /\ db_open \in BOOLEAN /\ m_run \in BOOLEAN /\ stopping \in BOOLEAN
  /\ m_nextblock \in Nat /\ m_last_signed_block \in Numbers

BatchType ==
  /\ hashes \in Seq(Entry)
  /\ dumps \in Seq(Blocks \cup {Junk})
  /\ iter \in Nat \ {0}
  /\ bi_prev \in Blocks \cup {NoBlock}
  /\ prev_ext_data \in Status \cup {"none"}

GhostType ==
  /\ first \in Nat
  /\ seen \subseteq Extras \cup Blocks
  /\ crashes \in Nat /\ fails \in Nat

TypeOK ==
  /\ StoreType /\ MemoryType /\ BatchType /\ GhostType
  /\ pc \in Pcs
  /\ count_blocks \in Nat
  /\ marks \in Seq(Mark)

(***************************************************************************)
(* What the torrents answer (external).                                    *)
(***************************************************************************)

\* Blocks a torrent may return for a number; it may also have none.
TorrentBlocks(n) == {c[n] : c \in {d \in Chains : n \in 1..Len(d)}} \cup {NoBlock}

\* get-blocks: k headers from number n on, as asked for.  The limit on the summary
\* size of one request only makes the list shorter.
Headers(c, n, k) ==
  [i \in 1..k |-> [number |-> n + i - 1,
                   hash   |-> c[n + i - 1],
                   extra  |-> PrevExtras[c[n + i - 1]]]]

\* get-dumps-blocks-by-hash: a dump per requested hash, in order, possibly cut
\* short, possibly of something else.
DumpReplies(hs, k) ==
  {d \in [1..k -> Blocks \cup {Junk}] :
     \A i \in 1..k : d[i] \in {hs[i].hash} \cup WrongDumps}

(***************************************************************************)
(* Start, stop and death of the process.                                   *)
(***************************************************************************)

Init ==
  /\ dump = [n \in Numbers |-> NoBlock]
  /\ index = [b \in Blocks |-> 0]
  /\ data = [n \in Numbers |-> "none"]
  /\ extra = [n \in Numbers |-> NoBlock]
  /\ db_next = 0 /\ db_last = 0
  /\ db_open = FALSE /\ m_run = FALSE /\ stopping = FALSE
  /\ m_nextblock = 0 /\ m_last_signed_block = 0
  /\ pc = "off"
  /\ hashes = <<>> /\ dumps = <<>> /\ iter = 1
  /\ bi_prev = NoBlock /\ prev_ext_data = "none"
  /\ count_blocks = 0 /\ marks = <<>>
  /\ first = 0 /\ seen = {} /\ crashes = 0 /\ fails = 0

\* Mutant: after a restart the worker begins with the last cached block again.
StartOneBack ==
  /\ pc = "off"
  /\ pc' = "spawned"
  /\ db_open' = TRUE
  /\ m_nextblock' = IF db_next > 1 THEN db_next - 1 ELSE db_next
  /\ m_last_signed_block' = db_last
  /\ UNCHANGED <<store, m_run, stopping, batch, count_blocks, marks, ghosts>>

\* start(): init() loads the two counters, 0 when there is none yet; the worker is
\* spawned even when the database could not be opened.
Start ==
  /\ pc = "off"
  /\ pc' = "spawned"
  /\ \/ /\ db_open' = TRUE
        /\ m_nextblock' = db_next
        /\ m_last_signed_block' = db_last
     \/ /\ OpenMayFail
        /\ UNCHANGED <<db_open, m_nextblock, m_last_signed_block>>
  /\ UNCHANGED <<store, m_run, stopping, batch, count_blocks, marks, ghosts>>

\* Where routine_2 begins when nothing is cached yet.
FirstBlocks ==
  {1} \cup UNION {{IF InitCount = 0 THEN 1
                   ELSE IF h > InitCount THEN h - InitCount ELSE h : h \in 1..Len(c)} :
                    c \in Chains}

\* worker_proc sets m_run, whatever stop() has done before, and the routine
\* chooses the first block.
WorkerProc ==
  /\ pc = "spawned"
  /\ pc' = "loop"
  /\ m_run' = TRUE
  /\ IF Version = 2 /\ m_nextblock = 0
     THEN /\ m_nextblock' \in FirstBlocks
          /\ first' = IF db_open THEN m_nextblock' ELSE first
     ELSE UNCHANGED <<m_nextblock, first>>
  /\ UNCHANGED <<store, db_open, m_last_signed_block, stopping, batch,
                 count_blocks, marks, seen, crashes, fails>>

\* stop() clears m_run and waits for the worker.
Stop ==
  /\ pc # "off" /\ ~stopping
  /\ stopping' = TRUE
  /\ m_run' = FALSE
  /\ UNCHANGED <<store, db_open, m_nextblock, m_last_signed_block, pc, batch,
                 count_blocks, marks, ghosts>>

\* Everything that is not in the database is gone.
ProcessEnds ==
  /\ pc' = "off"
  /\ db_open' = FALSE /\ m_run' = FALSE /\ stopping' = FALSE
  /\ m_nextblock' = 0 /\ m_last_signed_block' = 0
  /\ hashes' = <<>> /\ dumps' = <<>> /\ iter' = 1
  /\ bi_prev' = NoBlock /\ prev_ext_data' = "none"
  /\ count_blocks' = 0 /\ marks' = <<>>
  /\ UNCHANGED <<store, first, seen, fails>>

Crash ==
  /\ pc # "off" /\ crashes < MaxCrashes
  /\ crashes' = crashes + 1
  /\ ProcessEnds

\* The join in stop() has returned and the program ends.
Exit ==
  /\ pc = "stopped" /\ stopping
  /\ ProcessEnds
  /\ UNCHANGED crashes

\* Any access to the database through an empty m_db ends the process.
NullDatabase ==
  /\ ~db_open
  /\ pc \in PutStates \cup MarkStates \/ pc = "block" \/ (pc = "extras" /\ hashes # <<>>)
  /\ ProcessEnds
  /\ UNCHANGED crashes

\* routine_2 or routine returns (m_run is FALSE) or throws; worker_proc ends.
WorkerEnds ==
  /\ pc' = "stopped"
  /\ m_run' = FALSE
  /\ hashes' = <<>> /\ dumps' = <<>> /\ iter' = 1
  /\ bi_prev' = NoBlock /\ prev_ext_data' = "none"
  /\ count_blocks' = 0 /\ marks' = <<>>
  /\ UNCHANGED <<store, db_open, m_nextblock, m_last_signed_block, stopping, ghosts>>

LoopExit ==
  /\ pc = "loop" /\ ~m_run
  /\ WorkerEnds

(***************************************************************************)
(* routine_2: the loop head.                                               *)
(***************************************************************************)

FetchBlocks ==
  /\ pc = "loop" /\ m_run /\ Version = 2
  /\ \E c \in Chains, k \in 1..RecvCount :
       /\ m_nextblock + k - 1 <= Len(c)
       /\ hashes' = Headers(c, m_nextblock, k)
       /\ \E j \in 1..k : dumps' \in DumpReplies(Headers(c, m_nextblock, k), j)
  /\ iter' = 1 /\ bi_prev' = NoBlock
  /\ pc' = "block"
  /\ UNCHANGED <<store, memory, prev_ext_data, count_blocks, marks, ghosts>>

\* get-blocks returned an empty list, as a torrent that lags does: ask for the
\* tip and load the sign blocks known for it, unless the tip is already signed here.
FetchTip ==
  /\ pc = "loop" /\ m_run /\ Version = 2
  /\ \E c \in Chains : \E h \in 1..Len(c) :
       /\ h # m_last_signed_block
       /\ hashes' = <<[number |-> h, hash |-> NoBlock, extra |-> NextExtras[c[h]]]>>
  /\ pc' = "extras"
  /\ UNCHANGED <<store, memory, dumps, iter, bi_prev, prev_ext_data, count_blocks, marks, ghosts>>

(***************************************************************************)
(* routine_2: one block of a batch.                                        *)
(***************************************************************************)

\* core_addr_verification(BlockInfo) of block b when it is stored under number n.
CoreAddrVerification(b, n) == IF n \in AutoSigned THEN MaxInt ELSE Verdict[b]

\* get_block: the cached dump, otherwise whatever the torrent returns.
GetBlock(n) == IF dump[n] # NoBlock THEN {dump[n]} ELSE TorrentBlocks(n)

\* get_block overwrites the caller's status only when one is stored.
ExtData(n, old) == IF data[n] # "none" THEN data[n] ELSE old

BlockNumber == hashes[iter].number
CheckedBlock == Verification /\ BlockNumber > 1
MoreBlocks == iter <= Len(dumps) /\ iter <= Len(hashes)

\* Leave the batch: what was not processed is erased, then load_extra_blocks.
LeaveBatch ==
  /\ hashes' = SubSeq(hashes, 1, iter - 1)
  /\ dumps' = <<>> /\ iter' = 1 /\ bi_prev' = NoBlock
  /\ pc' = "extras"

BatchDone ==
  /\ pc = "block" /\ db_open /\ ~MoreBlocks
  /\ LeaveBatch
  /\ UNCHANGED <<store, memory, prev_ext_data, count_blocks, marks, ghosts>>

\* The predecessor is read once per batch.
LoadPrev ==
  /\ pc = "block" /\ db_open /\ MoreBlocks /\ CheckedBlock /\ bi_prev = NoBlock
  /\ \E b \in GetBlock(BlockNumber - 1) :
       \/ b = NoBlock /\ LeaveBatch
            /\ prev_ext_data' = ExtData(BlockNumber - 1, prev_ext_data)
            /\ UNCHANGED <<store, memory, count_blocks, marks, ghosts>>
       \/ b = Junk /\ WorkerEnds
       \/ /\ b \in Blocks
          /\ bi_prev' = b
          /\ prev_ext_data' = ExtData(BlockNumber - 1, prev_ext_data)
          /\ UNCHANGED <<store, memory, pc, hashes, dumps, iter, count_blocks, marks, ghosts>>

\* Mutant: the link to the previous block is not checked.
BlockPassesUnlinked(b) ==
  /\ b = hashes[iter].hash
  /\ CoreAddrVerification(b, BlockNumber) # -1

\* Mutant: the verdict on the signatures is not looked at.
BlockPassesForged(b) ==
  /\ b = hashes[iter].hash
  /\ PrevHash[b] = bi_prev

\* Hash, link and core signatures of the dump at hand.
BlockPasses(b) ==
  /\ b = hashes[iter].hash
  /\ PrevHash[b] = bi_prev
  /\ CoreAddrVerification(b, BlockNumber) # -1

CheckBlock ==
  /\ pc = "block" /\ db_open /\ MoreBlocks /\ CheckedBlock /\ bi_prev # NoBlock
  /\ \/ dumps[iter] = Junk /\ WorkerEnds
     \/ /\ dumps[iter] # Junk /\ ~BlockPasses(dumps[iter])
        /\ LeaveBatch
        /\ UNCHANGED <<store, memory, prev_ext_data, count_blocks, marks, ghosts>>
     \/ /\ dumps[iter] # Junk /\ BlockPasses(dumps[iter])
        /\ pc' = "put_dump"
        /\ UNCHANGED <<store, memory, batch, count_blocks, marks, ghosts>>

\* Block 1, and every block when verification is off, is stored as it comes.
TakeBlock ==
  /\ pc = "block" /\ db_open /\ MoreBlocks /\ ~CheckedBlock
  /\ pc' = "put_dump"
  /\ UNCHANGED <<store, memory, batch, count_blocks, marks, ghosts>>

(***************************************************************************)
(* routine (version 1): one dump at a time, up to the counted tip.         *)
(***************************************************************************)

\* count_blocks - blocks_cache_init_count is computed in an unsigned type.
V1Count ==
  /\ pc = "loop" /\ m_run /\ Version = 1
  /\ \E c \in Chains : \E h \in 1..Len(c) :
       LET behind == (h - InitCount) % Word
       IN  /\ count_blocks' = h
           /\ m_nextblock' = IF m_nextblock # 0 THEN m_nextblock
                             ELSE IF behind > 0 THEN behind ELSE 1
           /\ first' = IF m_nextblock = 0 /\ db_open THEN m_nextblock' ELSE first
  /\ pc' = "v1"
  /\ UNCHANGED <<store, db_open, m_run, m_last_signed_block, stopping, batch, marks,
                 seen, crashes, fails>>

\* A dump that is not a block is asked for again; no dump leaves the loop.  What
\* this routine stores is the reply as it came, compressed: a dump of version 1
\* stands for the compressed one.
V1Fetch ==
  /\ pc = "v1" /\ m_run /\ m_nextblock <= count_blocks
  /\ \E b \in TorrentBlocks(m_nextblock) :
       \/ /\ b = NoBlock
          /\ pc' = "loop"
          /\ UNCHANGED batch
       \/ /\ b # NoBlock
          /\ hashes' = <<[number |-> m_nextblock, hash |-> b, extra |-> <<>>]>>
          /\ dumps' = <<b>> /\ iter' = 1
          /\ pc' = "put_dump"
          /\ UNCHANGED <<bi_prev, prev_ext_data>>
  /\ UNCHANGED <<store, memory, count_blocks, marks, ghosts>>

V1Done ==
  /\ pc = "v1" /\ (~m_run \/ m_nextblock > count_blocks)
  /\ pc' = "loop"
  /\ UNCHANGED <<store, memory, batch, count_blocks, marks, ghosts>>

(***************************************************************************)
(* save_block and update_number, Put by Put.                               *)
(***************************************************************************)

\* One Put of the database; a failed one is counted.
Put(ok) ==
  /\ db_open
  /\ \/ ok /\ UNCHANGED fails
     \/ ~ok /\ fails < MaxFails /\ fails' = fails + 1

\* save_block returned false.
SaveFailed ==
  \/ Version = 2 /\ LeaveBatch
  \/ /\ Version = 1
     /\ pc' = "v1"
     /\ UNCHANGED <<hashes, dumps, iter, bi_prev>>

PutDump ==
  /\ pc = "put_dump"
  /\ \/ /\ Put(TRUE)
        /\ dump' = [dump EXCEPT ![BlockNumber] = dumps[iter]]
        /\ pc' = "put_hash"
        /\ UNCHANGED <<hashes, dumps, iter, bi_prev>>
     \/ Put(FALSE) /\ SaveFailed /\ UNCHANGED dump
  /\ UNCHANGED <<index, data, extra, db_next, db_last, memory, prev_ext_data,
                 count_blocks, marks, first, seen, crashes>>

\* Mutant: save_block does not look at the status of the second Put.
PutHashUnchecked ==
  /\ pc = "put_hash"
  /\ \/ Put(TRUE) /\ index' = [index EXCEPT ![hashes[iter].hash] = BlockNumber]
     \/ Put(FALSE) /\ UNCHANGED index
  /\ pc' = "put_data"
  /\ UNCHANGED <<dump, data, extra, db_next, db_last, memory, batch,
                 count_blocks, marks, first, seen, crashes>>

PutHash ==
  /\ pc = "put_hash"
  /\ \/ /\ Put(TRUE)
        /\ index' = [index EXCEPT ![hashes[iter].hash] = BlockNumber]
        /\ pc' = "put_data"
        /\ UNCHANGED <<hashes, dumps, iter, bi_prev>>
     \/ Put(FALSE) /\ SaveFailed /\ UNCHANGED index
  /\ UNCHANGED <<dump, data, extra, db_next, db_last, memory, prev_ext_data,
                 count_blocks, marks, first, seen, crashes>>

\* The status save_block is called with.
SavedStatus ==
  IF Version = 2 /\ ~CheckedBlock /\ BlockNumber = 1 THEN "signed" ELSE "not_checked"

\* Mutant: the counter in memory stays.
PutDataNoAdvance ==
  /\ pc = "put_data"
  /\ Put(TRUE)
  /\ data' = [data EXCEPT ![BlockNumber] = SavedStatus]
  /\ pc' = "put_next"
  /\ UNCHANGED <<dump, index, extra, db_next, db_last, memory, batch, count_blocks, marks,
                 first, seen, crashes>>

\* The last Put of save_block; on success the counter in memory moves on.
PutData ==
  /\ pc = "put_data"
  /\ \/ /\ Put(TRUE)
        /\ data' = [data EXCEPT ![BlockNumber] = SavedStatus]
        /\ m_nextblock' = BlockNumber + 1
        /\ pc' = "put_next"
        /\ UNCHANGED <<hashes, dumps, iter, bi_prev>>
     \/ Put(FALSE) /\ SaveFailed /\ UNCHANGED <<data, m_nextblock>>
  /\ UNCHANGED <<dump, index, extra, db_next, db_last, db_open, m_run,
                 m_last_signed_block, stopping, prev_ext_data, count_blocks, marks,
                 first, seen, crashes>>

(***************************************************************************)
(* Signature bookkeeping of a block that has just been saved.              *)
(***************************************************************************)

SignMark(n) == [number |-> n, status |-> "signed", extra |-> NoBlock]

\* "check for broken blocks": the block before the awaiting predecessor.
BrokenBlock(n, b1, b2) ==
  /\ b1 \in Blocks /\ b2 \in Blocks
  /\ ExtData(n - 2, "not_checked") # "signed"
  /\ PrevHash[bi_prev] = b1 /\ PrevHash[b1] = b2
  /\ CoreAddrVerification(b1, n - 2) > 0

\* Status records written for block n with verdict v, in order.
MarksFor(n, v, b1, b2) ==
  LET own == IF v = MaxInt THEN <<SignMark(n)>> ELSE <<>>
      prevToo == v # MaxInt \/ prev_ext_data \in {"not_signed", "not_checked"}
      broken == IF prev_ext_data = "awaiting_signature" /\ BrokenBlock(n, b1, b2)
                THEN <<SignMark(n - 2)>> ELSE <<>>
  IN  IF v = 0
      THEN <<[number |-> n, status |-> "awaiting_signature", extra |-> NoBlock]>>
      ELSE own \o (IF prevToo THEN broken \o <<SignMark(n - 1)>> ELSE <<>>)

\* The status memory keeps for the block when it becomes the predecessor.
OwnStatus(v) ==
  CASE v = MaxInt -> "signed"
    [] v = 0      -> "awaiting_signature"
    [] OTHER      -> "not_checked"


\* update_number
UpdateNumber ==
  \/ Put(TRUE) /\ db_next' = m_nextblock
  \/ Put(FALSE) /\ UNCHANGED db_next

\* update_number, whose result nobody looks at, then the bookkeeping.
PutNext ==
  /\ pc = "put_next"
  /\ UpdateNumber
  /\ iter' = iter + 1
  /\ IF Version = 2 /\ CheckedBlock
     THEN LET n == BlockNumber
              v == CoreAddrVerification(dumps[iter], n)
          IN  /\ \E b1 \in IF n > 2 THEN GetBlock(n - 2) ELSE {NoBlock},
                    b2 \in IF n > 2 THEN GetBlock(n - 3) ELSE {NoBlock} :
                   marks' = MarksFor(n, v, b1, b2)
              /\ prev_ext_data' = OwnStatus(v)
              /\ bi_prev' = dumps[iter]
              /\ seen' = seen \cup {dumps[iter]}
              /\ pc' = "mark_data"
     ELSE /\ pc' = IF Version = 2 THEN "block" ELSE "v1"
          /\ UNCHANGED <<marks, prev_ext_data, bi_prev, seen>>
  /\ UNCHANGED <<dump, index, data, extra, db_last, memory, hashes, dumps,
                 count_blocks, first, crashes>>

\* The current record is dealt with.
NextMark ==
  /\ marks' = Tail(marks)
  /\ pc' = IF Tail(marks) # <<>> THEN "mark_data"
           ELSE IF Head(marks).extra = NoBlock THEN "block" ELSE "extras"

\* Mutant: update_last_signed is called whatever the status.
MarkDataLastAlways ==
  /\ pc = "mark_data"
  /\ Put(TRUE)
  /\ data' = [data EXCEPT ![Head(marks).number] = Head(marks).status]
  /\ pc' = IF Head(marks).extra # NoBlock THEN "mark_extra" ELSE "mark_last"
  /\ UNCHANGED <<dump, index, extra, db_next, db_last, memory, batch, count_blocks,
                 marks, first, seen, crashes>>

\* Mutant: the bookkeeping is given up when the cache is being stopped.
MarkDataGivesUp ==
  /\ pc = "mark_data"
  /\ Put(TRUE)
  /\ data' = IF m_run THEN [data EXCEPT ![Head(marks).number] = Head(marks).status] ELSE data
  /\ NextMark
  /\ UNCHANGED <<dump, index, extra, db_next, db_last, memory, batch, count_blocks,
                 first, seen, crashes>>

\* save_extra_data; its result is ignored.
MarkData ==
  /\ pc = "mark_data"
  /\ \/ Put(TRUE) /\ data' = [data EXCEPT ![Head(marks).number] = Head(marks).status]
     \/ Put(FALSE) /\ UNCHANGED data
  /\ IF Head(marks).extra # NoBlock
     THEN pc' = "mark_extra" /\ UNCHANGED marks
     ELSE IF Head(marks).status = "signed"
          THEN pc' = "mark_last" /\ UNCHANGED marks
          ELSE NextMark
  /\ UNCHANGED <<dump, index, extra, db_next, db_last, memory, batch, count_blocks,
                 first, seen, crashes>>

\* save_extra_block
MarkExtra ==
  /\ pc = "mark_extra"
  /\ \/ Put(TRUE) /\ extra' = [extra EXCEPT ![Head(marks).number] = Head(marks).extra]
     \/ Put(FALSE) /\ UNCHANGED extra
  /\ IF Head(marks).status = "signed"
     THEN pc' = "mark_last" /\ UNCHANGED marks
     ELSE NextMark
  /\ UNCHANGED <<dump, index, data, db_next, db_last, memory, batch, count_blocks,
                 first, seen, crashes>>

\* update_last_signed: the number only grows, and memory follows the Put.
UpdateLastSigned(n) ==
  IF m_last_signed_block < n
  THEN \/ Put(TRUE) /\ db_last' = n /\ m_last_signed_block' = n
       \/ Put(FALSE) /\ UNCHANGED <<db_last, m_last_signed_block>>
  ELSE UNCHANGED <<db_last, m_last_signed_block, fails>>

MarkLast ==
  /\ pc = "mark_last"
  /\ UpdateLastSigned(Head(marks).number)
  /\ NextMark
  /\ UNCHANGED <<dump, index, data, extra, db_next, db_open, m_run, m_nextblock,
                 stopping, batch, count_blocks, first, seen, crashes>>

(***************************************************************************)
(* load_extra_blocks                                                       *)
(***************************************************************************)

\* Number of extra blocks listed by the first k entries.
ExtraCount[k \in 0..Len(hashes)] ==
  IF k = 0 THEN 0 ELSE ExtraCount[k - 1] + Len(hashes[k].extra)

\* The scan of the entries for one request ends at entry k, or behind the last.
ScanEnds(k) ==
  /\ k <= Len(hashes) => RecvCount <= ExtraCount[k]
  /\ \A j \in 1..(k - 1) : ExtraCount[j] < RecvCount

\* Commas are written before the hashes of every entry but the first, so the
\* list is JSON only when the first entry lists exactly one hash.
WellFormed == Len(hashes[1].extra) = 1

\* Sign blocks whose previous block is found in the hash index.  The reply is not
\* compared with what was asked for; any other dump in it is skipped.
Applicable ==
  {e \in Extras : ExtraPrev[e] # NoBlock /\ index[ExtraPrev[e]] # 0}

\* Mutant: a sign block with the signature of a single core is refused.
ExtraMarkTwoCores(e) ==
  [number |-> index[ExtraPrev[e]],
   status |-> IF ExtraVerdict[e] > 1 THEN "signed" ELSE "not_signed",
   extra  |-> e]

ExtraMark(e) ==
  [number |-> index[ExtraPrev[e]],
   status |-> IF ExtraVerdict[e] > 0 THEN "signed" ELSE "not_signed",
   extra  |-> e]

NoExtras ==
  /\ pc = "extras"
  /\ ExtraCount[Len(hashes)] = 0
  /\ hashes' = <<>>
  /\ pc' = "loop"
  /\ UNCHANGED <<store, memory, dumps, iter, bi_prev, prev_ext_data, count_blocks,
                 marks, ghosts>>

\* Mutant: a failed request leaves the entries in place.
LoadExtraBlocksAgain ==
  /\ pc = "extras" /\ hashes # <<>>
  /\ ExtraCount[Len(hashes)] # 0
  /\ UNCHANGED vars

\* One request.  No reply, or an error, is dropped together with the entries;
\* of a reply at most as many sign blocks are used as there are entries.
LoadExtraBlocks ==
  /\ pc = "extras" /\ hashes # <<>>
  /\ \E k \in 1..(Len(hashes) + 1) :
       /\ ScanEnds(k)
       /\ ExtraCount[Len(hashes)] # 0
       /\ hashes' = SubSeq(hashes, k, Len(hashes))
       /\ \/ UNCHANGED <<pc, marks, seen>>
          \/ /\ WellFormed /\ db_open
             /\ \E m \in 1..Len(hashes) : \E r \in [1..m -> Applicable] :
                  /\ marks' = [i \in 1..m |-> ExtraMark(r[i])]
                  /\ seen' = seen \cup {e \in Extras : ExtraVerdict[e] > 0 /\ \E i \in 1..m : r[i] = e}
             /\ pc' = "mark_data"
  /\ UNCHANGED <<store, memory, dumps, iter, bi_prev, prev_ext_data, count_blocks,
                 first, crashes, fails>>

(***************************************************************************)
(* The specification.                                                      *)
(***************************************************************************)

Process == Start \/ Stop \/ Crash \/ Exit \/ NullDatabase

Worker ==
  \/ WorkerProc \/ LoopExit
  \/ FetchBlocks \/ FetchTip
  \/ LoadPrev \/ CheckBlock \/ TakeBlock \/ BatchDone
  \/ V1Count \/ V1Fetch \/ V1Done
  \/ PutDump \/ PutHash \/ PutData \/ PutNext
  \/ MarkData \/ MarkExtra \/ MarkLast
  \/ NoExtras \/ LoadExtraBlocks

Next == Process \/ Worker

Spec == Init /\ [][Next]_vars

\* The worker keeps running once the process is started, and its requests return,
\* with or without an answer ...
WorkerStep ==
  \/ WorkerProc \/ LoopExit
  \/ LoadPrev \/ CheckBlock \/ TakeBlock \/ BatchDone
  \/ V1Done \/ PutDump \/ PutHash \/ PutData \/ PutNext
  \/ MarkData \/ MarkExtra \/ MarkLast
  \/ NoExtras \/ LoadExtraBlocks

\* ... and the loop, which asks again for ever, now and then gets the complete
\* answer of a torrent that has all the blocks.
GoodFetch ==
  /\ FetchBlocks
  /\ \E c \in Chains : Len(hashes') = (IF Len(c) - m_nextblock + 1 < RecvCount
                                       THEN Len(c) - m_nextblock + 1 ELSE RecvCount)
  /\ dumps' = [i \in 1..Len(hashes') |-> hashes'[i].hash]

FairSpec == Spec /\ WF_vars(Start) /\ WF_vars(WorkerStep) /\ SF_vars(GoodFetch)

(***************************************************************************)
(* Properties.                                                             *)
(***************************************************************************)

\* Numbers the database claims to hold: restart resumes behind them.
Claimed == {n \in Numbers : first <= n /\ n < db_next}

\* Whatever the process dies in the middle of, and whichever Put fails, every
\* block number below the stored next_block has its dump, its status and an
\* entry in the hash index: save_block completes before update_number runs.
CompleteBelowNext ==
  \A n \in Claimed : /\ dump[n] # NoBlock
                     /\ data[n] # "none"
                     /\ \E b \in Blocks : index[b] = n

\* With verification on, the cached blocks form one chain: each dump names the
\* hash of the dump below it, although the torrents asked may be on different
\* forks and the worker may have been restarted between any two blocks.
CachedChainLinked ==
  Version = 2 /\ Verification =>
    \A n \in Claimed : n > first => /\ dump[n] \in Blocks
                                    /\ PrevHash[dump[n]] = dump[n - 1]

\* The last_signed_block that get-count-blocks reports is the stored one: a
\* failed Put must not let memory run ahead of the database.
LastSignedPersisted == db_open => m_last_signed_block = db_last

\* Why block n may be served as signed: by number, by a verified successor, by
\* the "broken blocks" rule, or by a verified sign block.  The successor may since
\* have given way to one of another fork, when update_number failed.
Attested(n) ==
  \/ n = 1
  \/ CoreAddrVerification(dump[n], n) = MaxInt
  \/ \E b \in seen \cap Blocks : /\ PrevHash[b] = dump[n]
                                 /\ CoreAddrVerification(b, n + 1) > 0
  \/ \E b \in Blocks, c \in seen \cap Blocks :
       /\ PrevHash[b] = dump[n] /\ PrevHash[c] = b
       /\ CoreAddrVerification(dump[n], n) > 0
       /\ CoreAddrVerification(b, n + 1) = 0
       /\ CoreAddrVerification(c, n + 2) > 0
  \/ \E e \in seen \cap Extras : ExtraPrev[e] = dump[n]

\* No crash and no failed Put so far.
NoFaults == crashes = 0 /\ fails = 0

\* The hash index has no entry of another block for number n.  It keeps one when
\* a crash or a failed Put ends save_block early and another fork's block takes
\* the number.
IndexAgrees(n) == \A b \in Blocks : index[b] = n => b = dump[n]

\* A block below next_block that is marked signed has been vouched for, whatever
\* was interrupted in between: it is exempt, or a linked successor carries core
\* signatures, or it is the block before an unsigned one that the "broken blocks"
\* rule accepts, or a verified sign block names it.
SignedJustified ==
  \A n \in Claimed : data[n] = "signed" /\ IndexAgrees(n) => Attested(n)

\* The number reported by get-count-blocks is the stored one although Puts fail,
\* and as long as none has failed and the process has not died it is that of a
\* block whose status says signed, so that get-block-by-number of it is answered,
\* provided the sign blocks the torrents list pass verification.
LastSignedIsSigned ==
  /\ LastSignedPersisted
  /\ NoFaults /\ db_open /\ m_last_signed_block # 0 => data[m_last_signed_block] = "signed"

\* A block that clients were shown as signed does not become unsigned again,
\* provided the sign blocks the torrents list pass verification.
SignedIsStable ==
  [][\A n \in Numbers : n < m_nextblock /\ data[n] = "signed" => data'[n] = "signed"]_vars

\* A cached successor of block n carries core signatures.
SignedSuccessor(n) ==
  /\ n + 1 < m_nextblock
  /\ dump[n + 1] \in Blocks
  /\ CoreAddrVerification(dump[n + 1], n + 1) \in 1..(MaxInt - 1)

\* Once a cached successor carries core signatures, its predecessor is marked
\* signed: the bookkeeping that follows save_block and update_number is carried
\* out, even when stop() is called in the middle of a batch.
SignaturesAreRecorded ==
  \A n \in Numbers \ {0} : SignedSuccessor(n) ~> data[n] = "signed"


\* A stop() that finds the worker running ends it: the batch, and the loading of
\* extra blocks that does not look at m_run, come to an end, as long as the
\* request under way returns (see CatchesUp).
StopEndsWorker ==
  (stopping /\ ~m_run /\ pc # "spawned") ~> pc \in {"stopped", "off"}

\* The cached blocks as an append-only chain: update_number publishes them.
Segment ==
  INSTANCE CachedChain WITH
    base   <- IF db_next = 0 THEN 0 ELSE first,
    next   <- db_next,
    chain  <- [n \in Numbers |-> IF n \in Claimed THEN dump[n] ELSE NoBlock],
    Linked <- Version = 2 /\ Verification

\* Under crashes, failed Puts and forks, users of the cache see a chain that
\* only grows: a block below next_block is never replaced.
CacheIsAppendOnly == Segment!ChainSpec

=============================================================================
